----------------------------- MODULE FetchPackage -----------------------------
(***************************************************************************)
(* The open service's side of POST /v1/migrate (headless-migrator/src:     *)
(* fetch.rs and the router codes of dna_errors.rs): what it makes of the   *)
(* answer the router of MigrateRouter gives.                               *)
(***************************************************************************)
EXTENDS MigrateRouter

\* Mutant: a notary that does not see the close yet is taken for a refusal.
HardStopsEager == {"warranted", "bad_request", "unknown_to_dna", "unknown_from_dna",
                   "unknown_current_dna", "to_is_chain_root", "unreachable_target",
                   "no_close_found"}

\* router_code_is_hard_stop
HardStops == {"warranted", "bad_request", "unknown_to_dna", "unknown_from_dna",
              "unknown_current_dna", "to_is_chain_root", "unreachable_target"}

\* router_code_is_retryable
Retryable == {"no_close_found", "all_orgs_unhealthy", "unable_to_verify", "internal",
              "auth_failed", "rate_limited"}

\* fetch_package, by the envelope's code; one it does not know is a hard stop.
Taken == IF response \in {"none", "package"} THEN response
         ELSE IF response \in Retryable \ HardStops THEN "wait"
         ELSE "stop"

\* "no_close_found (which, after a known close, can only be propagation lag)"
\* (fetch.rs): a run is ended by a fault of the request, or by a daemon that says
\* the chain is warranted or the request malformed; never by lag, an outage, a
\* daemon's fault, a disagreement, or the order these arrive in.
LagIsWaitedOut ==
    (Taken = "stop" /\ response # Refusal)
       => \E d \in Concerned : Says(d, {response} \cap {"warranted", "bad_request"})
=============================================================================
