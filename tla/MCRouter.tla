------------------------------- MODULE MCRouter -------------------------------
(***************************************************************************)
(* A chain of five versions.  The agent migrated v0 -> v1, v1 -> v2, v2 ->  *)
(* v3 and v3 -> v4, and asks for a version without saying where it comes    *)
(* from, or naming its source.  For v3 and v4 the router tries v1 first,    *)
(* whose close binds another target and whose daemons only fail or fall     *)
(* short.                                                                   *)
(*  - Of v0's three, M is 2, one always sees the close, one signs with the  *)
(*    agent's key, one fails or forges a close to v1.                       *)
(*  - Of v1's two, M is 2.                                                  *)
(*  - Of v2's four, M is 3, two answer anything.                            *)
(*  - Of v3's five, M is 2, one fails but never lies, two sign with one key *)
(*    and one with the agent's.                                             *)
(***************************************************************************)
EXTENDS FetchPackage, TLC

CONSTANTS v0, v1, v2, v3, v4, unlisted, me, k1, k2, k3, k4,
          z1, z2, z3, a1, a2, b1, b2, b3, b4, c1, c2, c3, c4, c5, made, forged

MCRegistered == {v0, v1, v2, v3, v4}
MCRank == v0 :> 0 @@ v1 :> 1 @@ v2 :> 2 @@ v3 :> 3 @@ v4 :> 4
MCUpgradesFrom == v0 :> NoDna @@ v1 :> v0 @@ v2 :> v1 @@ v3 :> v2 @@ v4 :> v3
MCUpgradeTargets == v0 :> {v1} @@ v1 :> {v2, v3, v4} @@ v2 :> {v3} @@ v3 :> {v4} @@ v4 :> {}
MCNotaries == v0 :> {z1, z2, z3} @@ v1 :> {a1, a2} @@ v2 :> {b1, b2, b3, b4}
                @@ v3 :> {c1, c2, c3, c4, c5} @@ v4 :> {}
MCThreshold == v0 :> 2 @@ v1 :> 2 @@ v2 :> 3 @@ v3 :> 2 @@ v4 :> 0

Close(s, t, action) == [source |-> s, agent |-> me, target |-> t, action |-> action]

MCTrueClose == v0 :> Close(v0, v1, made) @@ v1 :> Close(v1, v2, made)
                 @@ v2 :> Close(v2, v3, made) @@ v3 :> Close(v3, v4, made) @@ v4 :> NoPackage
MCKeyOf == z1 :> k1 @@ z2 :> k2 @@ z3 :> me
             @@ a1 :> k1 @@ a2 :> k2
             @@ b1 :> k1 @@ b2 :> k2 @@ b3 :> k3 @@ b4 :> k4
             @@ c1 :> k1 @@ c2 :> k2 @@ c3 :> k2 @@ c4 :> k3 @@ c5 :> me

Failures == {"unreachable", "no_close_found", "unable_to_verify", "auth_failed",
             "rate_limited"}

AnyAnswers ==
    {Reply(k) : k \in {"unreachable", "malformed", "internal", "warranted",
                       "bad_request", "no_close_found", "unable_to_verify"}}
      \cup {Attestation(p, k) : p \in {Close(v2, v3, made), Close(v2, v3, forged)},
                                k \in {k1, k2, me}}
      \cup {Attestation(Close(v2, v2, made), k1),
            Attestation(Close(v1, v3, made), k1),
            Attestation([source |-> v2, agent |-> k3, target |-> v3, action |-> made], k1)}

MCFaultyAnswers ==
    [d \in Daemon |-> CASE d \in {b1, b2} -> AnyAnswers
                        [] d = z1 -> {Reply(k) : k \in Failures} \cup
                                     {Attestation(Close(v0, v1, forged), k) : k \in {k1, me}}
                        [] d = c1 -> {Reply(k) : k \in Failures}
                        [] OTHER -> {}]

MCHonestReplies ==
    [d \in Daemon |-> IF d \in {a1, a2, b3, b4}
                      THEN {"unable_to_verify", "rate_limited", "auth_failed", "no_close_found"}
                      ELSE {}]

MCRequests == [from : {NoDna, v2, v3, unlisted}, to : {NoDna, v0, v1, v2, v3, v4, unlisted}]
=============================================================================
