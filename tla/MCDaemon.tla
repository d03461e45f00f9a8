------------------------------ MODULE MCDaemon ------------------------------
(***************************************************************************)
(* An attestation request whose client can give up and a health check, over *)
(* three disruptions of a conductor that fails by itself too, or does not.  *)
(***************************************************************************)
EXTENDS NotaryDaemon, TLC

CONSTANTS r1, probe

MCKind == r1 :> "attest" @@ probe :> "healthz"
=============================================================================
