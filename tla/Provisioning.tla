----------------------------- MODULE Provisioning -----------------------------
(***************************************************************************)
(* What joining::provision_agent promises the open service, pass after     *)
(* pass and run after run: a provision only where the joining service has  *)
(* one for the key, and a hard stop (JoinError::Permanent) only where the  *)
(* service, its operator or this node's set-up really stands in the way.   *)
(* Anything else is asked again.                                           *)
(***************************************************************************)

VARIABLES
    outcome,   \* "asking", "provided" or "refused"
    admitted,  \* whether the service has a provision for the key
    denied     \* whether asking again the same way cannot help

vars == <<outcome, admitted, denied>>

Init == /\ outcome = "asking"
        /\ admitted \in BOOLEAN /\ denied \in BOOLEAN

Provide == /\ outcome = "asking" /\ admitted
           /\ outcome' = "provided"
           /\ UNCHANGED <<admitted, denied>>

Refuse == /\ outcome = "asking" /\ denied
          /\ outcome' = "refused"
          /\ UNCHANGED <<admitted, denied>>

\* The next pass, of this run or of the one systemd starts after a refusal.
AskAgain == /\ outcome # "asking"
            /\ outcome' = "asking"
            /\ UNCHANGED <<admitted, denied>>

\* The service, its operator and calls that were given up move on by themselves.
World == /\ UNCHANGED outcome
         /\ admitted' \in BOOLEAN /\ denied' \in BOOLEAN

Next == Provide \/ Refuse \/ AskAgain \/ World

Spec == Init /\ [][Next]_vars
=============================================================================
