----------------------------- MODULE MCOldServer -----------------------------
(***************************************************************************)
(* Three notaries, one listed twice and faulty, of whom two must approve.   *)
(* Either the whole server is considered: two faults, a run of `status`,    *)
(* and lair, lair beside an opt-in, half of it, nothing but the opt-in, and *)
(* a value that is none.  Or the close service is, alone, in rough weather: *)
(* the faulty notary answers anything, the close can be torn, the binary or *)
(* the target not fit and the disk fail, the agent commits beside it, and   *)
(* one fault.                                                               *)
(***************************************************************************)
EXTENDS OldServer

VARIABLE rough  \* whether it is the second

MCListed == <<"n1", "n1", "n2", "n3">>

Alone == INSTANCE CloseService
             WITH Verdicts <- {"approved", "target_not_approved", "not_a_closing_notary",
                               "warranted"},
                  HardFaults <- {"decode", "target"}, Torn <- TRUE, DiskFaults <- TRUE,
                  MaxTop <- 1, MaxFaults <- 1

ByLair == [url |-> "sound", passphrase |-> TRUE, optIn |-> "off", toDna |-> TRUE]
Permitted == [ByLair EXCEPT !.optIn = "on"]
Aimless == [ByLair EXCEPT !.toDna = FALSE]
HalfLair == [ByLair EXCEPT !.passphrase = FALSE]
HalfPermitted == [HalfLair EXCEPT !.optIn = "on"]
Unlocked == [ByLair EXCEPT !.url = "malformed"]
Guess == [ByLair EXCEPT !.optIn = "odd"]
ByGrant == [HalfPermitted EXCEPT !.url = "unset"]

All(c, s, n) == [u \in Unit |-> IF u = "close" THEN c ELSE IF u = "status" THEN s ELSE n]

MCDeployments == {All(ByLair, Permitted, ByGrant), All(Permitted, HalfLair, Unlocked),
                  All(ByLair, ByGrant, Guess), All(ByGrant, ByLair, HalfPermitted),
                  All(Aimless, ByGrant, ByLair), All(HalfPermitted, ByGrant, ByLair)}

\* A service alone has no use for an environment.
MCInit == /\ ServerInit
          /\ rough \in BOOLEAN
          /\ rough => env["close"] = Aimless

MCNext == /\ \/ ~rough /\ ServerNext
             \/ rough /\ Alone!Next /\ UNCHANGED <<gate, grants, warranted, attached, command>>
          /\ UNCHANGED rough

MCSpec == /\ MCInit /\ [][MCNext]_<<serverVars, rough>>
          /\ WF_serverVars(~rough /\ CloseConnects)
          /\ WF_serverVars(~rough /\ CloseStarts)
          /\ WF_serverVars(~rough /\ CloseRuns)
=============================================================================
