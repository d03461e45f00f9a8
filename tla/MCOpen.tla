------------------------------- MODULE MCOpen -------------------------------
(* Everything that can go wrong, a little of each: every landing and ledger, *)
(* every final refusal, a disk that refuses a write and loses the file once, *)
(* two calls that fail or runs cut short; what `init` waits for may *)
(* come late or never; the agent transacts on its new chain when it likes.   *)
(* In the calm half of the runs nobody refuses for good and the disk works:  *)
(* there the liveness properties say something.                              *)
EXTENDS OpenService

MCTime == 0..2
MCLandings == {"target", "other", "hidden"}
MCHardFaults == {"router", "joining", "init", "decode"}
=============================================================================
