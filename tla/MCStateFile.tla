---------------------------- MODULE MCStateFile ----------------------------
(* The open service, a `status` and a `verify` command on one file, two      *)
(* readings of the clock and one loss of the file by the disk.               *)
EXTENDS StateFile, TLC

CONSTANTS status, verify

MCCommands == {status, verify}
MCTime == 1..2

\* Nothing tells one command from another.
MCSymmetry == Permutations(MCCommands)
=============================================================================
