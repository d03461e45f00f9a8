----------------------------- MODULE StateRecord -----------------------------
(***************************************************************************)
(* The progress file of one agent (headless-migrator/src/state_file.rs),   *)
(* as the three fields that outlive a run: the `safe_to_teardown` latch,   *)
(* the `gd_wait_started_us` stamp and the `new_chain_opened` flag.  The    *)
(* rest of a `State` is what a run says of itself.                         *)
(*                                                                         *)
(* Here are the rules of reading, seeding and writing the file, and        *)
(* RecordSpec, what the file promises its readers.  StateFile models the   *)
(* system calls of a write, OpenService the programs that write.           *)
(***************************************************************************)
EXTENDS Integers

CONSTANTS
    Time,      \* the readings of the clock
    NoStamp,   \* an absent stamp
    Absent,    \* no file
    Empty,     \* a file that was truncated and not written
    Corrupt    \* a file that does not parse

VARIABLE file  \* what the path of the state file names

Record == [latch : BOOLEAN, stamp : Time \cup {NoStamp}, opened : BOOLEAN]

Content == Record \cup {Absent, Empty, Corrupt}

ASSUME RecordAssumption ==
    /\ Time \subseteq Nat
    /\ NoStamp \notin Time
    /\ {Absent, Empty, Corrupt} \cap Record = {}
    /\ Absent \notin {Empty, Corrupt}

Known(f) == f \notin {Absent, Empty, Corrupt}
Unreadable(f) == f \in {Empty, Corrupt}

\* State::new
Fresh == [latch |-> FALSE, stamp |-> NoStamp, opened |-> FALSE]

\* Mutant: the latch is not carried.
SeededStampOnly(prior, record) ==
    IF Known(prior)
    THEN [record EXCEPT !.stamp = IF @ = NoStamp THEN prior.stamp ELSE @]
    ELSE record

\* Mutant: the stamp is not carried.
SeededLatchOnly(prior, record) ==
    IF Known(prior) THEN [record EXCEPT !.latch = @ \/ prior.latch] ELSE record

\* seed_from_persisted: `opened` is not carried.
Seeded(prior, record) ==
    IF Known(prior)
    THEN [record EXCEPT !.latch = @ \/ prior.latch,
                        !.stamp = IF @ = NoStamp THEN prior.stamp ELSE @]
    ELSE record

\* Mutant: a file that cannot be read is taken for an absent one.
RefusedNever(prior, record) == FALSE

\* `write` fails closed: the latch of an unreadable file is unknown.
Refused(prior, record) == Unreadable(prior) /\ ~record.latch

\* Mutant: the record is written as the caller passed it.
GuardedNot(prior, record) == record

\* What `write` makes of the caller's record.
Guarded(prior, record) ==
    IF Known(prior)
    THEN [record EXCEPT !.latch = @ \/ prior.latch,
                        !.stamp = IF @ = NoStamp THEN prior.stamp ELSE @]
    ELSE record

-----------------------------------------------------------------------------
(* What the file promises: a latch that is up stays up; until it is, a stamp *)
(* is written once; a file that lost its content is replaced only by a       *)
(* raised latch.  The content itself is lost to the disk alone.              *)

Keeps(old, new) ==
    \/ new = Corrupt
    \/ /\ new \in Record
       /\ Known(old) => /\ old.latch => new.latch
                        /\ ~old.latch /\ old.stamp # NoStamp => new.stamp = old.stamp
       /\ Unreadable(old) => new.latch

\* The latch is one-way, the stamp write-once, and no write drops a latch it
\* cannot read (the three guards of State::write).
RecordSpec == file = Absent /\ [][Keeps(file, file')]_file
=============================================================================
