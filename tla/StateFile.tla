------------------------------ MODULE StateFile ------------------------------
(***************************************************************************)
(* The system calls of `State::write` (headless-migrator/src/              *)
(* state_file.rs): read the prior file, truncate `<path>.json.tmp`, write  *)
(* it, rename it over the path.  The writers are processes of one droplet: *)
(* the open service, restarted whenever it fails, and the `status` and     *)
(* `verify` commands.  Each can be killed between two calls, and every     *)
(* call can fail.                                                          *)
(*                                                                         *)
(* Nothing keeps two writes apart.  The history variable `crossed` tells   *)
(* what the writes under way have met; no action depends on it.            *)
(***************************************************************************)
EXTENDS StateRecord, FiniteSets

CONSTANTS
    OpenRun,      \* the open service
    Commands,     \* the one-shot commands
    MaxDamages    \* how often the disk may lose the file

Writer == {OpenRun} \cup Commands

VARIABLES
    tmp,       \* what `<path>.json.tmp` names
    record,    \* record[w]: the State in w's memory
    pc,        \* pc[w]: the call of `write` w is at
    out,       \* out[w]: the record w is writing
    handle,    \* handle[w]: where the file w has open now is
    crossed,   \* history: whether writes were under way at once, "never", "now"
               \* (one of those under way met another) or "before" them
    damages    \* how often the disk lost the file

vars == <<file, tmp, record, pc, out, handle, crossed, damages>>

ASSUME WriterAssumption ==
    /\ OpenRun \notin Commands
    /\ MaxDamages \in Nat

TypeOK ==
    /\ file \in Content
    /\ tmp \in Content
    /\ record \in [Writer -> Record]
    /\ pc \in [Writer -> {"down", "running", "truncating", "writing", "renaming"}]
    /\ out \in [Writer -> Record]
    /\ handle \in [Writer -> {"none", "tmp", "file", "unlinked"}]
    /\ crossed \in {"never", "now", "before"}
    /\ damages \in 0..MaxDamages

Init ==
    /\ file = Absent
    /\ tmp = Absent
    /\ record = [w \in Writer |-> Fresh]
    /\ pc = [w \in Writer |-> "down"]
    /\ out = [w \in Writer |-> Fresh]
    /\ handle = [w \in Writer |-> "none"]
    /\ crossed = "never"
    /\ damages = 0

-----------------------------------------------------------------------------
Writing(w) == pc[w] \in {"truncating", "writing", "renaming"}

\* A run begins from what is on disk: seed_from_persisted in `open::run_with`
\* and `build_verify_state`, the one read of the prior record in `status::run`.
Start(w) ==
    /\ pc[w] = "down"
    /\ pc' = [pc EXCEPT ![w] = "running"]
    /\ record' = [record EXCEPT ![w] = Seeded(file, Fresh)]
    /\ UNCHANGED <<file, tmp, out, handle, crossed, damages>>

\* A verify passes, in the open service or in a `verify` command.
Raise(w) ==
    /\ pc[w] = "running"
    /\ record' = [record EXCEPT ![w].latch = TRUE]
    /\ UNCHANGED <<file, tmp, pc, out, handle, crossed, damages>>

\* The open service meets its first too-early init.
Stamp(t) ==
    /\ pc[OpenRun] = "running"
    /\ record[OpenRun].stamp = NoStamp
    /\ record' = [record EXCEPT ![OpenRun].stamp = t]
    /\ UNCHANGED <<file, tmp, pc, out, handle, crossed, damages>>

\* A write is over, or its process: what it held in memory is gone.
Leave(w, to) ==
    /\ pc' = [pc EXCEPT ![w] = to]
    /\ out' = [out EXCEPT ![w] = Fresh]
    /\ record' = [record EXCEPT ![w] = IF to = "down" THEN Fresh ELSE @]

\* The end of a write: the service runs on, a command ends.
Return(w) == Leave(w, IF w = OpenRun THEN "running" ELSE "down")

\* A write begins.
Meets == crossed' = IF \E v \in Writer : Writing(v) THEN "now"
                    ELSE IF crossed = "now" THEN "before" ELSE crossed

\* read_prior_record and the guards of `write`.
ReadPrior(w) ==
    /\ pc[w] = "running"
    /\ IF Refused(file, record[w])
       THEN Return(w) /\ UNCHANGED crossed
       ELSE /\ pc' = [pc EXCEPT ![w] = "truncating"]
            /\ out' = [out EXCEPT ![w] = Guarded(file, record[w])]
            /\ Meets
            /\ UNCHANGED record
    /\ UNCHANGED <<file, tmp, handle, damages>>

\* fs::write opens the temporary file, and truncates it when it is there.
Truncate(w) ==
    /\ pc[w] = "truncating"
    /\ tmp' = Empty
    /\ handle' = [handle EXCEPT ![w] = "tmp"]
    /\ pc' = [pc EXCEPT ![w] = "writing"]
    /\ UNCHANGED <<file, record, out, crossed, damages>>

\* Written over what another writer put there, a shorter record leaves the end
\* of the longer one.
Overlaid(old, new) == IF old = Empty THEN {new} ELSE {new, Corrupt}

\* ... and writes it and closes it, wherever a rename has taken it.
Fill(w) ==
    /\ pc[w] = "writing"
    /\ \/ handle[w] = "tmp" /\ tmp' \in Overlaid(tmp, out[w]) /\ UNCHANGED file
       \/ handle[w] = "file" /\ file' \in Overlaid(file, out[w]) /\ UNCHANGED tmp
       \/ handle[w] = "unlinked" /\ UNCHANGED <<file, tmp>>
    /\ handle' = [handle EXCEPT ![w] = "none"]
    /\ pc' = [pc EXCEPT ![w] = "renaming"]
    /\ UNCHANGED <<record, out, crossed, damages>>

Moved(place) ==
    CASE place = "tmp" -> "file" [] place = "file" -> "unlinked" [] OTHER -> place

\* fs::rename, which fails when another writer has renamed the file away.
Rename(w) ==
    /\ pc[w] = "renaming"
    /\ IF tmp = Absent
       THEN UNCHANGED <<file, tmp, handle>>
       ELSE /\ file' = tmp
            /\ tmp' = Absent
            /\ handle' = [v \in Writer |-> Moved(handle[v])]
    /\ Return(w)
    /\ UNCHANGED <<crossed, damages>>

\* Of the record, none or a part reached the file that is open.
Abandon(w) ==
    /\ handle' = [handle EXCEPT ![w] = "none"]
    /\ \/ UNCHANGED <<file, tmp>>
       \/ handle[w] = "tmp" /\ tmp' = Corrupt /\ UNCHANGED file
       \/ handle[w] = "file" /\ file' = Corrupt /\ UNCHANGED tmp

\* Mutant: a temporary file that could not be written is renamed all the same.
FailCareless(w) ==
    /\ Writing(w)
    /\ Abandon(w)
    /\ pc' = [pc EXCEPT ![w] = "renaming"]
    /\ UNCHANGED <<record, out, crossed, damages>>

\* A call fails (no space, no permission): `write` returns the error.
Fail(w) ==
    /\ Writing(w)
    /\ Abandon(w)
    /\ Return(w)
    /\ UNCHANGED <<crossed, damages>>

\* A shutdown, a crash or a reboot, or the end of the run.
Exit(w) ==
    /\ pc[w] # "down"
    /\ Abandon(w)
    /\ Leave(w, "down")
    /\ UNCHANGED <<crossed, damages>>

\* The disk loses the content, between two writes.
Damage ==
    /\ Known(file)
    /\ \A w \in Writer : ~Writing(w)
    /\ damages < MaxDamages
    /\ damages' = damages + 1
    /\ file' = Corrupt
    /\ UNCHANGED <<tmp, record, pc, out, handle, crossed>>

Step(w) == \/ Start(w) \/ Raise(w) \/ ReadPrior(w) \/ Truncate(w) \/ Fill(w)
           \/ Rename(w) \/ Fail(w) \/ Exit(w)

Next == \/ \E w \in Writer : Step(w)
        \/ \E t \in Time : Stamp(t)
        \/ Damage

Spec == Init /\ [][Next]_vars

\* A write that is not killed goes through its calls.
FairSpec == Spec /\ \A w \in Writer : WF_vars(Truncate(w) \/ Fill(w) \/ Rename(w))

-----------------------------------------------------------------------------
(* Correctness. *)

\* "a concurrent reader never sees a half-written file" (state_file.rs): only the
\* disk makes the file unreadable.
FileIsWhole == damages = 0 => ~Unreadable(file)

\* The one-way latch: what one write raised, no later write lowers.
LatchNeverLowered == [][Known(file) /\ file.latch /\ Known(file') => file'.latch]_vars

\* While no two writes have met, the system calls keep what RecordSpec promises.
RecordKept == [][crossed' = "never" => Keeps(file, file')]_file

\* What a write that meets no other does, whatever writes that met did before it:
\* it leaves a whole record, holds up a latch, does not erase a stamp, and replaces
\* what was torn or lost only to raise the latch.
Mends(old, new) ==
    /\ new \in Record
    /\ Known(old) => /\ old.latch => new.latch
                     /\ old.stamp # NoStamp => new.stamp # NoStamp
    /\ Unreadable(old) => new.latch

LoneWritesMend == [][crossed' # "now" /\ damages' = damages => Mends(file, file')]_file
=============================================================================
