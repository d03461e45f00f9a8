--------------------------- MODULE StateFile_proofs ---------------------------
(***************************************************************************)
(* What the system calls of State::write do to the file, whichever of them *)
(* fails and wherever a writer is killed: writes that have not met make it *)
(* what StateRecord promises, and a write that meets no other mends what   *)
(* those before it left.  The argument: the file a writer has read is the  *)
(* file it replaces, and what it renames over it is the whole of what it   *)
(* wrote, as long as nobody else is between the two calls.                 *)
(***************************************************************************)
EXTENDS StateFile, TLAPS

\* One write at a time, unless some met.
OneWriter ==
    crossed # "now" => \A v, w \in Writer : Writing(v) /\ Writing(w) => v = w

\* A write that meets no other has the temporary file for itself, and it is whole
\* when it is renamed.
TmpIsMine ==
    \A w \in Writer :
        /\ handle[w] # "none" => pc[w] = "writing"
        /\ crossed # "now" => /\ pc[w] = "writing" => handle[w] = "tmp" /\ tmp = Empty
                              /\ pc[w] = "renaming" => tmp = out[w]

\* What it is writing mends the file that is there.
OutMends ==
    crossed # "now" => \A w \in Writer : Writing(w) => Mends(file, out[w])

\* ... and while no two writes have met it may replace that file.  A stamp comes
\* from the open service alone: a command's is the file's.
OutIsGuarded ==
    crossed = "never" =>
        \A w \in Writer :
            Writing(w) =>
                /\ Keeps(file, out[w])
                /\ ~out[w].latch /\ out[w].stamp # NoStamp =>
                      \/ w = OpenRun /\ out[w].stamp = record[w].stamp
                      \/ Known(file) /\ file.stamp = out[w].stamp

\* The stamps of the runs and of the file are the same, while they matter.
Stamped(f) == Known(f) /\ ~f.latch /\ f.stamp # NoStamp

OpenStamp ==
    crossed = "never" /\ pc[OpenRun] # "down" /\ Stamped(file) =>
        record[OpenRun].stamp = file.stamp

CommandStamp ==
    crossed = "never" =>
        \A w \in Commands :
            pc[w] # "down" /\ record[w].stamp # NoStamp =>
                \/ Unreadable(file)
                \/ Known(file) /\ (file.latch \/ file.stamp = record[w].stamp)

WholeApart == crossed = "never" => FileIsWhole

IInv == /\ TypeOK /\ OneWriter /\ TmpIsMine /\ OutMends /\ OutIsGuarded
        /\ OpenStamp /\ CommandStamp /\ WholeApart

\* What every step keeps.
StepKeeps == crossed' = "never" => [Keeps(file, file')]_file
StepMends == crossed' # "now" /\ damages' = damages => [Mends(file, file')]_file
Kept == IInv' /\ StepKeeps /\ StepMends

-----------------------------------------------------------------------------
(* The rules of the file. *)

LEMMA SeededFacts ==
    ASSUME NEW prior \in Content, NEW rec \in Record
    PROVE  Seeded(prior, rec) \in Record
  BY RecordAssumption DEF Seeded, Record, Content, Known

LEMMA FreshFacts == Fresh \in Record
  BY DEF Fresh, Record

LEMMA SeededStamp ==
    ASSUME NEW prior \in Content
    PROVE  Seeded(prior, Fresh).stamp = IF Known(prior) THEN prior.stamp ELSE NoStamp
  <1>1. Fresh.stamp = NoStamp /\ Fresh \in Record
    BY DEF Fresh, Record
  <1> QED
    BY <1>1 DEF Seeded, Record, Known, Content

LEMMA GuardedFacts ==
    ASSUME NEW prior \in Content, NEW rec \in Record, ~Refused(prior, rec),
           Stamped(prior) => rec.stamp \in {NoStamp, prior.stamp}
    PROVE  /\ Guarded(prior, rec) \in Record
           /\ Keeps(prior, Guarded(prior, rec))
           /\ Guarded(prior, rec).stamp =
                 IF Known(prior) /\ rec.stamp = NoStamp THEN prior.stamp ELSE rec.stamp
           /\ Known(prior) /\ prior.latch => Guarded(prior, rec).latch
           /\ Unreadable(prior) => Guarded(prior, rec).latch
  <1>1. CASE Known(prior)
    <2>1. prior \in Record /\ ~Unreadable(prior)
      BY <1>1 DEF Known, Content, Unreadable
    <2>2. Guarded(prior, rec) =
             [latch |-> rec.latch \/ prior.latch,
              stamp |-> IF rec.stamp = NoStamp THEN prior.stamp ELSE rec.stamp,
              opened |-> rec.opened]
      BY <1>1, <2>1 DEF Guarded, Record
    <2> QED
      BY <1>1, <2>1, <2>2 DEF Keeps, Record, Stamped
  <1>2. CASE ~Known(prior)
    BY <1>2 DEF Guarded, Keeps, Refused
  <1> QED
    BY <1>1, <1>2

LEMMA GuardedMends ==
    ASSUME NEW prior \in Content, NEW rec \in Record, ~Refused(prior, rec)
    PROVE  Guarded(prior, rec) \in Record /\ Mends(prior, Guarded(prior, rec))
  <1>1. CASE Known(prior)
    <2>1. prior \in Record /\ ~Unreadable(prior)
      BY <1>1 DEF Known, Content, Unreadable
    <2>2. Guarded(prior, rec) =
             [latch |-> rec.latch \/ prior.latch,
              stamp |-> IF rec.stamp = NoStamp THEN prior.stamp ELSE rec.stamp,
              opened |-> rec.opened]
      BY <1>1, <2>1 DEF Guarded, Record
    <2> QED
      BY <1>1, <2>1, <2>2 DEF Mends, Record
  <1>2. CASE ~Known(prior)
    BY <1>2 DEF Guarded, Mends, Refused
  <1> QED
    BY <1>1, <1>2

LEMMA RecordIsKnown ==
    ASSUME NEW r \in Record
    PROVE  Known(r) /\ ~Unreadable(r) /\ r \in Content
  BY RecordAssumption DEF Known, Unreadable, Content

-----------------------------------------------------------------------------
(* The steps that leave the file alone. *)

\* A step that moves one writer's place, without a write begun or a run.
LEMMA PlaceStep ==
    ASSUME IInv, NEW w \in Writer, UNCHANGED <<file, crossed, damages>>, TypeOK', TmpIsMine',
           \A v \in Writer :
               v # w => pc'[v] = pc[v] /\ record'[v] = record[v] /\ out'[v] = out[v],
           Writing(w)' => Writing(w) /\ out'[w] = out[w],
           pc'[w] # "down" => pc[w] # "down" /\ record'[w] = record[w]
    PROVE  Kept
  <1>1. \A v \in Writer : Writing(v)' => Writing(v) /\ out'[v] = out[v]
    BY DEF Writing
  <1>2. \A v \in Writer : pc'[v] # "down" => pc[v] # "down" /\ record'[v] = record[v]
    OBVIOUS
  <1>3. \A v \in Writer : Writing(v)' => pc'[v] # "down"
    BY DEF Writing
  <1>4. OneWriter' /\ OutMends'
    BY <1>1 DEF IInv, OneWriter, OutMends
  <1>5. OutIsGuarded'
    BY <1>1, <1>2, <1>3 DEF IInv, OutIsGuarded
  <1>6. OpenStamp' /\ CommandStamp' /\ WholeApart'
    BY <1>2 DEF IInv, OpenStamp, CommandStamp, WholeApart, FileIsWhole, Writer
  <1> QED
    BY <1>4, <1>5, <1>6 DEF IInv, Kept, StepKeeps, StepMends

\* A write that is over, or whose process is: nothing it held matters.
LEMMA LeaveStep ==
    ASSUME IInv, NEW w \in Writer, NEW to \in {"running", "down"}, Leave(w, to),
           UNCHANGED <<file, crossed, damages>>, pc[w] # "down",
           tmp' = tmp \/ (tmp' = Corrupt /\ Writing(w)),
           handle' = [handle EXCEPT ![w] = "none"] \/ (handle' = handle /\ ~Writing(w))
    PROVE  Kept
  <1>1. Fresh \in Record
    BY FreshFacts
  <1>2. TypeOK'
    BY <1>1 DEF IInv, TypeOK, Leave, Content
  <1>3. /\ \A v \in Writer :
               v # w => pc'[v] = pc[v] /\ record'[v] = record[v] /\ out'[v] = out[v]
        /\ pc'[w] = to /\ ~Writing(w)'
        /\ to # "down" => record'[w] = record[w]
    BY DEF IInv, TypeOK, Leave, Writing
  <1>4. handle'[w] = "none" /\ \A v \in Writer : v # w => handle'[v] = handle[v]
    BY DEF IInv, TypeOK, TmpIsMine, Writing
  <1>5. crossed # "now" /\ tmp' # tmp => \A v \in Writer : v # w => ~Writing(v)
    BY DEF IInv, OneWriter
  <1>6. TmpIsMine'
    BY <1>3, <1>4, <1>5 DEF IInv, TmpIsMine, Writing
  <1> QED
    BY <1>2, <1>3, <1>6, PlaceStep

LEMMA StartKeeps ==
    ASSUME IInv, NEW w \in Writer, Start(w)
    PROVE  Kept
  <1>1. Seeded(file, Fresh) \in Record
    BY SeededFacts, FreshFacts DEF IInv, TypeOK
  <1>2. TypeOK'
    BY <1>1 DEF IInv, TypeOK, Start
  <1>3. \A v \in Writer : /\ Writing(v)' = Writing(v)
                          /\ pc'[v] = IF v = w THEN "running" ELSE pc[v]
                          /\ record'[v] = IF v = w THEN Seeded(file, Fresh) ELSE record[v]
    BY DEF IInv, TypeOK, Start, Writing
  <1>4. ~Writing(w) /\ UNCHANGED <<file, tmp, out, handle, crossed, damages>> /\ pc[w] = "down"
    BY DEF Start, Writing
  <1>5. OneWriter' /\ WholeApart' /\ OutMends'
    BY <1>3, <1>4 DEF IInv, OneWriter, WholeApart, FileIsWhole, OutMends
  <1>6. TmpIsMine'
    BY <1>3, <1>4 DEF IInv, TmpIsMine
  <1>7. OutIsGuarded'
    BY <1>3, <1>4 DEF IInv, OutIsGuarded
  <1>8. Seeded(file, Fresh).stamp = IF Known(file) THEN file.stamp ELSE NoStamp
    BY SeededStamp DEF IInv, TypeOK
  <1>9. OpenStamp'
    BY <1>3, <1>4, <1>8 DEF IInv, OpenStamp, Stamped, Writer
  <1>10. CommandStamp'
    BY <1>3, <1>4, <1>8 DEF IInv, CommandStamp, Writer
  <1> QED
    BY <1>2, <1>4, <1>5, <1>6, <1>7, <1>9, <1>10 DEF IInv, Kept, StepKeeps, StepMends

\* A running writer changes its record, not the stamp a file bears.
LEMMA MemoryStep ==
    ASSUME IInv, NEW w \in Writer, NEW rec \in Record, pc[w] = "running",
           record' = [record EXCEPT ![w] = rec],
           UNCHANGED <<file, tmp, pc, out, handle, crossed, damages>>,
           rec.stamp # record[w].stamp =>
               w = OpenRun /\ (crossed = "never" => ~Stamped(file))
    PROVE  Kept
  <1>1. TypeOK'
    BY DEF IInv, TypeOK
  <1>2. \A v \in Writer : record'[v] = IF v = w THEN rec ELSE record[v]
    BY DEF IInv, TypeOK
  <1>3. ~Writing(w)
    BY DEF Writing
  <1>4. OneWriter' /\ WholeApart' /\ TmpIsMine' /\ OutMends'
    BY DEF IInv, OneWriter, WholeApart, FileIsWhole, TmpIsMine, OutMends, Writing
  <1>5. OutIsGuarded'
    BY <1>2, <1>3 DEF IInv, OutIsGuarded, Writing
  <1>6. OpenStamp'
    BY <1>2 DEF IInv, OpenStamp, Writer, Stamped
  <1>7. CommandStamp'
    BY <1>2, WriterAssumption DEF IInv, CommandStamp, Writer
  <1> QED
    BY <1>1, <1>4, <1>5, <1>6, <1>7 DEF IInv, Kept, StepKeeps, StepMends

LEMMA RaiseKeeps ==
    ASSUME IInv, NEW w \in Writer, Raise(w)
    PROVE  Kept
  <1> DEFINE rec == [record[w] EXCEPT !.latch = TRUE]
  <1>1. rec \in Record /\ rec.stamp = record[w].stamp
    BY DEF IInv, TypeOK, Record
  <1>2. record' = [record EXCEPT ![w] = rec]
    BY DEF Raise
  <1> HIDE DEF rec
  <1> QED
    BY <1>1, <1>2, MemoryStep DEF Raise

LEMMA StampKeeps ==
    ASSUME IInv, NEW t \in Time, Stamp(t)
    PROVE  Kept
  <1> DEFINE rec == [record[OpenRun] EXCEPT !.stamp = t]
  <1>1. OpenRun \in Writer
    BY DEF Writer
  <1>2. rec \in Record
    BY <1>1 DEF IInv, TypeOK, Record
  <1>3. record' = [record EXCEPT ![OpenRun] = rec]
    BY DEF Stamp
  <1>4. crossed = "never" => ~Stamped(file)
    BY DEF IInv, OpenStamp, Stamp, Stamped
  <1> HIDE DEF rec
  <1> QED
    BY <1>1, <1>2, <1>3, <1>4, MemoryStep DEF Stamp

LEMMA TruncateKeeps ==
    ASSUME IInv, NEW w \in Writer, Truncate(w)
    PROVE  Kept
  <1>1. TypeOK'
    BY DEF IInv, TypeOK, Truncate, Content
  <1>2. /\ \A v \in Writer : v # w => pc'[v] = pc[v] /\ handle'[v] = handle[v]
        /\ pc'[w] = "writing" /\ handle'[w] = "tmp" /\ Writing(w) /\ tmp' = Empty
    BY DEF IInv, TypeOK, Truncate, Writing
  <1>3. crossed # "now" => \A v \in Writer : v # w => ~Writing(v)
    BY <1>2 DEF IInv, OneWriter
  <1>4. TmpIsMine'
    BY <1>2, <1>3 DEF IInv, TmpIsMine, Truncate, Writing
  <1> QED
    BY <1>1, <1>2, <1>4, PlaceStep DEF Truncate, Writing

-----------------------------------------------------------------------------
(* The steps of a write. *)

\* A write that begins.
LEMMA BeginStep ==
    ASSUME IInv, NEW w \in Writer, pc[w] = "running", ~Refused(file, record[w]),
           UNCHANGED <<file, tmp, record, handle, damages>>,
           pc' = [pc EXCEPT ![w] = "truncating"],
           out' = [out EXCEPT ![w] = Guarded(file, record[w])],
           Meets
    PROVE  Kept
  <1> DEFINE o == Guarded(file, record[w])
  <1>1. file \in Content /\ record[w] \in Record
    BY DEF IInv, TypeOK
  <1>2. o \in Record /\ Mends(file, o)
    BY <1>1, GuardedMends
  <1> HIDE DEF o
  <1>3. TypeOK'
    <2>1. crossed' \in {"never", "now", "before"}
      BY DEF IInv, TypeOK, Meets
    <2> QED
      BY <1>2, <2>1 DEF IInv, TypeOK, o
  <1>4. \A v \in Writer : /\ pc'[v] = IF v = w THEN "truncating" ELSE pc[v]
                          /\ out'[v] = IF v = w THEN o ELSE out[v]
                          /\ Writing(v)' = (v = w \/ Writing(v))
    BY DEF IInv, TypeOK, Writing, o
  <1>5. WholeApart'
    BY DEF IInv, WholeApart, FileIsWhole, Meets
  <1>6. handle[w] = "none"
    BY DEF IInv, TmpIsMine
  <1>7. CASE \E v \in Writer : Writing(v)
    <2>1. crossed' = "now"
      BY <1>7 DEF Meets
    <2>2. TmpIsMine'
      BY <1>4, <1>6, <2>1 DEF IInv, TmpIsMine
    <2> QED
      BY <1>3, <1>5, <2>1, <2>2 DEF IInv, OneWriter, OutMends, OutIsGuarded, OpenStamp,
         CommandStamp, Kept, StepKeeps, StepMends
  <1>8. CASE \A v \in Writer : ~Writing(v)
    <2>1. crossed' = "never" => crossed = "never"
      BY <1>8 DEF Meets
    <2>2. OneWriter' /\ OutMends'
      BY <1>2, <1>4, <1>8 DEF OneWriter, OutMends
    <2>3. TmpIsMine'
      BY <1>4, <1>6, <1>8 DEF IInv, TmpIsMine, Writing
    <2>4. OutIsGuarded' /\ OpenStamp' /\ CommandStamp'
      <3> SUFFICES ASSUME crossed = "never"
                   PROVE  OutIsGuarded' /\ OpenStamp' /\ CommandStamp'
        BY <2>1 DEF OutIsGuarded, OpenStamp, CommandStamp
      <3>1. Stamped(file) => record[w].stamp \in {NoStamp, file.stamp}
        <4>1. CASE w = OpenRun
          BY <4>1 DEF IInv, OpenStamp
        <4>2. CASE w \in Commands
          BY <4>2 DEF IInv, CommandStamp, Stamped, Known, Unreadable
        <4> QED
          BY <4>1, <4>2 DEF Writer
      <3>2. /\ Keeps(file, o)
            /\ o.stamp = IF Known(file) /\ record[w].stamp = NoStamp THEN file.stamp
                                                                     ELSE record[w].stamp
            /\ Known(file) /\ file.latch => o.latch
            /\ Unreadable(file) => o.latch
        BY <1>1, <3>1, GuardedFacts DEF o
      <3>3. ~o.latch /\ o.stamp # NoStamp =>
               \/ w = OpenRun /\ o.stamp = record[w].stamp
               \/ Known(file) /\ file.stamp = o.stamp
        BY <3>2 DEF IInv, CommandStamp, Writer, Stamped
      <3>4. OutIsGuarded'
        BY <1>4, <1>8, <3>2, <3>3 DEF OutIsGuarded
      <3>5. OpenStamp' /\ CommandStamp'
        BY <1>4 DEF IInv, OpenStamp, CommandStamp, Writer
      <3> QED
        BY <3>4, <3>5
    <2> QED
      BY <1>3, <1>5, <2>2, <2>3, <2>4 DEF IInv, Kept, StepKeeps, StepMends
  <1> QED
    BY <1>7, <1>8

LEMMA ReadPriorKeeps ==
    ASSUME IInv, NEW w \in Writer, ReadPrior(w)
    PROVE  Kept
  <1>1. CASE Refused(file, record[w])
    <2>1. PICK to \in {"running", "down"} : Leave(w, to)
      BY <1>1 DEF ReadPrior, Return
    <2> QED
      BY <1>1, <2>1, LeaveStep DEF ReadPrior, Writing
  <1>2. CASE ~Refused(file, record[w])
    BY <1>2, BeginStep DEF ReadPrior
  <1> QED
    BY <1>1, <1>2

\* A step of writes that have met is only bound to the types.
LEMMA MetStep ==
    ASSUME TypeOK', crossed' = "now",
           \A v \in Writer : handle'[v] # "none" => pc'[v] = "writing"
    PROVE  Kept
  BY DEF IInv, OneWriter, TmpIsMine, OutMends, OutIsGuarded, OpenStamp, CommandStamp,
     WholeApart, Kept, StepKeeps, StepMends

LEMMA AbandonStep ==
    ASSUME IInv, NEW w \in Writer, NEW to \in {"running", "down"}, Abandon(w), Leave(w, to),
           UNCHANGED <<crossed, damages>>, pc[w] # "down"
    PROVE  Kept
  <1>1. CASE crossed = "now"
    <2>1. TypeOK'
      BY FreshFacts DEF IInv, TypeOK, Abandon, Leave, Content
    <2>2. \A v \in Writer : handle'[v] # "none" => v # w /\ handle[v] # "none"
      BY DEF IInv, TypeOK, Abandon
    <2>3. \A v \in Writer : v # w => pc'[v] = pc[v]
      BY DEF IInv, TypeOK, Leave
    <2>4. \A v \in Writer : handle'[v] # "none" => pc'[v] = "writing"
      BY <2>2, <2>3 DEF IInv, TmpIsMine
    <2> QED
      BY <1>1, <2>1, <2>4, MetStep
  <1>2. CASE crossed # "now"
    <2>1. handle[w] # "none" => Writing(w) /\ handle[w] = "tmp"
      BY <1>2 DEF IInv, TmpIsMine, Writing
    <2>2. UNCHANGED file /\ (tmp' = tmp \/ (tmp' = Corrupt /\ Writing(w)))
      BY <2>1 DEF Abandon
    <2> QED
      BY <2>2, LeaveStep DEF Abandon
  <1> QED
    BY <1>1, <1>2

LEMMA FailKeeps ==
    ASSUME IInv, NEW w \in Writer, Fail(w)
    PROVE  Kept
  <1>1. PICK to \in {"running", "down"} : Leave(w, to)
    BY DEF Fail, Return
  <1> QED
    BY <1>1, AbandonStep DEF Fail, Writing

LEMMA ExitKeeps ==
    ASSUME IInv, NEW w \in Writer, Exit(w)
    PROVE  Kept
  BY AbandonStep DEF Exit

LEMMA FillKeeps ==
    ASSUME IInv, NEW w \in Writer, Fill(w)
    PROVE  Kept
  <1>1. Writing(w) /\ out[w] \in Record /\ UNCHANGED <<record, out, crossed, damages>>
    BY DEF IInv, TypeOK, Fill, Writing
  <1>2. TypeOK'
    <2>1. \A c : Overlaid(c, out[w]) \subseteq Content
      BY <1>1 DEF Overlaid, Content
    <2>2. file' \in Content /\ tmp' \in Content
      BY <2>1 DEF IInv, TypeOK, Fill
    <2> QED
      BY <1>1, <2>2 DEF IInv, TypeOK, Fill
  <1>3. /\ \A v \in Writer : v # w => pc'[v] = pc[v] /\ handle'[v] = handle[v]
        /\ pc'[w] = "renaming" /\ handle'[w] = "none"
    BY DEF IInv, TypeOK, Fill
  <1>4. CASE crossed = "now"
    <2>1. \A v \in Writer : handle'[v] # "none" => pc'[v] = "writing"
      BY <1>3 DEF IInv, TmpIsMine
    <2> QED
      BY <1>1, <1>2, <1>4, <2>1, MetStep
  <1>5. CASE crossed # "now"
    <2>1. handle[w] = "tmp" /\ tmp = Empty
      BY <1>5 DEF IInv, TmpIsMine, Fill
    <2>2. UNCHANGED file /\ tmp' = out[w]
      BY <2>1 DEF Fill, Overlaid
    <2>3. \A v \in Writer : v # w => ~Writing(v)
      BY <1>1, <1>5 DEF IInv, OneWriter
    <2>4. TmpIsMine'
      BY <1>1, <1>3, <2>2, <2>3 DEF IInv, TmpIsMine, Writing
    <2> QED
      BY <1>1, <1>2, <1>3, <2>2, <2>4, PlaceStep DEF Writing
  <1> QED
    BY <1>4, <1>5

LEMMA RenameKeeps ==
    ASSUME IInv, NEW w \in Writer, Rename(w)
    PROVE  Kept
  <1>1. Writing(w) /\ out[w] \in Record /\ UNCHANGED <<crossed, damages>>
    BY DEF IInv, TypeOK, Rename, Writing
  <1>2. /\ \A v \in Writer :
               v # w => pc'[v] = pc[v] /\ record'[v] = record[v] /\ out'[v] = out[v]
        /\ pc'[w] \in {"running", "down"} /\ pc[w] # "down"
        /\ pc'[w] # "down" => record'[w] = record[w]
    BY DEF IInv, TypeOK, Return, Leave, Rename
  <1>3. \A v \in Writer : handle'[v] # "none" => pc'[v] = "writing" /\ handle[v] # "none"
    <2>1. handle[w] = "none"
      BY DEF IInv, TmpIsMine, Rename
    <2>2. \A v \in Writer : handle'[v] # "none" => handle[v] # "none"
      BY DEF Rename, Moved
    <2> QED
      BY <1>2, <2>1, <2>2 DEF IInv, TmpIsMine
  <1>4. TypeOK'
    <2>1. handle' \in [Writer -> {"none", "tmp", "file", "unlinked"}]
      <3>1. CASE tmp = Absent
        BY <3>1 DEF IInv, TypeOK, Rename
      <3>2. CASE tmp # Absent
        <4>1. \A v \in Writer : Moved(handle[v]) \in {"none", "tmp", "file", "unlinked"}
          BY DEF IInv, TypeOK, Moved
        <4> QED
          BY <3>2, <4>1 DEF Rename
      <3> QED
        BY <3>1, <3>2
    <2>2. pc' \in [Writer -> {"down", "running", "truncating", "writing", "renaming"}]
      BY DEF IInv, TypeOK, Rename, Return, Leave
    <2>3. record' \in [Writer -> Record] /\ out' \in [Writer -> Record]
      BY FreshFacts DEF IInv, TypeOK, Rename, Return, Leave
    <2>4. file' \in Content /\ tmp' \in Content
      BY DEF IInv, TypeOK, Rename, Content
    <2> QED
      BY <1>1, <2>1, <2>2, <2>3, <2>4 DEF IInv, TypeOK
  <1>5. CASE crossed = "now"
    BY <1>1, <1>3, <1>4, <1>5, MetStep
  <1>6. CASE crossed # "now"
    <2>1. tmp = out[w] /\ \A v \in Writer : v # w => ~Writing(v)
      BY <1>1, <1>6 DEF IInv, TmpIsMine, OneWriter, Rename
    <2>2. Known(out[w]) /\ ~Unreadable(out[w]) /\ tmp # Absent /\ out[w] # Corrupt
      BY <1>1, <2>1, RecordIsKnown DEF Known
    <2>3. file' = out[w]
      BY <2>1, <2>2 DEF Rename
    <2>4. \A v \in Writer : ~Writing(v)'
      BY <1>2, <2>1 DEF Writing
    <2>5. OneWriter' /\ OutMends' /\ OutIsGuarded'
      BY <2>4 DEF OneWriter, OutMends, OutIsGuarded
    <2>6. TmpIsMine'
      BY <1>3, <2>4 DEF TmpIsMine, Writing
    <2>7. WholeApart'
      BY <2>2, <2>3 DEF WholeApart, FileIsWhole
    <2>8. StepMends
      BY <1>1, <1>6, <2>3 DEF IInv, OutMends, StepMends
    <2>9. OpenStamp' /\ CommandStamp' /\ StepKeeps
      <3> SUFFICES ASSUME crossed = "never"
                   PROVE  OpenStamp' /\ CommandStamp' /\ StepKeeps
        BY <1>1 DEF OpenStamp, CommandStamp, StepKeeps
      <3>1. /\ Keeps(file, out[w])
            /\ ~out[w].latch /\ out[w].stamp # NoStamp =>
                  \/ w = OpenRun /\ out[w].stamp = record[w].stamp
                  \/ Known(file) /\ file.stamp = out[w].stamp
        BY <1>1 DEF IInv, OutIsGuarded
      <3>2. ~out[w].latch =>
               /\ ~Unreadable(file)
               /\ Known(file) => ~file.latch
               /\ Known(file) /\ file.stamp # NoStamp => out[w].stamp = file.stamp
        BY <2>2, <3>1 DEF Keeps
      <3>3. OpenStamp'
        <4> SUFFICES ASSUME pc'[OpenRun] # "down", ~out[w].latch, out[w].stamp # NoStamp
                     PROVE  record'[OpenRun].stamp = out[w].stamp
          BY <2>3 DEF OpenStamp, Stamped
        <4>1. pc[OpenRun] # "down" /\ record'[OpenRun] = record[OpenRun]
          BY <1>2 DEF Writer
        <4>2. CASE Known(file) /\ file.stamp = out[w].stamp
          BY <3>2, <4>1, <4>2 DEF IInv, OpenStamp, Stamped
        <4> QED
          BY <3>1, <4>1, <4>2
      <3>4. CommandStamp'
        <4> SUFFICES ASSUME NEW v \in Commands, pc'[v] # "down", record'[v].stamp # NoStamp,
                            ~out[w].latch
                     PROVE  out[w].stamp = record'[v].stamp
          BY <2>2, <2>3 DEF CommandStamp
        <4>1. pc[v] # "down" /\ record'[v] = record[v]
          BY <1>2 DEF Writer
        <4> QED
          BY <3>2, <4>1 DEF IInv, CommandStamp
      <3> QED
        BY <2>3, <3>1, <3>3, <3>4 DEF StepKeeps
    <2> QED
      BY <1>4, <2>5, <2>6, <2>7, <2>8, <2>9 DEF IInv, Kept
  <1> QED
    BY <1>5, <1>6

LEMMA DamageKeeps ==
    ASSUME IInv, Damage
    PROVE  Kept
  <1>1. damages' \in 0..MaxDamages /\ damages' # 0 /\ damages' # damages
    BY WriterAssumption DEF IInv, TypeOK, Damage
  <1>2. /\ UNCHANGED <<tmp, record, pc, out, handle, crossed>> /\ file' = Corrupt
        /\ \A v \in Writer : ~Writing(v)
    BY DEF Damage
  <1>3. Corrupt \in Content /\ ~Known(Corrupt) /\ Unreadable(Corrupt)
    BY DEF Content, Known, Unreadable
  <1>4. TypeOK'
    BY <1>1, <1>2, <1>3 DEF IInv, TypeOK
  <1>5. \A v \in Writer : ~Writing(v)'
    BY <1>2 DEF Writing
  <1>6. OneWriter' /\ OutIsGuarded' /\ OutMends'
    BY <1>5 DEF OneWriter, OutIsGuarded, OutMends
  <1>7. TmpIsMine' /\ WholeApart'
    BY <1>1, <1>2 DEF IInv, TmpIsMine, WholeApart, FileIsWhole
  <1>8. OpenStamp' /\ CommandStamp'
    BY <1>2, <1>3 DEF OpenStamp, CommandStamp, Stamped
  <1>9. StepKeeps /\ StepMends
    BY <1>1, <1>2 DEF Keeps, StepKeeps, StepMends
  <1> QED
    BY <1>4, <1>6, <1>7, <1>8, <1>9 DEF IInv, Kept

-----------------------------------------------------------------------------
(* The theorems. *)

LEMMA InitHolds ==
    ASSUME Init
    PROVE  IInv
  <1>1. Fresh \in Record /\ 0 \in 0..MaxDamages
    BY FreshFacts, WriterAssumption
  <1>2. TypeOK
    BY <1>1 DEF Init, TypeOK, Content
  <1>3. \A w \in Writer : pc[w] = "down" /\ handle[w] = "none" /\ ~Writing(w)
    BY DEF Init, Writing
  <1>4. OneWriter /\ TmpIsMine /\ OutIsGuarded /\ OutMends
    BY <1>3 DEF OneWriter, TmpIsMine, OutIsGuarded, OutMends
  <1>5. ~Unreadable(Absent)
    BY RecordAssumption DEF Unreadable
  <1>6. OpenStamp /\ CommandStamp /\ WholeApart
    BY <1>3, <1>5 DEF Init, OpenStamp, CommandStamp, WholeApart, FileIsWhole, Writer
  <1> QED
    BY <1>2, <1>4, <1>6 DEF IInv

LEMMA NextKeeps ==
    ASSUME IInv, [Next]_vars
    PROVE  Kept
  <1>1. ASSUME NEW w \in Writer, Step(w)
        PROVE  Kept
    BY <1>1, StartKeeps, RaiseKeeps, ReadPriorKeeps, TruncateKeeps, FillKeeps, RenameKeeps,
       FailKeeps, ExitKeeps DEF Step
  <1>2. ASSUME NEW t \in Time, Stamp(t)
        PROVE  Kept
    BY <1>2, StampKeeps
  <1>3. CASE UNCHANGED vars
    BY <1>3 DEF vars, Kept, StepKeeps, StepMends, IInv, TypeOK, OneWriter, TmpIsMine, OutMends,
       OutIsGuarded, OpenStamp, CommandStamp, WholeApart, FileIsWhole, Writing
  <1> QED
    BY <1>1, <1>2, <1>3, DamageKeeps DEF Next

\* The invariant, whatever the writes do to each other.
THEOREM Invariance == Spec => []IInv
  <1>1. IInv /\ [Next]_vars => IInv'
    BY NextKeeps DEF Kept
  <1> QED
    BY <1>1, InitHolds, PTL DEF Spec

\* Until two writes meet, no reader sees a half-written file (the temporary file
\* and rename of State::write).
THEOREM WholeTheorem == Spec => [](crossed = "never" => FileIsWhole)
  <1>1. IInv => (crossed = "never" => FileIsWhole)
    BY DEF IInv, WholeApart
  <1> QED
    BY <1>1, Invariance, PTL

\* Until two writes meet, the system calls of State::write keep the file's promise:
\* the latch is one-way, the stamp written once, and an unreadable latch is not
\* dropped.
THEOREM RecordTheorem == Spec => RecordKept
  <1>1. IInv /\ [Next]_vars => [crossed' = "never" => Keeps(file, file')]_file
    BY NextKeeps DEF Kept, StepKeeps
  <1> QED
    BY <1>1, Invariance, PTL DEF Spec, RecordKept

\* A write that meets no other leaves a whole record with the latch held up, also
\* over a file that writes before it tore or the disk lost.
THEOREM MendTheorem == Spec => LoneWritesMend
  <1>1. IInv /\ [Next]_vars =>
            [crossed' # "now" /\ damages' = damages => Mends(file, file')]_file
    BY NextKeeps DEF Kept, StepMends
  <1> QED
    BY <1>1, Invariance, PTL DEF Spec, LoneWritesMend
=============================================================================
