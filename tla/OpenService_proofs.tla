------------------------- MODULE OpenService_proofs -------------------------
(***************************************************************************)
(* The open service, the commands beside it and the operator, for every    *)
(* environment, budget, number of faults and losses of the file: the latch *)
(* is true wherever it is held, so the old server is destroyed only after  *)
(* a verified open; and the file keeps what it promises.                   *)
(*                                                                         *)
(* Every action of the service is a ServiceStep, which says what the step  *)
(* does to the record and what the record it writes may say; the invariant *)
(* is shown of ServiceStep once.                                           *)
(***************************************************************************)
EXTENDS OpenService, TLAPS

-----------------------------------------------------------------------------
(* The rules of the file. *)

LEMMA GuardedFacts ==
    ASSUME NEW f \in Content, NEW r \in Record
    PROVE  /\ Guarded(f, r) \in Record
           /\ Guarded(f, r).latch = (r.latch \/ (Known(f) /\ f.latch))
           /\ Guarded(f, r).stamp =
                IF Known(f) /\ r.stamp = NoStamp THEN f.stamp ELSE r.stamp
           /\ Guarded(f, r).opened = r.opened
  <1>1. CASE Known(f)
    <2>1. f \in Record
      BY <1>1 DEF Known, Content
    <2> QED
      BY <1>1, <2>1 DEF Guarded, Record
  <1>2. CASE ~Known(f)
    BY <1>2 DEF Guarded, Record
  <1> QED
    BY <1>1, <1>2

LEMMA SeededFacts ==
    ASSUME NEW f \in Content
    PROVE  /\ Fresh \in Record
           /\ Seeded(f, Fresh) \in Record
           /\ Seeded(f, Fresh).latch = (Known(f) /\ f.latch)
           /\ Seeded(f, Fresh).stamp = IF Known(f) THEN f.stamp ELSE NoStamp
  <1>1. Fresh \in Record
    BY DEF Fresh, Record
  <1>2. CASE Known(f)
    <2>1. f \in Record
      BY <1>2 DEF Known, Content
    <2> QED
      BY <1>1, <1>2, <2>1 DEF Seeded, Record, Fresh
  <1>3. CASE ~Known(f)
    BY <1>1, <1>3 DEF Seeded, Record, Fresh
  <1> QED
    BY <1>2, <1>3

LEMMA RecordIsKnown ==
    ASSUME NEW r \in Record
    PROVE  Known(r) /\ ~Unreadable(r) /\ r \in Content
  BY RecordAssumption DEF Known, Unreadable, Content

\* A write of a record that knows the stamp of the file.
LEMMA WriteKeeps ==
    ASSUME NEW r \in Record, file \in Content, Write(r),
           (Known(file) /\ ~file.latch /\ file.stamp # NoStamp)
              => r.stamp \in {NoStamp, file.stamp}
    PROVE  /\ Keeps(file, file')
           /\ file' \in Record
           /\ Known(file')
           /\ file'.latch = (r.latch \/ Latched)
           /\ file'.stamp = IF Known(file) /\ r.stamp = NoStamp THEN file.stamp ELSE r.stamp
  <1>1. file' = Guarded(file, r) /\ ~Refused(file, r)
    BY DEF Write
  <1>2. /\ file' \in Record
        /\ file'.latch = (r.latch \/ Latched)
        /\ file'.stamp = IF Known(file) /\ r.stamp = NoStamp THEN file.stamp ELSE r.stamp
    BY <1>1, GuardedFacts DEF Latched
  <1>3. Known(file')
    BY <1>2, RecordIsKnown
  <1>4. Unreadable(file) => file'.latch
    BY <1>1, <1>2 DEF Refused
  <1>5. Known(file) => /\ file.latch => file'.latch
                       /\ ~file.latch /\ file.stamp # NoStamp => file'.stamp = file.stamp
    BY <1>2 DEF Latched
  <1> QED
    BY <1>2, <1>3, <1>4, <1>5 DEF Keeps

-----------------------------------------------------------------------------
(* The invariant. *)

Running == pc \notin {"down", "failed"}

\* Wherever the latch is up, the chain is open and verified.
LatchIsTrue ==
    (Latched \/ record.latch \/ (report # Absent /\ report.latch)) => opened /\ verified

\* The stamp of the file, until the latch goes up, is the one every record in
\* memory holds.
StampIsShared ==
    /\ (Running /\ Known(file) /\ ~file.latch /\ file.stamp # NoStamp)
          => record.stamp = file.stamp
    /\ (report # Absent /\ report.stamp # NoStamp)
          => \/ Unreadable(file)
             \/ Known(file) /\ (file.latch \/ file.stamp = report.stamp)

ReadingIsOpen == pc = "reading" => opened

\* What a `verify` command has found, the chain bears out.
CheckIsTrue == /\ check \in {"match", "mismatch"} => opened
               /\ check = "match" => verified

IInv == /\ TypeOK /\ LatchIsTrue /\ StampIsShared /\ ReadingIsOpen /\ CheckIsTrue
        /\ TeardownIsSafe /\ DoneIsVerified

\* A step of the service, from a state of the invariant.
ServiceStep ==
    /\ \E rec \in Record :
          /\ Persist(rec)
          /\ rec.latch => record.latch \/ Latched \/ (opened' /\ verified')
          /\ \/ ~Running /\ rec = Seeded(file, Fresh)
             \/ Running /\ (record.stamp # NoStamp => rec.stamp = record.stamp)
          /\ pc' = "done" => rec.latch /\ opened' /\ verified'
    /\ pc' \in Awaits \cup {"failed", "done"}
    /\ pc' = "reading" => opened'
    /\ opened' \in BOOLEAN /\ (opened => opened')
    /\ verified' \in BOOLEAN /\ (verified => verified')
    /\ app' \in {"absent", "disabled", "enabled"}
    /\ faults' \in 0..MaxFaults
    /\ UNCHANGED <<ready, router, clock, commands, world, damages>>

LEMMA ServiceStepKeeps ==
    ASSUME IInv, ServiceStep
    PROVE  IInv' /\ (Keeps(file, file') \/ UNCHANGED file)
  <1>1. PICK rec \in Record :
          /\ Persist(rec)
          /\ rec.latch => record.latch \/ Latched \/ (opened' /\ verified')
          /\ \/ ~Running /\ rec = Seeded(file, Fresh)
             \/ Running /\ (record.stamp # NoStamp => rec.stamp = record.stamp)
          /\ pc' = "done" => rec.latch /\ opened' /\ verified'
    BY DEF ServiceStep
  <1> DEFINE Old == Known(file) /\ ~file.latch /\ file.stamp # NoStamp
  <1>2. file \in Content /\ record \in Record
    BY DEF IInv, TypeOK
  <1>3. Old => rec.stamp = file.stamp
    <2>1. CASE ~Running
      BY <1>1, <1>2, <2>1, SeededFacts
    <2>2. CASE Running
      BY <1>1, <2>2 DEF IInv, StampIsShared
    <2> QED
      BY <2>1, <2>2
  <1>4. Write(rec) => /\ Keeps(file, file') /\ file' \in Record /\ Known(file')
                      /\ file'.latch = (rec.latch \/ Latched)
                      /\ file'.stamp = IF Known(file) /\ rec.stamp = NoStamp
                                       THEN file.stamp ELSE rec.stamp
    BY <1>2, <1>3, WriteKeeps
  <1>5. record' = rec /\ (Write(rec) \/ ((Refused(file, rec) \/ DiskMayFail) /\ file' = file))
    BY <1>1 DEF Persist
  <1>6. /\ pc' \in Awaits \cup {"failed", "done"}
        /\ pc' = "reading" => opened'
        /\ opened' \in BOOLEAN /\ (opened => opened')
        /\ verified' \in BOOLEAN /\ (verified => verified')
        /\ app' \in {"absent", "disabled", "enabled"}
        /\ faults' \in 0..MaxFaults
        /\ UNCHANGED <<ready, router, clock, report, check>>
        /\ UNCHANGED <<landing, matching, moved, calm, damages>>
    BY DEF ServiceStep, world, commands
  <1>7. file' \in Content
    BY <1>2, <1>4, <1>5, RecordIsKnown
  <1>8. TypeOK'
    BY <1>5, <1>6, <1>7 DEF IInv, TypeOK
  <1>9. LatchIsTrue'
    <2>1. Latched' => Latched \/ rec.latch
      BY <1>4, <1>5 DEF Latched
    <2> QED
      BY <1>1, <1>5, <1>6, <2>1 DEF IInv, LatchIsTrue
  <1>10. StampIsShared'
    <2>1. ASSUME Known(file'), ~file'.latch, file'.stamp # NoStamp
          PROVE  rec.stamp = file'.stamp
      <3>1. CASE Write(rec)
        BY <1>3, <1>4, <2>1, <3>1 DEF Latched
      <3>2. CASE file' = file
        BY <1>3, <2>1, <3>2
      <3> QED
        BY <1>5, <3>1, <3>2
    <2>2. ASSUME report # Absent, report.stamp # NoStamp
          PROVE  \/ Unreadable(file')
                 \/ Known(file') /\ (file'.latch \/ file'.stamp = report.stamp)
      <3>1. \/ Unreadable(file)
            \/ Known(file) /\ (file.latch \/ file.stamp = report.stamp)
        BY <2>2 DEF IInv, StampIsShared
      <3>2. CASE Write(rec)
        <4>1. CASE Unreadable(file)
          BY <1>4, <3>2, <4>1 DEF Write, Refused
        <4>2. CASE Known(file) /\ file.latch
          BY <1>4, <3>2, <4>2 DEF Latched
        <4>3. CASE Known(file) /\ ~file.latch /\ file.stamp = report.stamp
          BY <1>3, <1>4, <2>2, <3>2, <4>3
        <4> QED
          BY <3>1, <4>1, <4>2, <4>3
      <3>3. CASE file' = file
        BY <3>1, <3>3
      <3> QED
        BY <1>5, <3>2, <3>3
    <2> QED
      BY <1>5, <1>6, <2>1, <2>2 DEF StampIsShared
  <1>11. ReadingIsOpen' /\ CheckIsTrue'
    BY <1>6 DEF IInv, ReadingIsOpen, CheckIsTrue
  <1>12. TeardownIsSafe'
    BY <1>6 DEF IInv, TeardownIsSafe
  <1>13. DoneIsVerified'
    <2>1. ASSUME rec.latch, ~DiskMayFail
          PROVE  Known(file') /\ file'.latch
      BY <1>4, <1>5, <2>1 DEF Refused
    <2> QED
      BY <1>1, <1>6, <2>1 DEF DoneIsVerified, Latched, DiskMayFail
  <1> QED
    BY <1>4, <1>5, <1>8, <1>9, <1>10, <1>11, <1>12, <1>13 DEF IInv

-----------------------------------------------------------------------------
(* The ways a step of the service ends. *)

\* What a step does beside the file, its record and its await.
Beside ==
    /\ opened' \in BOOLEAN /\ (opened => opened')
    /\ verified' \in BOOLEAN /\ (verified => verified')
    /\ app' \in {"absent", "disabled", "enabled"}
    /\ faults' \in 0..MaxFaults
    /\ UNCHANGED <<ready, router, clock, commands, world, damages>>

LEMMA GoStep ==
    ASSUME IInv, Running, Beside,
           NEW next \in (Awaits \ {"reading"}) \cup {"failed"}, Go(next)
    PROVE  ServiceStep
  <1>1. record \in Record
    BY DEF IInv, TypeOK
  <1>2. next # "done" /\ next # "reading"
    BY DEF Awaits
  <1> QED
    BY <1>1, <1>2 DEF Go, Beside, ServiceStep

LEMMA TooEarlyStep ==
    ASSUME IInv, Running, Beside, TooEarly
    PROVE  ServiceStep
  <1> DEFINE rec == [record EXCEPT !.stamp = Started]
  <1>1. record \in Record /\ clock \in Time
    BY DEF IInv, TypeOK
  <1>2. /\ rec \in Record
        /\ rec.latch = record.latch
        /\ record.stamp # NoStamp => rec.stamp = record.stamp
    BY <1>1 DEF Record, Started
  <1>3. pc' \in {"failed", "waiting"} /\ Persist(rec)
    BY DEF TooEarly
  <1> HIDE DEF rec
  <1> QED
    BY <1>2, <1>3 DEF Beside, ServiceStep, Awaits

LEMMA FinishStep ==
    ASSUME IInv, Running, Beside, Finish, opened', verified'
    PROVE  ServiceStep
  <1> DEFINE rec == [record EXCEPT !.latch = TRUE, !.opened = TRUE]
  <1>1. record \in Record
    BY DEF IInv, TypeOK
  <1>2. rec \in Record /\ rec.latch /\ rec.stamp = record.stamp
    BY <1>1 DEF Record
  <1>3. pc' = "done" /\ Persist(rec)
    BY DEF Finish
  <1> HIDE DEF rec
  <1> QED
    BY <1>2, <1>3 DEF Beside, ServiceStep

LEMMA FaultBound ==
    ASSUME IInv, Fault
    PROVE  faults' \in 0..MaxFaults
  BY OpenAssumption DEF IInv, TypeOK, Fault

LEMMA BlipStep ==
    ASSUME IInv, Running, Blip, opened' \in BOOLEAN, opened => opened',
           app' \in {"absent", "disabled", "enabled"},
           UNCHANGED <<ready, router, clock, commands, world, verified, damages>>
    PROVE  ServiceStep
  <1>1. Fault /\ Go("backoff")
    BY DEF Blip, Transient
  <1>2. faults' \in 0..MaxFaults /\ verified \in BOOLEAN
    BY <1>1, FaultBound DEF IInv, TypeOK
  <1>3. Beside
    BY <1>2 DEF Beside
  <1> QED
    BY <1>1, <1>3, GoStep DEF Awaits

-----------------------------------------------------------------------------
(* The actions of the service. *)

LEMMA StartStep ==
    ASSUME IInv, Start
    PROVE  ServiceStep
  <1>1. file \in Content
    BY DEF IInv, TypeOK
  <1>2. /\ Persist(Seeded(file, Fresh)) /\ pc' = "probing" /\ ~Running
        /\ Seeded(file, Fresh) \in Record
        /\ Seeded(file, Fresh).latch => Latched
    BY <1>1, SeededFacts DEF Start, Running, Latched
  <1>3. /\ opened' \in BOOLEAN /\ (opened => opened')
        /\ verified' \in BOOLEAN /\ (verified => verified')
        /\ app' \in {"absent", "disabled", "enabled"}
        /\ faults' \in 0..MaxFaults
        /\ UNCHANGED <<ready, router, clock, commands, world, damages>>
    BY DEF Start, IInv, TypeOK
  <1> QED
    BY <1>2, <1>3 DEF ServiceStep, Awaits

LEMMA WakeStep ==
    ASSUME IInv, Wake
    PROVE  ServiceStep
  <1>1. Beside /\ Running /\ Go("probing")
    BY DEF Wake, Beside, Running, IInv, TypeOK
  <1> QED
    BY <1>1, GoStep DEF Awaits

LEMMA ProbeStep ==
    ASSUME IInv, Probe
    PROVE  ServiceStep
  <1>1. /\ Running /\ opened' = opened /\ app' = app
        /\ UNCHANGED <<ready, router, clock, commands, world, verified, damages>>
    BY DEF Probe, Running
  <1>2. opened \in BOOLEAN /\ verified \in BOOLEAN /\ app \in {"absent", "disabled", "enabled"} /\ faults \in 0..MaxFaults
    BY DEF IInv, TypeOK
  <1>3. faults' = faults => Beside
    BY <1>1, <1>2 DEF Beside
  <1>4. CASE Blip
    BY <1>1, <1>2, <1>4, BlipStep
  <1>5. CASE Go("fetching") /\ faults' = faults
    BY <1>1, <1>3, <1>5, GoStep DEF Awaits
  <1>6. CASE HardStop /\ faults' = faults
    BY <1>1, <1>3, <1>6, GoStep DEF HardStop
  <1>7. CASE record.latch /\ Finish /\ faults' = faults
    <2>1. opened' /\ verified'
      BY <1>1, <1>7 DEF IInv, LatchIsTrue
    <2> QED
      BY <1>1, <1>3, <1>7, <2>1, FinishStep
  <1> QED
    BY <1>4, <1>5, <1>6, <1>7 DEF Probe

LEMMA FetchStep ==
    ASSUME IInv, Fetch
    PROVE  ServiceStep
  <1>1. /\ Running /\ opened' = opened /\ app' = app
        /\ UNCHANGED <<ready, router, clock, commands, world, verified, damages>>
    BY DEF Fetch, Running
  <1>2. opened \in BOOLEAN /\ verified \in BOOLEAN /\ app \in {"absent", "disabled", "enabled"} /\ faults \in 0..MaxFaults
    BY DEF IInv, TypeOK
  <1>3. faults' = faults => Beside
    BY <1>1, <1>2 DEF Beside
  <1>4. CASE Blip
    BY <1>1, <1>2, <1>4, BlipStep
  <1>5. CASE Go(IF app = "absent" THEN "joining" ELSE "connecting") /\ faults' = faults
    BY <1>1, <1>3, <1>5, GoStep DEF Awaits
  <1>6. CASE Transient /\ faults' = faults
    BY <1>1, <1>3, <1>6, GoStep DEF Transient, Awaits
  <1>7. CASE Refuses("router")
    BY <1>1, <1>3, <1>7, GoStep DEF Refuses, HardStop
  <1> QED
    BY <1>4, <1>5, <1>6, <1>7 DEF Fetch

LEMMA JoinStep ==
    ASSUME IInv, Join
    PROVE  ServiceStep
  <1>1. /\ Running /\ opened' = opened /\ app' = app
        /\ UNCHANGED <<ready, router, clock, commands, world, verified, damages>>
    BY DEF Join, Running
  <1>2. opened \in BOOLEAN /\ verified \in BOOLEAN /\ app \in {"absent", "disabled", "enabled"} /\ faults \in 0..MaxFaults
    BY DEF IInv, TypeOK
  <1>3. faults' = faults => Beside
    BY <1>1, <1>2 DEF Beside
  <1>4. CASE Blip
    BY <1>1, <1>2, <1>4, BlipStep
  <1>5. CASE Go("installing") /\ faults' = faults
    BY <1>1, <1>3, <1>5, GoStep DEF Awaits
  <1>6. CASE Refuses("joining")
    BY <1>1, <1>3, <1>6, GoStep DEF Refuses, HardStop
  <1> QED
    BY <1>4, <1>5, <1>6 DEF Join

\* The first call of the install leaves the record and the file alone.
Installed ==
    /\ app' = "disabled" /\ pc' = "enabling" /\ Running
    /\ UNCHANGED <<file, record, opened, ready, router, clock, commands, world, verified, faults, damages>>

LEMMA InstallAppStep ==
    ASSUME IInv, InstallApp
    PROVE  ServiceStep \/ Installed
  <1>1. /\ Running /\ opened' = opened
        /\ UNCHANGED <<ready, router, clock, commands, world, verified, damages>>
    BY DEF InstallApp, Running
  <1>2. opened \in BOOLEAN /\ verified \in BOOLEAN /\ app \in {"absent", "disabled", "enabled"} /\ faults \in 0..MaxFaults
    BY DEF IInv, TypeOK
  <1>3. faults' = faults /\ app' = app => Beside
    BY <1>1, <1>2 DEF Beside
  <1>4. CASE Blip /\ app' \in {app} \cup (IF EnableMayFail THEN {"disabled"} ELSE {})
    <2>1. app' \in {"absent", "disabled", "enabled"}
      BY <1>2, <1>4
    <2> QED
      BY <1>1, <1>2, <1>4, <2>1, BlipStep
  <1>5. CASE TooEarly /\ app' = app /\ faults' = faults
    BY <1>1, <1>3, <1>5, TooEarlyStep
  <1>6. CASE Refuses("init") /\ app' = app
    BY <1>1, <1>3, <1>6, GoStep DEF Refuses, HardStop
  <1>7. CASE app' = "disabled" /\ pc' = "enabling" /\ UNCHANGED <<file, record, faults>>
    BY <1>1, <1>7 DEF Installed
  <1> QED
    BY <1>4, <1>5, <1>6, <1>7 DEF InstallApp

LEMMA EnableAppStep ==
    ASSUME IInv, EnableApp
    PROVE  ServiceStep
  <1>1. /\ Running /\ opened' = opened
        /\ UNCHANGED <<ready, router, clock, commands, world, verified, damages>>
    BY DEF EnableApp, Running
  <1>2. opened \in BOOLEAN /\ verified \in BOOLEAN /\ app \in {"absent", "disabled", "enabled"} /\ faults \in 0..MaxFaults
    BY DEF IInv, TypeOK
  <1>3. CASE app' = app /\ (Blip \/ (TooEarly /\ faults' = faults) \/ Refuses("init"))
    <2>1. faults' = faults => Beside
      BY <1>1, <1>2, <1>3 DEF Beside
    <2>2. CASE Blip
      BY <1>1, <1>2, <1>3, <2>2, BlipStep
    <2>3. CASE TooEarly /\ faults' = faults
      BY <1>1, <2>1, <2>3, TooEarlyStep
    <2>4. CASE Refuses("init")
      BY <1>1, <2>1, <2>4, GoStep DEF Refuses, HardStop
    <2> QED
      BY <1>3, <2>2, <2>3, <2>4
  <1>4. ASSUME app' = "enabled", faults' = faults
        PROVE  Beside
    BY <1>1, <1>2, <1>4 DEF Beside
  <1>5. CASE app' = "enabled" /\ faults' = faults /\ Go("connecting")
    BY <1>1, <1>4, <1>5, GoStep DEF Awaits
  <1>6. CASE app' = "enabled" /\ faults' = faults /\ HardStop
    BY <1>1, <1>4, <1>6, GoStep DEF HardStop
  <1>7. CASE app' = "enabled" /\ faults' = faults /\ Transient
    BY <1>1, <1>4, <1>7, GoStep DEF Transient, Awaits
  <1>8. landing \in {"target", "other", "hidden"}
    BY OpenAssumption DEF IInv, TypeOK
  <1> QED
    BY <1>3, <1>5, <1>6, <1>7, <1>8 DEF EnableApp

LEMMA ConnectStep ==
    ASSUME IInv, Connect
    PROVE  ServiceStep
  <1>1. Beside /\ Running /\ Go("driving")
    BY DEF Connect, Beside, Running, IInv, TypeOK
  <1> QED
    BY <1>1, GoStep DEF Awaits

LEMMA DriveStep ==
    ASSUME IInv, Drive
    PROVE  ServiceStep
  <1>1. /\ Running /\ app' = app
        /\ UNCHANGED <<ready, router, clock, commands, world, verified, damages>>
    BY DEF Drive, Running
  <1>2. /\ opened \in BOOLEAN /\ verified \in BOOLEAN /\ app \in {"absent", "disabled", "enabled"}
        /\ faults \in 0..MaxFaults /\ record \in Record
    BY DEF IInv, TypeOK
  <1>3. opened' = opened /\ faults' = faults => Beside
    BY <1>1, <1>2 DEF Beside
  <1>4. CASE Blip /\ opened' \in {opened, opened \/ Opens}
    <2>1. opened' \in BOOLEAN /\ (opened => opened')
      BY <1>2, <1>4 DEF Opens
    <2> QED
      BY <1>1, <1>2, <1>4, <2>1, BlipStep
  <1>5. CASE TooEarly /\ opened' = opened /\ faults' = faults
    BY <1>1, <1>3, <1>5, TooEarlyStep
  <1>6. CASE Transient /\ opened' = opened /\ faults' = faults
    BY <1>1, <1>3, <1>6, GoStep DEF Transient, Awaits
  <1>7. CASE Refuses("init") /\ opened' = opened
    BY <1>1, <1>3, <1>7, GoStep DEF Refuses, HardStop
  <1>8. CASE /\ opened' = TRUE /\ faults' = faults /\ pc' = "reading"
             /\ Persist([record EXCEPT !.opened = TRUE])
    <2> DEFINE rec == [record EXCEPT !.opened = TRUE]
    <2>1. rec \in Record /\ rec.latch = record.latch /\ rec.stamp = record.stamp
      BY <1>2 DEF Record
    <2>2. Persist(rec)
      BY <1>8
    <2> HIDE DEF rec
    <2> QED
      BY <1>1, <1>2, <1>8, <2>1, <2>2 DEF ServiceStep, Awaits
  <1> QED
    BY <1>4, <1>5, <1>6, <1>7, <1>8 DEF Drive

LEMMA VerifyStep ==
    ASSUME IInv, Verify
    PROVE  ServiceStep
  <1>1. /\ Running /\ opened' = opened /\ app' = app /\ opened
        /\ UNCHANGED <<ready, router, clock, commands, world, damages>>
    BY DEF Verify, Running, IInv, ReadingIsOpen
  <1>2. /\ opened \in BOOLEAN /\ verified \in BOOLEAN /\ matching \in BOOLEAN
        /\ moved \in BOOLEAN
        /\ app \in {"absent", "disabled", "enabled"} /\ faults \in 0..MaxFaults
    BY OpenAssumption DEF IInv, TypeOK
  <1>3. CASE Blip /\ verified' = verified
    BY <1>1, <1>2, <1>3, BlipStep
  <1>4. CASE Refuses("decode") /\ verified' = verified
    <2>1. Beside
      BY <1>1, <1>2, <1>4 DEF Beside, Refuses
    <2> QED
      BY <1>1, <1>4, <2>1, GoStep DEF Refuses, HardStop
  <1>5. CASE /\ IF LedgerMatches THEN Finish ELSE HardStop
             /\ Witnessed /\ faults' = faults
    <2>1. /\ verified' \in BOOLEAN
          /\ verified => verified'
          /\ LedgerMatches => verified'
      BY <1>2, <1>5 DEF Witnessed, LedgerMatches
    <2>2. Beside
      BY <1>1, <1>2, <1>5, <2>1 DEF Beside
    <2>3. CASE LedgerMatches
      BY <1>1, <1>5, <2>1, <2>2, <2>3, FinishStep
    <2>4. CASE ~LedgerMatches
      BY <1>1, <1>5, <2>2, <2>4, GoStep DEF HardStop
    <2> QED
      BY <2>3, <2>4
  <1> QED
    BY <1>3, <1>4, <1>5 DEF Verify

-----------------------------------------------------------------------------
(* The commands. *)

\* A command writes a record that knows the stamp of the file, its latch up only over
\* an open and verified chain.
LEMMA CommandKeeps ==
    ASSUME IInv, NEW rec \in Record, Write(rec),
           rec.latch => opened /\ verified,
           (Known(file) /\ ~file.latch /\ file.stamp # NoStamp)
              => rec.stamp \in {NoStamp, file.stamp},
           (rec.stamp # NoStamp /\ file # Absent /\ Known(file) /\ ~file.latch)
              => file.stamp = rec.stamp,
           file = Absent => rec.stamp = NoStamp,
           report' \in {report, Absent}, check' \in {check, "none"},
           UNCHANGED <<record, pc, app, opened, ready, router, clock, world, verified, faults,
                       damages>>
    PROVE  IInv' /\ Keeps(file, file')
  <1>1. file \in Content /\ report \in Record \cup {Absent}
    BY DEF IInv, TypeOK
  <1>2. /\ Keeps(file, file') /\ file' \in Record /\ Known(file')
        /\ file'.latch = (rec.latch \/ Latched)
        /\ file'.stamp = IF Known(file) /\ rec.stamp = NoStamp THEN file.stamp ELSE rec.stamp
    BY <1>1, WriteKeeps
  <1>3. file' \in Content
    BY <1>2, RecordIsKnown
  <1>4. TypeOK'
    BY <1>1, <1>3 DEF IInv, TypeOK, world
  <1>5. LatchIsTrue'
    <2>1. Latched' => opened /\ verified
      BY <1>2 DEF IInv, LatchIsTrue, Latched
    <2> QED
      BY <2>1 DEF IInv, LatchIsTrue
  <1>6. StampIsShared'
    <2>1. Unreadable(file) => file'.latch
      BY <1>2 DEF Write, Refused
    <2>2. ASSUME ~file'.latch, file'.stamp # NoStamp
          PROVE  Known(file) /\ ~file.latch /\ file.stamp = file'.stamp
      <3>1. ~Unreadable(file) /\ ~Latched
        BY <1>2, <2>1, <2>2 DEF Latched
      <3>2. file # Absent
        BY <1>2, <2>2 DEF Known
      <3>3. Known(file)
        BY <3>1, <3>2 DEF Known, Unreadable
      <3> QED
        BY <1>2, <2>2, <3>1, <3>2, <3>3 DEF Latched
    <2>3. ASSUME Running', ~file'.latch, file'.stamp # NoStamp
          PROVE  record'.stamp = file'.stamp
      <3>1. Running
        BY <2>3 DEF Running
      <3> QED
        BY <2>2, <2>3, <3>1 DEF IInv, StampIsShared
    <2>4. ASSUME report' # Absent, report'.stamp # NoStamp
          PROVE  file'.latch \/ file'.stamp = report'.stamp
      <3>1. /\ report # Absent /\ report.stamp # NoStamp /\ report' = report
            /\ \/ Unreadable(file)
               \/ Known(file) /\ (file.latch \/ file.stamp = report.stamp)
        BY <2>4 DEF IInv, StampIsShared
      <3>2. CASE Unreadable(file)
        BY <2>1, <3>2
      <3>3. CASE Known(file) /\ file.latch
        BY <1>2, <3>3 DEF Latched
      <3>4. CASE Known(file) /\ ~file.latch /\ file.stamp = report.stamp
        BY <1>2, <3>1, <3>4
      <3> QED
        BY <3>1, <3>2, <3>3, <3>4
    <2> QED
      BY <1>2, <2>3, <2>4 DEF StampIsShared
  <1>7. ReadingIsOpen' /\ CheckIsTrue'
    BY DEF IInv, ReadingIsOpen, CheckIsTrue
  <1>8. TeardownIsSafe'
    BY DEF IInv, TeardownIsSafe, world
  <1>9. DoneIsVerified'
    <2>1. Latched \/ Unreadable(file) => Latched'
      BY <1>2 DEF Write, Refused, Latched
    <2> QED
      BY <2>1 DEF IInv, DoneIsVerified, DiskMayFail, world
  <1> QED
    BY <1>2, <1>4, <1>5, <1>6, <1>7, <1>8, <1>9 DEF IInv

\* A step that leaves the file alone, or loses its content, and keeps what was
\* opened.
LEMMA QuietKeeps ==
    ASSUME IInv, TypeOK', file' \in {file, Corrupt}, file = Absent => file' = Absent,
           record' = record, calm' = calm,
           opened => opened', verified => verified', report' \in {report, Absent},
           check' \in {check, "none", "fetched"} \/ CheckIsTrue',
           pc' \in {pc, "down", "enabling"}, Running' => Running,
           router' = "gone" => router = "gone" \/ Latched
    PROVE  IInv' /\ (Keeps(file, file') \/ UNCHANGED file)
  <1>1. file' = file \/ (file' = Corrupt /\ ~Known(file') /\ Unreadable(file'))
    BY DEF Known, Unreadable
  <1>2. Latched' => Latched
    BY <1>1 DEF Latched
  <1>3. LatchIsTrue'
    BY <1>2 DEF IInv, LatchIsTrue
  <1>4. StampIsShared'
    <2>1. (Running' /\ Known(file') /\ ~file'.latch /\ file'.stamp # NoStamp)
             => record'.stamp = file'.stamp
      BY <1>1 DEF IInv, StampIsShared
    <2>2. (report' # Absent /\ report'.stamp # NoStamp)
             => \/ Unreadable(file')
                \/ Known(file') /\ (file'.latch \/ file'.stamp = report'.stamp)
      BY <1>1 DEF IInv, StampIsShared
    <2> QED
      BY <2>1, <2>2 DEF StampIsShared
  <1>5. ReadingIsOpen' /\ CheckIsTrue'
    BY DEF IInv, ReadingIsOpen, CheckIsTrue
  <1>6. TeardownIsSafe'
    BY DEF IInv, TeardownIsSafe, LatchIsTrue
  <1>7. DoneIsVerified'
    <2>1. pc' = "done" => pc = "done"
      OBVIOUS
    <2>2. Latched \/ Unreadable(file) => Latched' \/ Unreadable(file')
      BY <1>1 DEF Latched
    <2> QED
      BY <2>1, <2>2 DEF IInv, DoneIsVerified, DiskMayFail
  <1>8. Keeps(file, file') \/ UNCHANGED file
    BY <1>1 DEF Keeps
  <1> QED
    BY <1>3, <1>4, <1>5, <1>6, <1>7, <1>8 DEF IInv

\* What an action leaves for the invariant and the file.
Kept == IInv' /\ (Keeps(file, file') \/ UNCHANGED file)

LEMMA StatusWriteKeeps ==
    ASSUME IInv, StatusWrite
    PROVE  Kept
  <1>1. /\ report \in Record /\ report' = Absent /\ check' = check
        /\ UNCHANGED <<record, pc, app, opened, ready, router, clock, world, verified, faults,
                       damages>>
    BY DEF StatusWrite, IInv, TypeOK
  <1>2. report # Absent
    BY DEF StatusWrite
  <1>3. CASE Write(report)
    <2>1. report.latch => opened /\ verified
      BY <1>2 DEF IInv, LatchIsTrue
    <2>2. report.stamp # NoStamp =>
             \/ Unreadable(file)
             \/ Known(file) /\ (file.latch \/ file.stamp = report.stamp)
      BY <1>2 DEF IInv, StampIsShared
    <2>3. /\ (Known(file) /\ ~file.latch /\ file.stamp # NoStamp)
                => report.stamp \in {NoStamp, file.stamp}
          /\ (report.stamp # NoStamp /\ file # Absent /\ Known(file) /\ ~file.latch)
                => file.stamp = report.stamp
          /\ file = Absent => report.stamp = NoStamp
      BY <2>2, RecordAssumption DEF Known, Unreadable
    <2> QED
      BY <1>1, <1>3, <2>1, <2>3, CommandKeeps DEF Kept
  <1>4. CASE file' = file
    <2>1. TypeOK'
      BY <1>1, <1>4 DEF IInv, TypeOK, world
    <2> QED
      BY <1>1, <1>4, <2>1, QuietKeeps DEF Kept, world, Running
  <1> QED
    BY <1>3, <1>4 DEF StatusWrite

LEMMA VerifyFetchKeeps ==
    ASSUME IInv, VerifyFetch
    PROVE  Kept
  <1>1. TypeOK'
    BY DEF IInv, TypeOK, VerifyFetch, world
  <1> QED
    BY <1>1, QuietKeeps DEF VerifyFetch, Kept, world, Running

LEMMA VerifyReadKeeps ==
    ASSUME IInv, VerifyRead
    PROVE  Kept
  <1>1. UNCHANGED <<file, record, pc, app, ready, router, clock, report, world, faults, damages>>
    BY DEF VerifyRead
  <1>2. opened \in BOOLEAN /\ verified \in BOOLEAN /\ matching \in BOOLEAN /\ moved \in BOOLEAN
    BY OpenAssumption DEF IInv, TypeOK
  <1>3. /\ opened' \in BOOLEAN /\ (opened => opened')
        /\ verified' \in BOOLEAN /\ (verified => verified')
        /\ check' \in {"none", "match", "mismatch"}
        /\ check' # "none" => opened'
        /\ check' = "match" => verified'
    <2>1. CASE /\ opened' = TRUE /\ Witnessed
               /\ check' = IF LedgerMatches THEN "match" ELSE "mismatch"
      BY <1>2, <2>1 DEF Witnessed, LedgerMatches
    <2>2. CASE /\ opened' \in {opened, opened \/ Opens}
               /\ check' = "none" /\ verified' = verified
      BY <1>2, <2>2 DEF Opens
    <2> QED
      BY <2>1, <2>2 DEF VerifyRead
  <1>4. TypeOK' /\ CheckIsTrue'
    BY <1>1, <1>3 DEF IInv, TypeOK, CheckIsTrue, world
  <1> QED
    BY <1>1, <1>3, <1>4, QuietKeeps DEF Kept, world, Running

\* The record a `verify` command writes over the file.
Checked == [Seeded(file, Fresh) EXCEPT !.opened = TRUE, !.latch = @ \/ check = "match"]

LEMMA CheckedFacts ==
    ASSUME file \in Content
    PROVE  /\ Checked \in Record
           /\ Checked.latch = (Latched \/ check = "match")
           /\ Checked.stamp = IF Known(file) THEN file.stamp ELSE NoStamp
  <1> DEFINE seeded == Seeded(file, Fresh)
  <1>1. /\ seeded \in Record
        /\ seeded.latch = Latched
        /\ seeded.stamp = IF Known(file) THEN file.stamp ELSE NoStamp
    BY SeededFacts DEF Latched
  <1>2. Checked = [seeded EXCEPT !.opened = TRUE, !.latch = @ \/ check = "match"]
    BY DEF Checked
  <1> HIDE DEF seeded
  <1> QED
    BY <1>1, <1>2 DEF Record

LEMMA VerifyWriteKeeps ==
    ASSUME IInv, VerifyWrite
    PROVE  Kept
  <1>1. /\ check \in {"match", "mismatch"} /\ check' = "none" /\ report' = report
        /\ UNCHANGED <<record, pc, app, opened, ready, router, clock, world, verified, faults,
                       damages>>
        /\ Write(Checked) \/ file' = file
    BY DEF VerifyWrite, Checked
  <1>2. CASE Write(Checked)
    <2>1. /\ Checked \in Record
          /\ Checked.latch = (Latched \/ check = "match")
          /\ Checked.stamp = IF Known(file) THEN file.stamp ELSE NoStamp
      BY CheckedFacts DEF IInv, TypeOK
    <2>2. Checked.latch => opened /\ verified
      BY <2>1 DEF IInv, LatchIsTrue, CheckIsTrue
    <2>3. ~Known(Absent)
      BY DEF Known
    <2> QED
      BY <1>1, <1>2, <2>1, <2>2, <2>3, CommandKeeps DEF Kept
  <1>3. CASE file' = file
    <2>1. TypeOK'
      BY <1>1, <1>3 DEF IInv, TypeOK, world
    <2> QED
      BY <1>1, <1>3, <2>1, QuietKeeps DEF Kept, world, Running
  <1> QED
    BY <1>1, <1>2, <1>3

LEMMA StatusReadKeeps ==
    ASSUME IInv, StatusRead
    PROVE  Kept
  <1>1. file \in Content
    BY DEF IInv, TypeOK
  <1>2. PICK b \in BOOLEAN : report' = [Seeded(file, Fresh) EXCEPT !.opened = b]
    <2>1. PICK answered \in BOOLEAN :
             report' = [Seeded(file, Fresh) EXCEPT
                          !.opened = /\ answered /\ app # "absent" /\ Known(file)
                                     /\ file.opened \/ file.latch]
      BY DEF StatusRead
    <2> QED
      BY <2>1
  <1>3. /\ report' \in Record
        /\ report'.latch = Latched
        /\ report'.stamp = IF Known(file) THEN file.stamp ELSE NoStamp
    BY <1>1, <1>2, SeededFacts DEF Latched, Record
  <1>4. UNCHANGED <<file, record, pc, app, opened, ready, router, clock, check, world, verified,
                    faults, damages>>
    BY DEF StatusRead
  <1>5. TypeOK'
    BY <1>3, <1>4 DEF IInv, TypeOK, world
  <1>6. LatchIsTrue'
    BY <1>3, <1>4 DEF IInv, LatchIsTrue, Latched, world
  <1>7. StampIsShared'
    BY <1>3, <1>4 DEF IInv, StampIsShared, Running
  <1>8. ReadingIsOpen' /\ CheckIsTrue' /\ TeardownIsSafe' /\ DoneIsVerified'
    BY <1>4 DEF IInv, ReadingIsOpen, CheckIsTrue, TeardownIsSafe, DoneIsVerified, DiskMayFail,
       Latched, world
  <1> QED
    BY <1>4, <1>5, <1>6, <1>7, <1>8 DEF IInv, Kept

-----------------------------------------------------------------------------
(* The world, and the end of a run. *)

LEMMA WorldKeeps ==
    ASSUME IInv, Gossip \/ Arrive \/ Transact \/ Tick
    PROVE  Kept
  <1>1. TypeOK'
    <2>1. CASE Gossip \/ Arrive \/ Transact
      BY <2>1 DEF IInv, TypeOK, Gossip, Arrive, Transact, world, commands
    <2>2. CASE Tick
      <3>1. clock' \in Time
        BY <2>2, OpenAssumption DEF IInv, TypeOK, Tick
      <3> QED
        BY <2>2, <3>1 DEF IInv, TypeOK, Tick, world, commands
    <2> QED
      BY <2>1, <2>2
  <1>2. /\ UNCHANGED <<file, record, pc, opened, verified, report, check, calm>>
        /\ router' = "gone" => router = "gone"
    BY DEF Gossip, Arrive, Transact, Tick, world, commands
  <1> QED
    BY <1>1, <1>2, QuietKeeps DEF Kept, Running

LEMMA TearDownKeeps ==
    ASSUME IInv, TearDown
    PROVE  Kept
  <1>1. TypeOK'
    BY DEF IInv, TypeOK, TearDown, world, commands
  <1>2. UNCHANGED <<file, record, pc, opened, verified, report, check, calm>> /\ Latched
    BY DEF TearDown, world, commands, Latched
  <1> QED
    BY <1>1, <1>2, QuietKeeps DEF Kept, Running

LEMMA DamageKeeps ==
    ASSUME IInv, Damage
    PROVE  Kept
  <1>1. damages' \in 0..MaxDamages
    BY OpenAssumption DEF IInv, TypeOK, Damage
  <1>2. /\ UNCHANGED <<record, pc, app, opened, ready, router, clock, commands, world, verified,
                       faults>>
        /\ file' = Corrupt /\ file # Absent
    BY DEF Damage, Known
  <1>3. TypeOK'
    BY <1>1, <1>2 DEF IInv, TypeOK, Content, world, commands
  <1> QED
    BY <1>2, <1>3, QuietKeeps DEF Kept, Running, world, commands

LEMMA InterruptKeeps ==
    ASSUME IInv, Interrupt
    PROVE  Kept
  <1>1. faults' \in 0..MaxFaults
    BY FaultBound DEF Interrupt
  <1>2. /\ UNCHANGED <<file, record, app, opened, ready, router, clock, commands, world, verified,
                       damages>>
        /\ pc' = "down"
    BY DEF Interrupt
  <1>3. TypeOK'
    BY <1>1, <1>2 DEF IInv, TypeOK, world, commands
  <1> QED
    BY <1>2, <1>3, QuietKeeps DEF Kept, Running, world, commands

LEMMA InstalledKeeps ==
    ASSUME IInv, Installed
    PROVE  Kept
  <1>1. TypeOK'
    BY DEF IInv, TypeOK, Installed, world, commands, Awaits
  <1> QED
    BY <1>1, QuietKeeps DEF Kept, Installed, world, commands

-----------------------------------------------------------------------------
(* The theorems. *)

LEMMA NextKeeps ==
    ASSUME IInv, Next
    PROVE  Kept
  <1>1. CASE Service
    <2>1. ServiceStep \/ Installed
      BY <1>1, StartStep, WakeStep, ProbeStep, FetchStep, JoinStep, InstallAppStep,
         EnableAppStep, ConnectStep, DriveStep, VerifyStep DEF Service
    <2> QED
      BY <2>1, ServiceStepKeeps, InstalledKeeps DEF Kept
  <1>2. CASE StatusRead \/ StatusWrite \/ VerifyFetch \/ VerifyRead \/ VerifyWrite
    BY <1>2, StatusReadKeeps, StatusWriteKeeps, VerifyFetchKeeps, VerifyReadKeeps,
       VerifyWriteKeeps
  <1>3. CASE Gossip \/ Arrive \/ Transact \/ Tick \/ TearDown \/ Damage \/ Interrupt
    BY <1>3, WorldKeeps, TearDownKeeps, DamageKeeps, InterruptKeeps
  <1> QED
    BY <1>1, <1>2, <1>3 DEF Next

LEMMA InitHolds ==
    ASSUME Init
    PROVE  IInv
  <1>1. Fresh \in Record /\ ~Fresh.latch
    BY SeededFacts DEF Fresh, Record
  <1>2. TypeOK
    <2>1. 0 \in Time /\ 0 \in 0..MaxFaults /\ 0 \in 0..MaxDamages
      BY OpenAssumption
    <2> QED
      BY <1>1, <2>1 DEF Init, TypeOK, Content
  <1>3. ~Known(Absent)
    BY DEF Known
  <1> QED
    BY <1>1, <1>2, <1>3 DEF Init, IInv, LatchIsTrue, StampIsShared, ReadingIsOpen,
       CheckIsTrue, TeardownIsSafe, DoneIsVerified, Latched, Running

\* The invariant, of the service, the commands and the operator together.
THEOREM Invariance == Spec => []IInv
  <1>1. IInv /\ [Next]_vars => IInv'
    <2>1. ASSUME IInv, UNCHANGED vars
          PROVE  IInv'
      BY <2>1 DEF vars, world, commands, IInv, TypeOK, LatchIsTrue, StampIsShared,
         ReadingIsOpen, CheckIsTrue, TeardownIsSafe, DoneIsVerified, DiskMayFail, Latched, Running
    <2> QED
      BY <2>1, NextKeeps DEF Kept
  <1> QED
    BY <1>1, InitHolds, PTL DEF Spec

\* Every variable keeps its type, and every counter its bound (open.rs,
\* state_file.rs).
THEOREM TypeCorrect == Spec => []TypeOK
  BY Invariance, PTL DEF IInv

\* The old server is destroyed only over an open and verified chain, whatever
\* is restarted, interleaved, lost by the disk, refused or late (the
\* safe_to_teardown latch of state_file.rs).
THEOREM TeardownTheorem == Spec => []TeardownIsSafe
  BY Invariance, PTL DEF IInv

\* Exit 0 of the open service means an open and verified chain, on record
\* (open.rs, run_with).
THEOREM DoneTheorem == Spec => []DoneIsVerified
  BY Invariance, PTL DEF IInv

\* The service and the commands implement the file's promise: the latch is
\* one-way, the stamp is written once, a latch that cannot be read is not
\* dropped (State::write).
THEOREM RecordTheorem == Spec => RecordSpec
  <1>1. Init => file = Absent
    BY DEF Init
  <1>2. IInv /\ [Next]_vars => [Keeps(file, file')]_file
    BY NextKeeps DEF Kept, vars
  <1> QED
    BY <1>1, <1>2, Invariance, PTL DEF Spec, RecordSpec

-----------------------------------------------------------------------------
(* Calm runs: nobody refuses for good, the disk works.  The file can be read then, *)
(* and file and memory tell of the wait the same thing.                            *)

OneStamp ==
    calm => /\ ~Unreadable(file)
            /\ record.stamp = IF Known(file) THEN file.stamp ELSE NoStamp
            /\ report # Absent => report.stamp \in {NoStamp, record.stamp}

\* What is at the places of the service before the chain is open.
Installing ==
    /\ pc \in {"joining", "installing"} => app = "absent"
    /\ pc = "enabling" => app = "disabled"
    /\ pc = "driving" \/ opened \/ check = "fetched" => app = "enabled"

\* What a step of a calm run leaves of file and memory.
Carried == /\ OneStamp'
           /\ record.stamp # NoStamp => record'.stamp = record.stamp
           /\ Latched => Latched'

\* A service writes its record, and it is written.
LEMMA CalmPersist ==
    ASSUME IInv, OneStamp, calm, NEW rec \in Record, Persist(rec),
           record.stamp # NoStamp => rec.stamp = record.stamp
    PROVE  /\ file' \in Record /\ Known(file') /\ ~Unreadable(file')
           /\ record' = rec /\ file'.stamp = rec.stamp
           /\ file'.latch = (rec.latch \/ Latched)
  <1>1. file \in Content /\ ~Unreadable(file)
    BY DEF IInv, TypeOK, OneStamp
  <1>2. record' = rec /\ file' = Guarded(file, rec)
    BY <1>1 DEF Persist, Write, Refused, DiskMayFail
  <1>3. record.stamp = IF Known(file) THEN file.stamp ELSE NoStamp
    BY DEF OneStamp
  <1>4. /\ file' \in Record
        /\ file'.latch = (rec.latch \/ Latched)
        /\ file'.stamp = rec.stamp
    BY <1>1, <1>2, <1>3, GuardedFacts DEF Latched
  <1> QED
    BY <1>2, <1>4, RecordIsKnown

LEMMA ServiceCarries ==
    ASSUME IInv, OneStamp, calm, ServiceStep
    PROVE  Carried
  <1>1. PICK rec \in Record :
          /\ Persist(rec)
          /\ \/ ~Running /\ rec = Seeded(file, Fresh)
             \/ Running /\ (record.stamp # NoStamp => rec.stamp = record.stamp)
    BY DEF ServiceStep
  <1>2. /\ file \in Content
        /\ record.stamp = IF Known(file) THEN file.stamp ELSE NoStamp
        /\ report # Absent => report.stamp \in {NoStamp, record.stamp}
    BY DEF IInv, TypeOK, OneStamp
  <1>3. record.stamp # NoStamp => rec.stamp = record.stamp
    BY <1>1, <1>2, SeededFacts
  <1>4. /\ file' \in Record /\ Known(file') /\ ~Unreadable(file')
        /\ record' = rec /\ file'.stamp = rec.stamp
        /\ file'.latch = (rec.latch \/ Latched)
    BY <1>1, <1>3, CalmPersist
  <1>5. report' = report
    BY DEF ServiceStep, commands
  <1> QED
    BY <1>2, <1>3, <1>4, <1>5 DEF Carried, OneStamp, Latched

\* A command writes a record that knows no other stamp than the service.
LEMMA CommandCarries ==
    ASSUME IInv, OneStamp, calm, NEW rec \in Record, Write(rec),
           rec.stamp \in {NoStamp, record.stamp},
           record' = record, report' \in {report, Absent}
    PROVE  Carried
  <1>1. /\ file \in Content
        /\ record.stamp = IF Known(file) THEN file.stamp ELSE NoStamp
        /\ report # Absent => report.stamp \in {NoStamp, record.stamp}
    BY DEF IInv, TypeOK, OneStamp
  <1>2. file' = Guarded(file, rec)
    BY DEF Write
  <1>3. /\ file' \in Record
        /\ file'.latch = (rec.latch \/ Latched)
        /\ file'.stamp = record.stamp
    BY <1>1, <1>2, GuardedFacts DEF Latched
  <1>4. Known(file') /\ ~Unreadable(file')
    BY <1>3, RecordIsKnown
  <1> QED
    BY <1>1, <1>3, <1>4 DEF Carried, OneStamp, Latched

LEMMA QuietCarries ==
    ASSUME OneStamp, calm, UNCHANGED <<file, record>>, report' \in {report, Absent}
    PROVE  Carried
  BY DEF Carried, OneStamp, Latched

LEMMA CommandsCarry ==
    ASSUME IInv, OneStamp, calm,
           StatusRead \/ StatusWrite \/ VerifyFetch \/ VerifyRead \/ VerifyWrite
    PROVE  Carried
  <1>1. /\ file \in Content
        /\ record.stamp = IF Known(file) THEN file.stamp ELSE NoStamp
        /\ report # Absent => report \in Record /\ report.stamp \in {NoStamp, record.stamp}
    BY DEF IInv, TypeOK, OneStamp
  <1>2. /\ Seeded(file, Fresh) \in Record
        /\ Seeded(file, Fresh).stamp = record.stamp
    BY <1>1, SeededFacts
  <1>3. CASE StatusRead
    <2>1. PICK b : report' = [Seeded(file, Fresh) EXCEPT !.opened = b]
      BY <1>3 DEF StatusRead
    <2>2. report'.stamp = record.stamp /\ UNCHANGED <<file, record>>
      BY <1>2, <1>3, <2>1 DEF StatusRead, Record
    <2> QED
      BY <2>2 DEF Carried, OneStamp, Latched
  <1>4. CASE StatusWrite
    <2>1. /\ report # Absent /\ record' = record /\ report' = Absent
          /\ Write(report) \/ file' = file
      BY <1>4 DEF StatusWrite
    <2> QED
      BY <1>1, <2>1, CommandCarries, QuietCarries
  <1>5. CASE VerifyFetch \/ VerifyRead
    BY <1>5, QuietCarries DEF VerifyFetch, VerifyRead
  <1>6. CASE VerifyWrite
    <2>1. /\ record' = record /\ report' = report
          /\ Write(Checked) \/ file' = file
      BY <1>6 DEF VerifyWrite, Checked
    <2>2. Checked \in Record /\ Checked.stamp = record.stamp
      BY <1>1, CheckedFacts
    <2> QED
      BY <2>1, <2>2, CommandCarries, QuietCarries
  <1> QED
    BY <1>3, <1>4, <1>5, <1>6

\* Of everything that happens in a calm run.
LEMMA NextCarries ==
    ASSUME IInv, OneStamp, calm, [Next]_vars
    PROVE  Carried
  <1>1. CASE Service
    <2>1. ServiceStep \/ Installed
      BY <1>1, StartStep, WakeStep, ProbeStep, FetchStep, JoinStep, InstallAppStep,
         EnableAppStep, ConnectStep, DriveStep, VerifyStep DEF Service
    <2>2. Installed => UNCHANGED <<file, record>> /\ report' \in {report, Absent}
      BY DEF Installed, commands
    <2> QED
      BY <2>1, <2>2, ServiceCarries, QuietCarries
  <1>2. CASE StatusRead \/ StatusWrite \/ VerifyFetch \/ VerifyRead \/ VerifyWrite
    BY <1>2, CommandsCarry
  <1>3. CASE Gossip \/ Arrive \/ Transact \/ Tick \/ TearDown \/ Damage \/ Interrupt \/ UNCHANGED vars
    <2>1. UNCHANGED <<file, record, report>>
      BY <1>3 DEF Gossip, Arrive, Transact, Tick, TearDown, Damage, Interrupt, vars,
         commands
    <2> QED
      BY <2>1, QuietCarries
  <1> QED
    BY <1>1, <1>2, <1>3 DEF Next

\* Where the service is, and what of the chain it sees there.
LEMMA CalmStays == [Next]_vars => calm' = calm
  BY DEF Next, Service, Start, Wake, Probe, Fetch, Join, InstallApp, EnableApp, Connect,
     Drive, Verify, StatusRead, StatusWrite, VerifyFetch, VerifyRead, VerifyWrite, Gossip,
     Arrive, Transact, Tick, TearDown, Damage, Interrupt, vars, world

LEMMA CalmInvariance == Spec => [](IInv /\ OneStamp)
  <1>1. Init => OneStamp
    BY RecordAssumption DEF Init, OneStamp, Fresh, Known, Unreadable
  <1>2. IInv /\ OneStamp /\ [Next]_vars => OneStamp'
    <2>1. ~calm /\ [Next]_vars => OneStamp'
      BY CalmStays DEF OneStamp
    <2> QED
      BY <2>1, NextCarries DEF Carried
  <1> QED
    BY <1>1, <1>2, InitHolds, Invariance, PTL DEF Spec

\* The budget is spent, counted from the first too-early answer on record.
PastBudget == record.stamp # NoStamp /\ clock - record.stamp >= Budget

LEMMA EnableEnds ==
    ASSUME IInv, EnableApp
    PROVE  \/ app' = "enabled" /\ (Go("connecting") \/ HardStop \/ Transient)
           \/ app' = app /\ (TooEarly \/ HardStop \/ Blip)
  <1>1. landing \in {"target", "other", "hidden"}
    BY OpenAssumption DEF IInv, TypeOK
  <1> QED
    BY <1>1 DEF EnableApp, Refuses

\* Too early past the budget ends the run.
LEMMA NoLaterWait ==
    ASSUME IInv, PastBudget, pc # "waiting", [Next]_vars
    PROVE  pc' # "waiting"
  <1>1. TooEarly => pc' = "failed"
    BY DEF TooEarly, Started, PastBudget
  <1>2. Go("probing") \/ HardStop \/ Transient \/ Blip \/ Finish => pc' # "waiting"
    BY DEF Go, HardStop, Transient, Blip, Finish
  <1>3. CASE Start \/ Wake
    BY <1>2, <1>3 DEF Start, Wake
  <1>4. CASE Probe \/ Fetch \/ Join
    BY <1>2, <1>4 DEF Probe, Fetch, Join, Refuses, Go
  <1>5. CASE InstallApp \/ EnableApp \/ Connect
    BY <1>1, <1>2, <1>5, EnableEnds DEF InstallApp, Connect, Refuses, Go
  <1>6. CASE Drive \/ Verify
    BY <1>1, <1>2, <1>6 DEF Drive, Verify, Refuses
  <1>7. CASE \/ StatusRead \/ StatusWrite \/ VerifyFetch \/ VerifyRead \/ VerifyWrite
             \/ Gossip \/ Arrive \/ Transact \/ Tick \/ TearDown \/ Damage \/ Interrupt
             \/ UNCHANGED vars
    BY <1>7 DEF StatusRead, StatusWrite, VerifyFetch, VerifyRead, VerifyWrite, Gossip, Arrive, Transact, Tick,
       TearDown, Damage, Interrupt, vars
  <1> QED
    BY <1>3, <1>4, <1>5, <1>6, <1>7 DEF Next, Service

LEMMA PastBudgetStays ==
    ASSUME IInv, OneStamp, calm, PastBudget, [Next]_vars
    PROVE  PastBudget'
  <1>1. clock' = clock \/ clock' = clock + 1
    BY DEF Next, Service, Start, Wake, Probe, Fetch, Join, InstallApp, EnableApp, Connect,
       Drive, Verify, StatusRead, StatusWrite, VerifyFetch, VerifyRead, VerifyWrite, Gossip,
       Arrive, Transact, Tick, TearDown, Damage, Interrupt, vars
  <1>2. record'.stamp = record.stamp
    BY NextCarries DEF Carried, PastBudget
  <1>3. clock \in Nat /\ record.stamp \in Nat /\ Budget \in Nat
    BY OpenAssumption DEF IInv, TypeOK, Record, PastBudget
  <1> QED
    BY <1>1, <1>2, <1>3 DEF PastBudget

\* The wait is bounded over all restarts: once its budget is spent, counted from the
\* first too-early answer of any run, no run waits again; the safety half of WaitsEnd
\* (gd_wait_started_us in open.rs and state_file.rs).
THEOREM WaitTheorem ==
    Spec => [](calm /\ PastBudget /\ pc # "waiting" => [](pc # "waiting"))
  <1>1. /\ IInv /\ OneStamp /\ calm /\ PastBudget /\ pc # "waiting" /\ [Next]_vars
           => (calm /\ PastBudget /\ pc # "waiting")'
    BY CalmStays, PastBudgetStays, NoLaterWait
  <1> QED
    BY <1>1, CalmInvariance, PTL DEF Spec

-----------------------------------------------------------------------------
(* A verified migration, started again. *)

\* The places follow what was installed; nothing uninstalls.
LEMMA InstallingKept == IInv /\ Installing /\ [Next]_vars => Installing'
  <1> SUFFICES ASSUME IInv, Installing, [Next]_vars PROVE Installing'
    OBVIOUS
  <1> DEFINE Early == {"joining", "installing", "enabling", "driving"}
  <1>1. HardStop \/ Transient \/ Blip \/ Finish \/ TooEarly => pc' \notin Early
    BY DEF Go, HardStop, Transient, Blip, Finish, TooEarly
  <1> HIDE DEF Early
  <1>2. pc' \notin Early /\ UNCHANGED <<app, opened, check>> => Installing'
    BY DEF Installing, Early
  <1>3. CASE Start \/ Wake \/ Probe \/ Verify
    <2>1. pc' \notin Early
      BY <1>1, <1>3 DEF Start, Wake, Probe, Verify, Go, Refuses, Early
    <2> QED
      BY <1>2, <1>3, <2>1 DEF Start, Wake, Probe, Verify, commands
  <1>4. CASE Fetch
    <2>1. CASE Go(IF app = "absent" THEN "joining" ELSE "connecting")
      BY <1>4, <2>1 DEF Fetch, Go, Installing, commands
    <2>2. CASE Transient \/ Blip \/ Refuses("router")
      BY <1>1, <1>2, <1>4, <2>2 DEF Fetch, Refuses, commands
    <2> QED
      BY <1>4, <2>1, <2>2 DEF Fetch
  <1>5. CASE Join
    <2>1. CASE Go("installing")
      BY <1>5, <2>1 DEF Join, Go, Installing, commands
    <2>2. CASE Blip \/ Refuses("joining")
      BY <1>1, <1>2, <1>5, <2>2 DEF Join, Refuses, commands
    <2> QED
      BY <1>5, <2>1, <2>2 DEF Join
  <1>6. CASE InstallApp
    <2>1. ~opened /\ check # "fetched" /\ UNCHANGED <<opened, check>>
      BY <1>6 DEF InstallApp, Installing, commands
    <2>2. CASE app' = "disabled" /\ pc' = "enabling"
      BY <2>1, <2>2 DEF Installing
    <2>3. CASE TooEarly \/ Refuses("init") \/ Blip
      <3>1. pc' \notin Early
        BY <1>1, <2>3 DEF Refuses
      <3> QED
        BY <2>1, <3>1 DEF Installing, Early
    <2> QED
      BY <1>6, <2>2, <2>3 DEF InstallApp
  <1>7. CASE EnableApp
    <2>1. CASE app' = "enabled"
      <3>1. pc' \notin {"joining", "installing", "enabling"}
        BY <1>1, <1>7, <2>1, EnableEnds DEF Go, Early
      <3> QED
        BY <2>1, <3>1 DEF Installing
    <2>2. CASE app' = app /\ (TooEarly \/ HardStop \/ Blip)
      BY <1>1, <1>2, <1>7, <2>2 DEF EnableApp, commands
    <2> QED
      BY <1>7, <2>1, <2>2, EnableEnds
  <1>8. CASE Connect
    BY <1>8 DEF Connect, Go, Installing
  <1>9. CASE Drive
    <2>1. app = "enabled" /\ app' = app
      BY <1>9 DEF Drive, Installing
    <2>2. pc' \notin Early
      BY <1>1, <1>9 DEF Drive, Refuses, Early
    <2> QED
      BY <2>1, <2>2 DEF Installing, Early
  <1>10. CASE StatusRead \/ StatusWrite \/ Gossip \/ Arrive \/ Transact \/ Tick
                \/ TearDown \/ Damage \/ UNCHANGED vars
    BY <1>10 DEF StatusRead, StatusWrite, Gossip, Arrive, Transact, Tick, TearDown,
       Damage, vars, Installing, commands
  <1>11. CASE VerifyFetch \/ VerifyRead \/ VerifyWrite
    BY <1>11 DEF VerifyFetch, VerifyRead, VerifyWrite, Installing
  <1>12. CASE Interrupt
    BY <1>12 DEF Interrupt, Installing, commands
  <1> QED
    BY <1>3, <1>4, <1>5, <1>6, <1>7, <1>8, <1>9, <1>10, <1>11, <1>12 DEF Next, Service

\* The latch is up, on disk and in the memory of a run that is under way; it has no more
\* to do than to look.
Resting ==
    /\ calm /\ Latched
    /\ \/ pc \in {"down", "failed"}
       \/ pc \in {"probing", "backoff", "done"} /\ record.latch

LEMMA RestingStep ==
    ASSUME IInv, OneStamp, Installing, Resting, [Next]_vars
    PROVE  Resting' /\ (pc' = "failed" => pc = "failed")
  <1>1. calm' /\ Latched'
    BY CalmStays, NextCarries DEF Resting, Carried
  <1>2. app # "absent"
    BY DEF Resting, IInv, LatchIsTrue, Installing
  <1>3. CASE Start
    <2>1. pc' = "probing" /\ record' = Seeded(file, Fresh) /\ file \in Content
      BY <1>3 DEF Start, Persist, IInv, TypeOK
    <2>2. record'.latch
      BY <2>1, SeededFacts DEF Resting, Latched
    <2> QED
      BY <1>1, <2>1, <2>2 DEF Resting
  <1>4. CASE Wake
    <2>1. pc' = "probing" /\ record' = record /\ record.latch
      BY <1>4 DEF Wake, Go, Persist, Resting
    <2> QED
      BY <1>1, <2>1 DEF Resting
  <1>5. CASE Probe
    <2>1. record.latch /\ record \in Record
      BY <1>5 DEF Probe, Resting, IInv, TypeOK
    <2>2. Finish \/ Blip
      BY <1>2, <1>5, <2>1 DEF Probe
    <2>3. pc' \in {"done", "backoff"}
      BY <2>2 DEF Finish, Blip, Transient, Go
    <2>4. record'.latch
      BY <2>1, <2>2 DEF Finish, Blip, Transient, Go, Persist, Record
    <2> QED
      BY <1>1, <2>3, <2>4 DEF Resting
  <1>6. CASE Fetch \/ Join \/ InstallApp \/ EnableApp \/ Connect \/ Drive \/ Verify
    BY <1>6 DEF Fetch, Join, InstallApp, EnableApp, Connect, Drive, Verify, Resting
  <1>7. CASE \/ StatusRead \/ StatusWrite \/ VerifyFetch \/ VerifyRead \/ VerifyWrite
             \/ Gossip \/ Arrive \/ Transact \/ Tick \/ TearDown \/ Damage \/ UNCHANGED vars
    <2>1. UNCHANGED <<record, pc>>
      BY <1>7 DEF StatusRead, StatusWrite, VerifyFetch, VerifyRead, VerifyWrite, Gossip, Arrive, Transact, Tick,
         TearDown, Damage, vars
    <2> QED
      BY <1>1, <2>1 DEF Resting
  <1>8. CASE Interrupt
    BY <1>1, <1>8 DEF Interrupt, Resting
  <1> QED
    BY <1>3, <1>4, <1>5, <1>6, <1>7, <1>8 DEF Next, Service

\* A verified migration needs neither router nor joining service nor a second verify: a
\* service that is started again goes to none of them and does not fail, the old server
\* gone or not, the ledger moved or not; the safety half of VerifiedRestartFinishes.
THEOREM RestartTheorem ==
    Spec => [](calm /\ Latched /\ pc \in {"down", "failed"}
                 => /\ [](Latched /\ pc \in {"down", "failed", "probing", "backoff", "done"})
                    /\ [][pc' # "failed"]_pc)
  <1>1. Init => Installing
    BY DEF Init, Installing
  <1>2. calm /\ Latched /\ pc \in {"down", "failed"} => Resting
    BY DEF Resting
  <1>3. IInv /\ OneStamp /\ Installing /\ Resting /\ [Next]_vars
           => Resting' /\ [pc' # "failed"]_pc
    BY RestingStep
  <1>4. Resting => Latched /\ pc \in {"down", "failed", "probing", "backoff", "done"}
    BY DEF Resting
  <1> QED
    BY <1>1, <1>2, <1>3, <1>4, InstallingKept, CalmInvariance, PTL DEF Spec

-----------------------------------------------------------------------------
(* The order of a migration. *)

\* The places of a service that needs no package.
Waiting == {"down", "failed", "probing", "fetching", "backoff"}

BeforeThePackage ==
    router = "gossiping" =>
       pc \in Waiting /\ app = "absent" /\ ~opened /\ ~verified /\ check = "none"

LEMMA BeforeStays ==
    ASSUME BeforeThePackage, [Next]_vars
    PROVE  BeforeThePackage'
  <1>1. SUFFICES ASSUME router' = "gossiping" PROVE BeforeThePackage'
    BY DEF BeforeThePackage
  <1>2. router = "gossiping"
    BY <1>1 DEF Next, Service, Start, Wake, Probe, Fetch, Join, InstallApp, EnableApp,
       Connect, Drive, Verify, StatusRead, StatusWrite, VerifyFetch, VerifyRead, VerifyWrite,
       Gossip, Arrive, Transact, Tick, TearDown, Damage, Interrupt, vars
  <1>3. pc \in Waiting /\ app = "absent" /\ ~opened /\ ~verified /\ check = "none"
    BY <1>2 DEF BeforeThePackage
  <1>4. CASE Start \/ Wake
    BY <1>3, <1>4 DEF Start, Wake, Go, BeforeThePackage, Waiting, commands
  <1>5. CASE Probe \/ Fetch
    <2>1. UNCHANGED <<app, opened, verified, check>>
      BY <1>5 DEF Probe, Fetch, commands
    <2>2. pc' \in Waiting
      BY <1>2, <1>3, <1>5 DEF Probe, Fetch, Go, HardStop, Blip, Transient, Refuses, Waiting
    <2> QED
      BY <1>3, <2>1, <2>2 DEF BeforeThePackage
  <1>6. CASE Join \/ InstallApp \/ EnableApp \/ Connect \/ Drive \/ Verify
    BY <1>3, <1>6 DEF Join, InstallApp, EnableApp, Connect, Drive, Verify, Waiting
  <1>7. CASE \/ StatusRead \/ StatusWrite \/ Arrive \/ Tick \/ TearDown \/ Damage
             \/ UNCHANGED vars
    BY <1>3, <1>7 DEF StatusRead, StatusWrite, Arrive, Tick, TearDown, Damage, vars,
       commands, BeforeThePackage
  <1>8. CASE VerifyFetch \/ VerifyRead \/ VerifyWrite \/ Transact \/ Gossip
    BY <1>1, <1>2, <1>3, <1>8 DEF VerifyFetch, VerifyRead, VerifyWrite, Transact, Gossip
  <1>9. CASE Interrupt
    BY <1>3, <1>9 DEF Interrupt, BeforeThePackage, Waiting, commands
  <1> QED
    BY <1>4, <1>5, <1>6, <1>7, <1>8, <1>9 DEF Next, Service

\* Until M notaries attest the close, nothing is installed for the agent and no latch
\* goes up, whatever is started, interrupted or run by hand: the old server stays.
THEOREM PackageFirstTheorem ==
    Spec => [](router = "gossiping" => app = "absent" /\ ~opened /\ ~Latched)
  <1>1. Init => BeforeThePackage
    BY DEF Init, BeforeThePackage, Waiting
  <1>2. IInv /\ BeforeThePackage
           => (router = "gossiping" => app = "absent" /\ ~opened /\ ~Latched)
    BY DEF BeforeThePackage, IInv, LatchIsTrue
  <1> QED
    BY <1>1, <1>2, BeforeStays, Invariance, PTL DEF Spec
=============================================================================
