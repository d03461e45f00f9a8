----------------------------- MODULE OpenService -----------------------------
(***************************************************************************)
(* The new server of one migrating agent: the supervised open service      *)
(* (headless-migrator/src/open.rs), the `status` and `verify` commands run *)
(* beside it (status.rs, verify.rs), the progress file they share, and the *)
(* operator who destroys the old server on the file's word.                *)
(*                                                                         *)
(* One action is what a program does between two awaits, the write of the  *)
(* file included: a write takes effect as a whole, as StateFile shows of   *)
(* writes that do not meet.                                                *)
(***************************************************************************)
EXTENDS StateRecord

CONSTANTS
    Landings,      \* what the install can land on: "target", "other" (another
                   \* DNA or agent), "hidden" (no cell to be read for the role)
    Calms,         \* whether calm runs, others or both are considered
    Ledgers,       \* whether the new chain opened with this close: BOOLEAN
    HardFaults,    \* who refuses for good: "router", "joining", "init", "decode"
    Budget,        \* gd_wait_timeout
    DiskFails,     \* whether a write of the file can fail
    EnableFails,   \* whether the app can be left installed and not enabled
    MaxFaults,     \* how many calls can fail and runs be cut short
    MaxDamages     \* how often the disk may lose the file

VARIABLES
    record,    \* the State in the service's memory
    pc,        \* the await the service is at, or how its run ended
    app,       \* the app on the conductor: "absent", "disabled" or "enabled"
    opened,    \* whether `init` has opened the new chain
    ready,     \* whether what `init` waits for (successor GD, key) is there
    router,    \* "gossiping", "serving" or "gone", with the old server
    clock,     \* now_us
    report,    \* the record a `status` command is about to write, or Absent
    check,     \* what a `verify` command has: "none" (it does not run), the
               \* package ("fetched"), or its finding ("match", "mismatch")
    landing,   \* what the install lands on
    matching,  \* whether the new chain opens with the close that was carried
    moved,     \* whether transactions since have changed its ledger
    calm,      \* whether nobody refuses for good and no disk or node fails
    verified,  \* whether a verify saw, of the open chain, what was carried
    faults, damages

commands == <<report, check>>
world == <<landing, matching, moved, calm>>
vars == <<file, record, pc, app, opened, ready, router, clock, commands,
          world, verified, faults, damages>>

ASSUME OpenAssumption ==
    /\ Landings \subseteq {"target", "other", "hidden"}
    /\ Ledgers \subseteq BOOLEAN /\ Calms \subseteq BOOLEAN
    /\ HardFaults \subseteq {"router", "joining", "init", "decode"}
    /\ Budget \in Nat
    /\ Time = 0..Budget
    /\ DiskFails \in BOOLEAN /\ EnableFails \in BOOLEAN
    /\ MaxFaults \in Nat /\ MaxDamages \in Nat

Awaits == {"probing", "fetching", "joining", "installing", "enabling",
           "connecting", "driving", "reading", "backoff", "waiting"}

TypeOK ==
    /\ file \in Content
    /\ record \in Record
    /\ pc \in Awaits \cup {"down", "failed", "done"}
    /\ app \in {"absent", "disabled", "enabled"}
    /\ opened \in BOOLEAN /\ ready \in BOOLEAN
    /\ router \in {"gossiping", "serving", "gone"}
    /\ clock \in Time
    /\ report \in Record \cup {Absent}
    /\ check \in {"none", "fetched", "match", "mismatch"}
    /\ landing \in Landings /\ matching \in Ledgers /\ calm \in Calms
    /\ moved \in BOOLEAN /\ verified \in BOOLEAN
    /\ faults \in 0..MaxFaults /\ damages \in 0..MaxDamages

Init ==
    /\ file = Absent
    /\ record = Fresh
    /\ pc = "down"
    /\ app = "absent"
    /\ opened = FALSE
    /\ ready \in BOOLEAN
    /\ router = "gossiping"
    /\ clock = 0
    /\ report = Absent
    /\ check = "none"
    /\ landing \in Landings
    /\ matching \in Ledgers
    /\ calm \in Calms
    /\ moved = FALSE
    /\ verified = FALSE
    /\ faults = 0
    /\ damages = 0

-----------------------------------------------------------------------------
(* What can fail. *)

DiskMayFail == DiskFails /\ ~calm

EnableMayFail == EnableFails /\ ~calm

-----------------------------------------------------------------------------
(* The file. *)

\* State::write
Write(rec) == /\ ~Refused(file, rec)
              /\ file' = Guarded(file, rec)

\* `persist`: the record in memory stays as it is when the file is not written.
Persist(rec) ==
    /\ record' = rec
    /\ \/ Write(rec)
       \/ (Refused(file, rec) \/ DiskMayFail) /\ UNCHANGED file

-----------------------------------------------------------------------------
(* How a step of the service ends: what follows it up to the next await.     *)

Go(next) == /\ Persist(record)
            /\ pc' = next

\* OpenOutcome::HardStop
HardStop == Go("failed")

\* OpenOutcome::Transient: a call that failed, or an answer that says to wait.
Transient == Go("backoff")

Fault == /\ faults < MaxFaults
         /\ faults' = faults + 1

Blip == Fault /\ Transient

Refuses(who) == ~calm /\ who \in HardFaults /\ HardStop /\ UNCHANGED faults

\* Mutant: the latch is left to a later run.
FinishUnlatched == /\ Persist([record EXCEPT !.opened = TRUE])
                   /\ pc' = "done"

\* OpenOutcome::Done
Finish == /\ Persist([record EXCEPT !.latch = TRUE, !.opened = TRUE])
          /\ pc' = "done"

Started == IF record.stamp = NoStamp THEN clock ELSE record.stamp

\* OpenOutcome::TooEarly, bounded from the first one.
TooEarly ==
    /\ Persist([record EXCEPT !.stamp = Started])
    /\ pc' = IF clock - Started >= Budget THEN "failed" ELSE "waiting"

-----------------------------------------------------------------------------
(* The service. *)

\* A (re)start: run_with up to the first await, a fresh State seeded from disk.
Start ==
    /\ pc \in {"down", "failed"}
    /\ Persist(Seeded(file, Fresh))
    /\ pc' = "probing"
    /\ UNCHANGED <<app, opened, ready, router, clock, commands, world, verified, faults, damages>>

\* The backoff is over.
Wake ==
    /\ pc \in {"backoff", "waiting"}
    /\ Go("probing")
    /\ UNCHANGED <<app, opened, ready, router, clock, commands, world, verified, faults, damages>>

\* The probe, and the target check of an app that is installed already.
Probe ==
    /\ pc = "probing"
    /\ \/ app = "absent" /\ Go("fetching") /\ UNCHANGED faults
       \/ app # "absent" /\ record.latch /\ Finish /\ UNCHANGED faults
       \/ /\ app # "absent" /\ ~record.latch
          /\ IF landing = "other" THEN HardStop ELSE Go("fetching")
          /\ UNCHANGED faults
       \/ Blip
    /\ UNCHANGED <<app, opened, ready, router, clock, commands, world, verified, damages>>

\* fetch_or_outcome: an app is installed only with the package in hand.
Fetch ==
    /\ pc = "fetching"
    /\ \/ /\ router = "serving"
          /\ Go(IF app = "absent" THEN "joining" ELSE "connecting")
          /\ UNCHANGED faults
       \/ router # "serving" /\ Transient /\ UNCHANGED faults
       \/ Blip
       \/ Refuses("router")
    /\ UNCHANGED <<app, opened, ready, router, clock, commands, world, verified, damages>>

\* The membrane proof of the joining service.
Join ==
    /\ pc = "joining"
    /\ \/ Go("installing") /\ UNCHANGED faults
       \/ Blip
       \/ Refuses("joining")
    /\ UNCHANGED <<app, opened, ready, router, clock, commands, world, verified, damages>>

\* The first admin call of install_app.  Its answer can be lost.
InstallApp ==
    /\ pc = "installing"
    /\ \/ /\ app' = "disabled" /\ pc' = "enabling"
          /\ UNCHANGED <<file, record, faults>>
       \/ ~ready /\ TooEarly /\ UNCHANGED <<app, faults>>
       \/ Refuses("init") /\ UNCHANGED app
       \/ /\ Blip
          /\ app' \in {app} \cup (IF EnableMayFail THEN {"disabled"} ELSE {})
    /\ UNCHANGED <<opened, ready, router, clock, commands, world, verified, damages>>

\* The second admin call of install_app, whose error is classified as the first
\* one's, and the target check.
EnableApp ==
    /\ pc = "enabling"
    /\ \/ /\ app' = "enabled"
          /\ CASE landing = "target" -> Go("connecting")
               [] landing = "other" -> HardStop
               [] landing = "hidden" -> Transient
          /\ UNCHANGED faults
       \/ /\ EnableMayFail
          /\ Blip \/ (~ready /\ TooEarly /\ UNCHANGED faults) \/ Refuses("init")
          /\ UNCHANGED app
    /\ UNCHANGED <<opened, ready, router, clock, commands, world, verified, damages>>

\* connect_ham, which answers once the app's cell serves calls.
Connect ==
    /\ pc = "connecting"
    /\ app = "enabled"
    /\ Go("driving")
    /\ UNCHANGED <<app, opened, ready, router, clock, commands, world, verified, faults, damages>>

\* The zome call that drives `init`: what it does to the chain.
Opens == ready /\ landing = "target"

\* drive_open_and_verify, up to the reads of the verify.
Drive ==
    /\ pc = "driving"
    /\ \/ /\ opened \/ Opens
          /\ opened' = TRUE
          /\ Persist([record EXCEPT !.opened = TRUE])
          /\ pc' = "reading"
          /\ UNCHANGED faults
       \/ /\ ~opened /\ ~Opens
          /\ IF landing = "hidden" THEN Transient ELSE TooEarly
          /\ UNCHANGED <<opened, faults>>
       \/ Blip /\ opened' \in {opened, opened \/ Opens}
       \/ ~opened /\ Refuses("init") /\ UNCHANGED opened
    /\ UNCHANGED <<app, ready, router, clock, commands, world, verified, damages>>

\* verify_against_ledger, verify_agreement_state and VerifyReport::passed.
LedgerMatches == matching /\ ~moved

\* What a verify sees, whatever it makes of it.
Witnessed == verified' = (verified \/ (matching /\ ~moved))

\* Mutant: a report with a mismatch is taken for a pass.
VerifyLoose ==
    /\ pc = "reading"
    /\ \/ Finish /\ Witnessed /\ UNCHANGED faults
       \/ (Blip \/ Refuses("decode")) /\ UNCHANGED verified
    /\ UNCHANGED <<app, opened, ready, router, clock, commands, world, damages>>

\* verify_after_open_with: the two reads and the report.  The second read is of what
\* the chain opened with, which does not change.
Verify ==
    /\ pc = "reading"
    /\ \/ /\ IF LedgerMatches THEN Finish ELSE HardStop
          /\ Witnessed
          /\ UNCHANGED faults
       \/ (Blip \/ Refuses("decode")) /\ UNCHANGED verified
    /\ UNCHANGED <<app, opened, ready, router, clock, commands, world, damages>>

\* Mutant: a run cut short exits as if it were complete.
InterruptComplete ==
    /\ pc \notin {"down", "failed"}
    /\ pc = "enabling" => EnableMayFail
    /\ Fault
    /\ pc' = "done"
    /\ UNCHANGED <<file, record, app, opened, ready, router, clock, commands, world, verified, damages>>

\* A shutdown, a crash or a reboot; the last also starts a finished service.
\* Nothing is written.
Interrupt ==
    /\ pc \notin {"down", "failed"}
    /\ pc = "enabling" => EnableMayFail
    /\ Fault
    /\ pc' = "down"
    /\ UNCHANGED <<file, record, app, opened, ready, router, clock, commands, world, verified, damages>>

-----------------------------------------------------------------------------
(* The commands. *)

\* status::run: the prior record is read once; the new-chain probe, when the
\* conductor answers, reports what was persisted if the app is there.
StatusRead ==
    /\ report = Absent
    /\ \E answered \in BOOLEAN :
          report' = [Seeded(file, Fresh) EXCEPT
                       !.opened = /\ answered /\ app # "absent" /\ Known(file)
                                  /\ file.opened \/ file.latch]
    /\ UNCHANGED <<file, record, pc, app, opened, ready, router, clock, check, world, verified,
                   faults, damages>>

StatusWrite ==
    /\ report # Absent
    /\ Write(report) \/ UNCHANGED file
    /\ report' = Absent
    /\ UNCHANGED <<record, pc, app, opened, ready, router, clock, check, world, verified, faults,
                   damages>>

\* verify::run connects to the app and fetches the package.
VerifyFetch ==
    /\ check = "none"
    /\ router = "serving" /\ app = "enabled"
    /\ check' = "fetched"
    /\ UNCHANGED <<file, record, pc, app, opened, ready, router, clock, report, world, verified,
                   faults, damages>>

\* fetch_and_compare: its zome calls drive `init` when nothing else has.  A call may
\* have done so and its answer be lost.
VerifyRead ==
    /\ check = "fetched"
    /\ \/ /\ opened \/ Opens
          /\ opened' = TRUE
          /\ check' = IF LedgerMatches THEN "match" ELSE "mismatch"
          /\ Witnessed
       \/ /\ opened' \in {opened, opened \/ Opens}
          /\ check' = "none"
          /\ UNCHANGED verified
    /\ UNCHANGED <<file, record, pc, app, ready, router, clock, report, world, faults, damages>>

\* build_verify_state seeds from what the file holds by then, unless the command is
\* killed or the write fails.
VerifyWrite ==
    /\ check \in {"match", "mismatch"}
    /\ LET seeded == Seeded(file, Fresh) IN
       \/ Write([seeded EXCEPT !.opened = TRUE, !.latch = @ \/ check = "match"])
       \/ UNCHANGED file
    /\ check' = "none"
    /\ UNCHANGED <<record, pc, app, opened, ready, router, clock, report, world, verified, faults,
                   damages>>

-----------------------------------------------------------------------------
(* The world. *)

\* The close reaches the notaries the router asks.
Gossip ==
    /\ router = "gossiping"
    /\ router' = "serving"
    /\ UNCHANGED <<file, record, pc, app, opened, ready, clock, commands, world, verified, faults, damages>>

\* The successor GD takes effect, the carried key reaches the lair.
Arrive ==
    /\ ~ready
    /\ ready' = TRUE
    /\ UNCHANGED <<file, record, pc, app, opened, router, clock, commands, world, verified, faults, damages>>

\* The agent transacts on the new chain, and may come back to the balance it had.
Transact ==
    /\ opened
    /\ moved' \in BOOLEAN
    /\ UNCHANGED <<file, record, pc, app, opened, ready, router, clock, commands,
                   landing, matching, calm, verified, faults, damages>>

\* Only time since the first too-early init tells anything, up to the budget.
Tick ==
    /\ record.stamp # NoStamp
    /\ clock < Budget
    /\ clock' = clock + 1
    /\ UNCHANGED <<file, record, pc, app, opened, ready, router, commands, world, verified, faults, damages>>

\* The operator destroys the old server once the file says so.
TearDown ==
    /\ Known(file) /\ file.latch
    /\ router # "gone"
    /\ router' = "gone"
    /\ UNCHANGED <<file, record, pc, app, opened, ready, clock, commands, world, verified, faults, damages>>

Damage ==
    /\ ~calm
    /\ Known(file)
    /\ damages < MaxDamages
    /\ damages' = damages + 1
    /\ file' = Corrupt
    /\ UNCHANGED <<record, pc, app, opened, ready, router, clock, commands, world, verified, faults>>

Service == Start \/ Wake \/ Probe \/ Fetch \/ Join \/ InstallApp \/ EnableApp
             \/ Connect \/ Drive \/ Verify

Next == \/ Service
        \/ Interrupt
        \/ StatusRead \/ StatusWrite \/ VerifyFetch \/ VerifyRead \/ VerifyWrite
        \/ Gossip \/ Arrive \/ Transact \/ Tick \/ TearDown \/ Damage

Spec == Init /\ [][Next]_vars

\* The supervisor restarts what failed, calls answer or time out, time passes,
\* a committed close gossips.  What `init` waits for may never come.
FairSpec == /\ Spec
            /\ WF_vars(Service)
            /\ WF_vars(Tick)
            /\ WF_vars(Gossip)

-----------------------------------------------------------------------------
(* Correctness. *)

Latched == Known(file) /\ file.latch

\* The old server is destroyed only when the new chain is open and was seen to hold
\* what the old one closed with, whatever was restarted, interleaved, transacted,
\* lost by the disk or reported by a `status` that read the file before.
TeardownIsSafe == router = "gone" => opened /\ verified

\* A service that ended well has opened and verified the chain, in this run or
\* an earlier one, and left the latch on a disk that works.
DoneIsVerified ==
    pc = "done" => /\ opened /\ verified
                   /\ ~DiskMayFail => Latched \/ Unreadable(file)

\* A verified migration needs neither router nor a second verify: a service that is
\* started again, the old server gone or not, the ledger moved or not, ends well.
VerifiedRestartFinishes == (calm /\ Latched /\ pc \in {"down", "failed"}) ~> pc = "done"

\* "checking the SAME value the file holds" (state_file.rs): a service that runs
\* while the latch goes up, by a `verify` command say, ends well too.
VerifiedIsFinished == (calm /\ Latched) ~> pc = "done"

\* What can be opened is, and verified unless its agent transacts first: no refusal
\* is final, and `init` finds what it needs.
Openable == /\ calm
            /\ landing = "target" /\ matching /\ ready

EventuallyOpened == Openable ~> (Latched \/ moved)

\* The service does not wait past its budget, over all its restarts: what it
\* waits for arrives or a run fails.  An app whose cell cannot be read is the
\* exception: it is a transient failure for as long as it lasts, bounded by none.
WaitsEnd == (calm /\ landing # "hidden" /\ pc = "waiting")
              ~> (ready \/ pc = "failed")

\* "every service re-probes on (re)start and resumes from the first incomplete
\* step" (probe.rs): an app left between the two calls of its install gets the
\* second one.
InstallIsResumed == app = "disabled" ~> app = "enabled"
=============================================================================
