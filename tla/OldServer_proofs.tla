-------------------------- MODULE OldServer_proofs ---------------------------
(***************************************************************************)
(* What CloseService_proofs shows of the close service alone stays true     *)
(* beside grants, the `status` command and the notary daemon, for every     *)
(* deployment; and no unit writes to a chain unless it was told to.         *)
(*                                                                         *)
(* A grant moves an open chain as the agent's own actions do, and leaves a  *)
(* closed one closed where it was: the invariant of the close service does  *)
(* not notice the difference.                                               *)
(***************************************************************************)
EXTENDS OldServer, CloseService_proofs

GateTyped ==
    /\ env \in Deployments
    /\ signing \in [Unit -> Signing]
    /\ \A u \in Unit : signing[u] \in Resolve(env[u])

CountsTyped ==
    /\ grants \in [Unit -> 0..MaxGrants]
    /\ warranted \in BOOLEAN /\ attached \in BOOLEAN
    /\ statuses \in 0..MaxStatuses

ReportTrue ==
    /\ report \in {"none", "connected", "closed", "open", "unknown"}
    /\ report = "closed" => chain.state = "closed"

SInv == IInv /\ GateTyped /\ CountsTyped /\ ReportTrue /\ GrantsAreOptedInto

\* Only an opt-in without lair resolves to grants.
LEMMA GrantIsToldTo ==
    ASSUME GateTyped, NEW u \in Unit, signing[u] = "grant"
    PROVE  ToldTo(u)
BY DEF GateTyped, Resolve, ToldTo

\* A closed chain is the end of what the close service and the agent do to it.
LEMMA ClosedStays ==
    ASSUME Attempt \/ CheckWarranted \/ Disturbance, chain.state = "closed"
    PROVE  chain' = chain
<1> USE DEF Closable
<1>1. CASE Attempt
  BY <1>1 DEF Attempt, Retry, Probe, ReadLedger, DropFees, Prepare, Check, Close,
     Committed, ConnectionLost
<1>2. CASE CheckWarranted
  BY <1>2 DEF CheckWarranted
<1>3. CASE Disturbance
  BY <1>3 DEF Disturbance, LateClose, CallFails, Disconnect, Crash, Reboot, Move
<1>4. QED
  BY <1>1, <1>2, <1>3

\* What a connect does: nothing, or a grant of a unit that was told to.
LEMMA ConnectStep ==
    ASSUME SInv, NEW u \in Unit, Connect(u)
    PROVE  /\ chain' \in [top : Nat, state : {"open", "summary", "closed"}, fees : BOOLEAN]
           /\ chain'.state = chain.state
           /\ chain.state # "open" => chain' = chain
           /\ grants' \in [Unit -> 0..MaxGrants] /\ warranted' \in BOOLEAN
           /\ UNCHANGED gate => GrantsAreOptedInto'
<1>1. CASE UNCHANGED ledger
  BY <1>1 DEF ledger, gate, SInv, IInv, TypeOK, CountsTyped, GrantsAreOptedInto, ToldTo
<1>2. CASE signing[u] = "grant" /\ Grant(u)
  <2>1. ToldTo(u)
    BY <1>2, GrantIsToldTo DEF SInv
  <2>2. grants[u] + 1 \in 0..MaxGrants /\ grants[u] + 1 > 0
    BY <1>2, OldServerAssumption DEF Grant, SInv, CountsTyped
  <2>3. /\ grants' = [grants EXCEPT ![u] = grants[u] + 1]
        /\ grants' \in [Unit -> 0..MaxGrants]
    BY <1>2, <2>2 DEF Grant, SInv, CountsTyped
  <2>4. /\ grants'[u] > 0
        /\ \A v \in Unit \ {u} : grants'[v] = grants[v]
    BY <2>2, <2>3 DEF SInv, CountsTyped
  <2>5. warranted' \in BOOLEAN /\ (warranted' => warranted \/ u \in Unit \ {"notary"})
    BY <1>2 DEF Grant, SInv, CountsTyped
  <2>6. \A v \in Unit : grants[v] > 0 => grants'[v] > 0
    BY <2>4
  <2>7. ASSUME UNCHANGED gate
        PROVE  GrantsAreOptedInto'
    <3>1. ASSUME NEW v \in Unit, grants'[v] > 0
          PROVE  ToldTo(v)'
      <4>1. ToldTo(v)
        BY <2>1, <2>4, <3>1 DEF SInv, GrantsAreOptedInto
      <4>2. QED
        BY <2>7, <4>1 DEF ToldTo, gate
    <3>2. ASSUME warranted'
          PROVE  \E v \in Unit \ {"notary"} : grants'[v] > 0
      BY <2>4, <2>5, <2>6, <3>2 DEF SInv, GrantsAreOptedInto
    <3>3. QED
      BY <3>1, <3>2 DEF GrantsAreOptedInto
  <2>8. chain.top + 1 \in Nat
    BY DEF SInv, IInv, TypeOK
  <2>9. /\ chain' \in [top : Nat, state : {"open", "summary", "closed"}, fees : BOOLEAN]
        /\ chain'.state = chain.state
        /\ chain.state # "open" => chain' = chain
    BY <1>2, <2>8 DEF Grant, SInv, IInv, TypeOK
  <2>10. QED
    BY <2>3, <2>5, <2>7, <2>9
<1>3. QED
  BY <1>1, <1>2 DEF Connect

\* The close service does not notice what a connect beside it does.
LEMMA BesideKeeps ==
    ASSUME IInv,
           chain' \in [top : Nat, state : {"open", "summary", "closed"}, fees : BOOLEAN],
           chain'.state = chain.state, chain.state # "open" => chain' = chain,
           UNCHANGED <<late, conn, pc, payload, policy, record, vouched>>,
           faults' \in Nat, file' \in Record,
           file'.closed => file.closed \/ chain.state = "closed"
    PROVE  IInv'
<1> USE DEF Running, Calls, policy
<1>1. TypeOK'
  BY DEF IInv, TypeOK
<1>2. Asked' /\ Recorded'
  BY DEF IInv, Asked, Recorded
<1>3. Vouched'
  BY EnoughStays DEF IInv, Vouched
<1>4. QED
  BY <1>1, <1>2, <1>3 DEF IInv

LEMMA FaultTyped ==
    ASSUME IInv, Fault \/ UNCHANGED faults
    PROVE  faults' \in Nat
BY DEF Fault, IInv, TypeOK

LEMMA FileTyped == IInv => file \in Record
BY DEF IInv, TypeOK

\* What the gate promised stays where nobody connects.
LEMMA GateKeeps ==
    ASSUME SInv, UNCHANGED <<gate, grants, warranted>>
    PROVE  GateTyped' /\ GrantsAreOptedInto'
BY DEF SInv, gate, GateTyped, GrantsAreOptedInto, ToldTo

-----------------------------------------------------------------------------
(* The steps. *)

LEMMA ConnectKeeps ==
    ASSUME SInv, NEW u \in Unit, Connect(u), UNCHANGED gate,
           attached' \in BOOLEAN, statuses' \in 0..MaxStatuses,
           report' \in {report, "connected", "unknown"},
           UNCHANGED <<late, conn, pc, payload, policy, record, file, vouched>>,
           Fault \/ UNCHANGED faults
    PROVE  SInv'
<1>1. IInv'
  BY ConnectStep, BesideKeeps, FaultTyped, FileTyped DEF SInv
<1>2. GateTyped' /\ CountsTyped' /\ GrantsAreOptedInto'
  BY ConnectStep DEF SInv, gate, GateTyped, CountsTyped
<1>3. ReportTrue'
  BY ConnectStep DEF SInv, ReportTrue
<1>4. QED
  BY <1>1, <1>2, <1>3 DEF SInv

LEMMA CloseConnectsStep == SInv /\ CloseConnects => SInv'
<1> SUFFICES ASSUME SInv, CloseConnects PROVE SInv'
  OBVIOUS
<1>1. /\ UNCHANGED <<late, conn, pc, payload, policy, record, file, vouched>>
      /\ UNCHANGED gate /\ UNCHANGED command
      /\ Connect("close") /\ (Fault \/ UNCHANGED faults)
      /\ attached' \in {TRUE, attached}
  BY DEF CloseConnects, Apart
<1>2. attached' \in BOOLEAN /\ statuses' \in 0..MaxStatuses /\ report' = report
  BY <1>1 DEF SInv, CountsTyped, command
<1>3. QED
  BY <1>1, <1>2, ConnectKeeps DEF Unit

LEMMA StatusConnectsStep == SInv /\ StatusConnects => SInv'
<1> SUFFICES ASSUME SInv, StatusConnects PROVE SInv'
  OBVIOUS
<1>1. /\ UNCHANGED <<late, conn, pc, payload, policy, record, file, vouched>>
      /\ UNCHANGED gate /\ UNCHANGED faults /\ UNCHANGED attached
      /\ report' \in {"connected", "unknown"}
  BY DEF StatusConnects, Apart
<1>2. attached' \in BOOLEAN /\ statuses' \in 0..MaxStatuses
  BY <1>1, OldServerAssumption DEF SInv, CountsTyped, StatusConnects
<1>3. CASE Connect("status")
  BY <1>1, <1>2, <1>3, ConnectKeeps DEF Unit
<1>4. CASE UNCHANGED ledger
  <2>1. IInv'
    BY <1>1, <1>4, BesideKeeps, FileTyped, FaultTyped DEF SInv, ledger, IInv, TypeOK
  <2>2. GateTyped' /\ GrantsAreOptedInto'
    BY <1>1, <1>4, GateKeeps DEF ledger
  <2>3. CountsTyped' /\ ReportTrue'
    BY <1>1, <1>2, <1>4 DEF SInv, CountsTyped, ReportTrue, ledger
  <2>4. QED
    BY <2>1, <2>2, <2>3 DEF SInv
<1>5. QED
  BY <1>3, <1>4 DEF StatusConnects

LEMMA NotaryConnectsStep == SInv /\ NotaryConnects => SInv'
<1> SUFFICES ASSUME SInv, NotaryConnects PROVE SInv'
  OBVIOUS
<1>1. /\ UNCHANGED <<late, conn, pc, payload, policy, record, file, vouched>>
      /\ UNCHANGED gate /\ UNCHANGED faults /\ UNCHANGED attached
      /\ UNCHANGED command /\ Connect("notary")
  BY DEF NotaryConnects, Apart
<1>2. attached' \in BOOLEAN /\ statuses' \in 0..MaxStatuses /\ report' = report
  BY <1>1 DEF SInv, CountsTyped, command
<1>3. QED
  BY <1>1, <1>2, ConnectKeeps DEF Unit

\* A step that keeps the close service's invariant and what a `status` has read.
LEMMA KeepsAll ==
    ASSUME SInv, IInv', UNCHANGED <<gate, grants, warranted, report, statuses>>,
           attached' \in BOOLEAN,
           chain.state = "closed" => chain' = chain
    PROVE  SInv'
<1>1. GateTyped' /\ GrantsAreOptedInto'
  BY GateKeeps
<1>2. CountsTyped' /\ ReportTrue'
  BY DEF SInv, CountsTyped, ReportTrue
<1>3. QED
  BY <1>1, <1>2 DEF SInv

LEMMA StartSteps == SInv /\ (CloseDies \/ CloseHasNoTarget \/ CloseStarts) => SInv'
<1> SUFFICES ASSUME SInv, CloseDies \/ CloseHasNoTarget \/ CloseStarts PROVE SInv'
  OBVIOUS
<1>1. CASE CloseDies \/ CloseHasNoTarget
  <2>1. /\ UNCHANGED <<late, conn, pc, payload, policy, record, file, vouched>>
        /\ UNCHANGED <<gate, chain, grants, warranted, report, statuses>>
        /\ attached' = FALSE /\ (Fault \/ UNCHANGED faults)
    BY <1>1 DEF CloseDies, CloseHasNoTarget, Loses, Apart, ledger, command
  <2>2. IInv'
    BY <2>1, BesideKeeps, FileTyped, FaultTyped DEF SInv, IInv, TypeOK
  <2>3. QED
    BY <2>1, <2>2, KeepsAll
<1>2. CASE CloseStarts
  <2>1. IInv'
    BY <1>2, RunStep DEF CloseStarts, SInv
  <2>2. /\ UNCHANGED <<gate, chain, grants, warranted, report, statuses>>
        /\ attached' = FALSE
    BY <1>2 DEF CloseStarts, Loses, Restart, command
  <2>3. QED
    BY <2>1, <2>2, KeepsAll
<1>3. QED
  BY <1>1, <1>2

LEMMA CheckWarrantedStep ==
    ASSUME IInv, CheckWarranted
    PROVE  IInv'
<1> USE DEF Running, Calls, policy
<1>1. HardStop /\ UNCHANGED <<policy, vouched>>
  BY DEF CheckWarranted, Checked, Refused
<1>2. /\ record' \in Record /\ file' \in Record
      /\ record'.closed = record.closed
      /\ file'.closed => file.closed \/ record.closed
  BY <1>1, PersistTyped DEF HardStop, IInv, TypeOK, Step
<1>3. TypeOK'
  BY <1>1, <1>2 DEF HardStop, CheckWarranted, IInv, TypeOK
<1>4. QED
  BY <1>1, <1>2, <1>3, QuietStep DEF HardStop, CheckWarranted

LEMMA RunSteps == SInv /\ (CloseRuns \/ Disturbed) => SInv'
<1> SUFFICES ASSUME SInv, CloseRuns \/ Disturbed PROVE SInv'
  OBVIOUS
<1>1. Attempt \/ CheckWarranted \/ Disturbance
  BY DEF CloseRuns, Disturbed
<1>2. IInv'
  <2>1. CASE Attempt
    BY <2>1, RunStep, DropFeesStep, PrepareStep, CheckStep, CloseStep, CommittedStep
       DEF SInv, Attempt
  <2>2. CASE CheckWarranted
    BY <2>2, CheckWarrantedStep DEF SInv
  <2>3. CASE Disturbance
    BY <2>3, LateCloseStep, EnvironmentStep DEF SInv, Disturbance
  <2>4. QED
    BY <1>1, <2>1, <2>2, <2>3
<1>3. /\ UNCHANGED <<gate, grants, warranted, report, statuses>>
      /\ attached' = attached
  BY DEF CloseRuns, Disturbed, command
<1>4. attached' \in BOOLEAN
  BY <1>3 DEF SInv, CountsTyped
<1>5. chain.state = "closed" => chain' = chain
  BY <1>1, ClosedStays
<1>6. QED
  BY <1>2, <1>3, <1>4, <1>5, KeepsAll

LEMMA StatusSteps == SInv /\ (StatusProbes \/ StatusWrites) => SInv'
<1> SUFFICES ASSUME SInv, StatusProbes \/ StatusWrites PROVE SInv'
  OBVIOUS
<1>1. /\ UNCHANGED <<late, conn, pc, payload, policy, record, vouched>>
      /\ UNCHANGED <<gate, chain, grants, warranted, faults, attached, statuses>>
  BY DEF StatusProbes, StatusWrites, Apart, ledger
<1>2. GateTyped' /\ GrantsAreOptedInto' /\ CountsTyped'
  BY <1>1, GateKeeps DEF SInv, CountsTyped
<1>3. CASE StatusProbes
  <2>1. IInv'
    BY <1>1, <1>3, BesideKeeps, FileTyped, FaultTyped DEF StatusProbes, SInv, IInv, TypeOK
  <2>2. ReportTrue'
    BY <1>1, <1>3 DEF StatusProbes, ClosedStatus, SInv, ReportTrue
  <2>3. QED
    BY <1>2, <2>1, <2>2 DEF SInv
<1>4. CASE StatusWrites
  <2>1. file' \in Record /\ (file'.closed => file.closed \/ chain.state = "closed")
    <3>1. CASE file' = [step |-> "probing", closed |-> report = "closed"]
      BY <3>1 DEF Record, Step, SInv, ReportTrue
    <3>2. CASE UNCHANGED file
      BY <3>2, FileTyped DEF SInv
    <3>3. QED
      BY <1>4, <3>1, <3>2 DEF StatusWrites
  <2>2. IInv'
    BY <1>1, <2>1, BesideKeeps, FaultTyped DEF SInv, IInv, TypeOK
  <2>3. ReportTrue'
    BY <1>4 DEF StatusWrites, ReportTrue
  <2>4. QED
    BY <1>2, <2>2, <2>3 DEF SInv
<1>5. QED
  BY <1>3, <1>4

LEMMA ServerInitHolds == ServerInit => SInv
<1> SUFFICES ASSUME ServerInit PROVE SInv
  OBVIOUS
<1>1. IInv
  BY InitIInv DEF ServerInit
<1>2. GateTyped /\ ReportTrue
  BY DEF ServerInit, GateTyped, ReportTrue
<1>3. 0 \in 0..MaxGrants /\ 0 \in 0..MaxStatuses /\ ~(0 > 0)
  BY OldServerAssumption
<1>4. CountsTyped /\ GrantsAreOptedInto
  BY <1>3 DEF ServerInit, CountsTyped, GrantsAreOptedInto
<1>5. QED
  BY <1>1, <1>2, <1>4 DEF SInv

-----------------------------------------------------------------------------
(* The theorems. *)

\* The invariant, of the close service, the command, the gate and the daemon.
THEOREM ServerInvariance == ServerSpec => []SInv
<1>1. SInv /\ [ServerNext]_serverVars => SInv'
  <2> SUFFICES ASSUME SInv, [ServerNext]_serverVars PROVE SInv'
    OBVIOUS
  <2>1. CASE UNCHANGED serverVars
    <3>1. /\ UNCHANGED <<late, conn, pc, payload, policy, record, file, vouched>>
          /\ UNCHANGED <<gate, chain, grants, warranted, faults, attached, report, statuses>>
      BY <2>1 DEF serverVars, vars, command
    <3>2. IInv'
      BY <3>1, BesideKeeps, FileTyped, FaultTyped DEF SInv, IInv, TypeOK
    <3>3. QED
      BY <3>1, <3>2, KeepsAll DEF SInv, CountsTyped
  <2>2. CASE ServerNext
    BY <2>1, <2>2, CloseConnectsStep, StartSteps, RunSteps, StatusConnectsStep,
       StatusSteps, NotaryConnectsStep DEF ServerNext, Rest
  <2>3. QED
    BY <2>1, <2>2
<1>2. QED
  BY <1>1, ServerInitHolds, PTL DEF ServerSpec

\* Every reachable state of the server is well typed.
THEOREM ServerTypeCorrect == ServerSpec => []ServerTypeOK
<1>1. SInv => ServerTypeOK
  BY DEF SInv, IInv, GateTyped, CountsTyped, ReportTrue, ServerTypeOK
<1>2. QED
  BY <1>1, ServerInvariance, PTL

\* Nothing is written to a chain, and no closed chain warranted, but by a unit that
\* was told to and had no lair.
THEOREM GrantsTheorem == ServerSpec => []GrantsAreOptedInto
<1>1. SInv => GrantsAreOptedInto
  BY DEF SInv
<1>2. QED
  BY <1>1, ServerInvariance, PTL

\* No file, exit or report says closed of a chain that is not.
THEOREM ReportsTheorem == ServerSpec => []ReportsAreTrue
<1>1. SInv => ReportsAreTrue
  BY DEF SInv, IInv, Recorded, ReportTrue, ReportsAreTrue
<1>2. QED
  BY <1>1, ServerInvariance, PTL

\* What is committed was approved by M notaries, though grants move the chain
\* between their approvals and the close.
THEOREM ServerApprovedTheorem == ServerSpec => []CommittedWasApproved
<1>1. SInv => CommittedWasApproved
  BY EnoughApprovers DEF SInv, IInv, Vouched, CommittedWasApproved
<1>2. QED
  BY <1>1, ServerInvariance, PTL

-----------------------------------------------------------------------------
(* A close that is committed through lair stays attestable. *)

\* What the server does beside its grants, and what it never does: the gate is passed
\* once, and a closed chain stays closed where it is.
LEMMA ServerSteps ==
    ASSUME [ServerNext]_serverVars
    PROVE  /\ UNCHANGED gate
           /\ chain.state = "closed" => chain' = chain
           /\ \/ warranted' => warranted
              \/ \E u \in {"close", "status"} : signing[u] = "grant"
<1>1. CASE UNCHANGED serverVars
  BY <1>1 DEF serverVars, vars
<1>2. ASSUME NEW u \in Unit, Connect(u)
      PROVE  /\ chain.state = "closed" => chain' = chain
             /\ \/ warranted' => warranted
                \/ u \in {"close", "status"} /\ signing[u] = "grant"
  <2>1. CASE UNCHANGED ledger
    BY <2>1 DEF ledger
  <2>2. CASE signing[u] = "grant" /\ Grant(u)
    <3>1. chain.state = "closed" => chain' = chain
      BY <2>2 DEF Grant
    <3>2. u = "notary" /\ warranted' => warranted
      BY <2>2 DEF Grant
    <3>3. QED
      BY <2>2, <3>1, <3>2 DEF Unit
  <2>3. QED
    BY <1>2, <2>1, <2>2 DEF Connect
<1>3. CASE CloseConnects \/ StatusConnects \/ NotaryConnects
  <2>1. UNCHANGED gate /\ (UNCHANGED ledger \/ \E u \in Unit : Connect(u))
    BY <1>3 DEF CloseConnects, StatusConnects, NotaryConnects, Apart, Unit
  <2>2. CASE UNCHANGED ledger
    BY <2>1, <2>2 DEF ledger
  <2>3. ASSUME NEW u \in Unit, Connect(u)
        PROVE  /\ chain.state = "closed" => chain' = chain
               /\ \/ warranted' => warranted
                  \/ \E v \in {"close", "status"} : signing[v] = "grant"
    BY <1>2, <2>3
  <2>4. QED
    BY <2>1, <2>2, <2>3
<1>4. CASE CloseDies \/ CloseHasNoTarget \/ StatusProbes \/ StatusWrites
  BY <1>4 DEF CloseDies, CloseHasNoTarget, StatusProbes, StatusWrites, Apart, ledger
<1>5. CASE CloseStarts
  BY <1>5 DEF CloseStarts, Restart
<1>6. CASE CloseRuns \/ Disturbed
  BY <1>6, ClosedStays DEF CloseRuns, Disturbed
<1>7. CASE Rest
  BY <1>1, <1>7 DEF Rest
<1>8. QED
  BY <1>1, <1>3, <1>4, <1>5, <1>6, <1>7 DEF ServerNext

\* With lair for the close service, and for `status` wherever it connects, a chain that
\* was closed is closed for good and never warranted, however often the service starts
\* again and `status` runs: the safety half of EndsAttestable.
THEOREM AttestableTheorem ==
    ServerSpec => (ThroughLair => [](chain.state = "closed"
                                       => [](chain.state = "closed" /\ ~warranted)))
<1>1. ThroughLair /\ [ServerNext]_serverVars => ThroughLair'
  BY ServerSteps DEF ThroughLair, gate
<1>2. ServerInit => ~warranted
  BY DEF ServerInit
<1>3. ThroughLair /\ ~warranted /\ [ServerNext]_serverVars => ~warranted'
  BY ServerSteps DEF ThroughLair
<1>4. chain.state = "closed" /\ [ServerNext]_serverVars => (chain.state = "closed")'
  BY ServerSteps
<1>5. QED
  BY <1>1, <1>2, <1>3, <1>4, PTL DEF ServerSpec
=============================================================================
