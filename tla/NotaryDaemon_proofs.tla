------------------------- MODULE NotaryDaemon_proofs -------------------------
(***************************************************************************)
(* What NotaryDaemon promises for any number of requests and restarts.      *)
(*                                                                         *)
(* A request replaces the connection only while nobody has attempted since  *)
(* it looked.  So what has to be carried through every step is that a       *)
(* request whose count is current looks at the present link, and that once  *)
(* it wants to replace that link, the link is failed or dead; and a dead    *)
(* connection stays dead, since a new one has a number of its own.          *)
(***************************************************************************)
EXTENDS NotaryDaemon, TLAPS

\* While it makes its call, a request has no task.
TaskInv == \A r \in Request : pc[r] \notin {"waiting", "done"} => task[r] = "none"

\* The task between its first look under the lock and its publication is the
\* holder's, and nobody else attempts meanwhile.
LockInv ==
    \A r \in Request : task[r] \in {"connecting", "connected"} =>
        holder = r /\ seen[r] = attempts

\* A count is never ahead, nor a link's number ahead of the count.
CountInv ==
    /\ link <= attempts
    /\ \A r \in Request : /\ seen[r] <= attempts
                          /\ task[r] = "connected" => found[r] <= attempts + 1

\* A current count goes with the current link.
LookInv ==
    \A r \in Request : seen[r] = attempts =>
        /\ pc[r] \in {"calling", "ran"} => using[r] = link
        /\ task[r] = "finished" => found[r] = link

\* Whoever is about to replace the current link has seen it fail.
LossInv ==
    \A r \in Request :
        (/\ task[r] \in {"queued", "connecting", "connected"}
         /\ seen[r] = attempts
         /\ link # Failed)
           => link \notin open \cap signing

IInv == TypeOK /\ TaskInv /\ LockInv /\ CountInv /\ LookInv /\ LossInv

\* The invariant holds at the start.
LEMMA InitIInv == Init => IInv
BY DEF Init, IInv, TypeOK, TaskInv, LockInv, CountInv, LookInv, LossInv, Link, Failed, Response

\* The handler of a request keeps the invariant.
LEMMA HandleStep ==
    ASSUME IInv, NEW r \in Request, Handle(r)
    PROVE  IInv'
<1>1. CASE Refuse(r)
  <2>1. TypeOK'
    BY <1>1 DEF IInv, TypeOK, Link, Failed, Response, shared, conductor,
         Refuse, Respond, Go
  <2>2. TaskInv'
    BY <1>1 DEF IInv, TypeOK, TaskInv, shared, conductor,
         Refuse, Respond, Go
  <2>3. LockInv'
    BY <1>1 DEF IInv, TypeOK, TaskInv, LockInv, shared, conductor,
         Refuse, Respond, Go
  <2>4. CountInv'
    BY <1>1 DEF IInv, TypeOK, TaskInv, LockInv, CountInv, Link, Failed, shared, conductor,
         Refuse, Respond, Go
  <2>5. LookInv'
    BY <1>1 DEF IInv, TypeOK, TaskInv, LockInv, CountInv, LookInv, Link, Failed, shared, conductor,
         Refuse, Respond, Go
  <2>6. LossInv'
    BY <1>1 DEF IInv, TypeOK, TaskInv, LockInv, CountInv, LookInv, LossInv, Link, Failed, shared, conductor,
         Refuse, Respond, Go
  <2>7. QED
    BY <2>1, <2>2, <2>3, <2>4, <2>5, <2>6 DEF IInv
<1>2. CASE LookOpen(r)
  <2>1. TypeOK'
    BY <1>2 DEF IInv, TypeOK, Link, Failed, Response, shared, conductor,
         LookOpen, Go
  <2>2. TaskInv'
    BY <1>2 DEF IInv, TypeOK, TaskInv, shared, conductor,
         LookOpen, Go
  <2>3. LockInv'
    BY <1>2 DEF IInv, TypeOK, TaskInv, LockInv, shared, conductor,
         LookOpen, Go
  <2>4. CountInv'
    BY <1>2 DEF IInv, TypeOK, TaskInv, LockInv, CountInv, Link, Failed, shared, conductor,
         LookOpen, Go
  <2>5. LookInv'
    BY <1>2 DEF IInv, TypeOK, TaskInv, LockInv, CountInv, LookInv, Link, Failed, shared, conductor,
         LookOpen, Go
  <2>6. LossInv'
    BY <1>2 DEF IInv, TypeOK, TaskInv, LockInv, CountInv, LookInv, LossInv, Link, Failed, shared, conductor,
         LookOpen, Go
  <2>7. QED
    BY <2>1, <2>2, <2>3, <2>4, <2>5, <2>6 DEF IInv
<1>3. CASE LookFailed(r)
  <2>1. TypeOK'
    BY <1>3 DEF IInv, TypeOK, Link, Failed, Response, shared, conductor,
         LookFailed, Reconnect, Go
  <2>2. TaskInv'
    BY <1>3 DEF IInv, TypeOK, TaskInv, shared, conductor,
         LookFailed, Reconnect, Go
  <2>3. LockInv'
    BY <1>3 DEF IInv, TypeOK, TaskInv, LockInv, shared, conductor,
         LookFailed, Reconnect, Go
  <2>4. CountInv'
    BY <1>3 DEF IInv, TypeOK, TaskInv, LockInv, CountInv, Link, Failed, shared, conductor,
         LookFailed, Reconnect, Go
  <2>5. LookInv'
    BY <1>3 DEF IInv, TypeOK, TaskInv, LockInv, CountInv, LookInv, Link, Failed, shared, conductor,
         LookFailed, Reconnect, Go
  <2>6. LossInv'
    BY <1>3 DEF IInv, TypeOK, TaskInv, LockInv, CountInv, LookInv, LossInv, Link, Failed, shared, conductor,
         LookFailed, Reconnect, Go
  <2>7. QED
    BY <2>1, <2>2, <2>3, <2>4, <2>5, <2>6 DEF IInv
<1>4. CASE Run(r)
  <2>1. TypeOK'
    <3>1. ran' \in [Request -> Nat]
      BY <1>4 DEF IInv, TypeOK, Run
    <3>2. QED
      BY <1>4, <3>1 DEF IInv, TypeOK, Link, Failed, Response, shared, conductor,
         Run, Go
  <2>2. TaskInv'
    BY <1>4 DEF IInv, TypeOK, TaskInv, shared, conductor,
         Run, Go
  <2>3. LockInv'
    BY <1>4 DEF IInv, TypeOK, TaskInv, LockInv, shared, conductor,
         Run, Go
  <2>4. CountInv'
    BY <1>4 DEF IInv, TypeOK, TaskInv, LockInv, CountInv, Link, Failed, shared, conductor,
         Run, Go
  <2>5. LookInv'
    BY <1>4 DEF IInv, TypeOK, TaskInv, LockInv, CountInv, LookInv, Link, Failed, shared, conductor,
         Run, Go
  <2>6. LossInv'
    BY <1>4 DEF IInv, TypeOK, TaskInv, LockInv, CountInv, LookInv, LossInv, Link, Failed, shared, conductor,
         Run, Go
  <2>7. QED
    BY <2>1, <2>2, <2>3, <2>4, <2>5, <2>6 DEF IInv
<1>5. CASE Answer(r)
  <2>1. TypeOK'
    <3>1. response' \in [Request -> Response]
      BY <1>5, DaemonAssumption DEF IInv, TypeOK, Answer, Respond, Go, Response
    <3>2. QED
      BY <1>5, <3>1 DEF IInv, TypeOK, Link, Failed, shared, conductor,
         Answer, Respond, Go
  <2>2. TaskInv'
    BY <1>5 DEF IInv, TypeOK, TaskInv, shared, conductor,
         Answer, Respond, Go
  <2>3. LockInv'
    BY <1>5 DEF IInv, TypeOK, TaskInv, LockInv, shared, conductor,
         Answer, Respond, Go
  <2>4. CountInv'
    BY <1>5 DEF IInv, TypeOK, TaskInv, LockInv, CountInv, Link, Failed, shared, conductor,
         Answer, Respond, Go
  <2>5. LookInv'
    BY <1>5 DEF IInv, TypeOK, TaskInv, LockInv, CountInv, LookInv, Link, Failed, shared, conductor,
         Answer, Respond, Go
  <2>6. LossInv'
    BY <1>5 DEF IInv, TypeOK, TaskInv, LockInv, CountInv, LookInv, LossInv, Link, Failed, shared, conductor,
         Answer, Respond, Go
  <2>7. QED
    BY <2>1, <2>2, <2>3, <2>4, <2>5, <2>6 DEF IInv
<1>6. CASE Fail(r)
  <2>1. TypeOK'
    BY <1>6 DEF IInv, TypeOK, Link, Failed, Response, shared, conductor,
         Fail, Respond, Failure, Go
  <2>2. TaskInv'
    BY <1>6 DEF IInv, TypeOK, TaskInv, shared, conductor,
         Fail, Respond, Failure, Go
  <2>3. LockInv'
    BY <1>6 DEF IInv, TypeOK, TaskInv, LockInv, shared, conductor,
         Fail, Respond, Failure, Go
  <2>4. CountInv'
    BY <1>6 DEF IInv, TypeOK, TaskInv, LockInv, CountInv, Link, Failed, shared, conductor,
         Fail, Respond, Failure, Go
  <2>5. LookInv'
    BY <1>6 DEF IInv, TypeOK, TaskInv, LockInv, CountInv, LookInv, Link, Failed, shared, conductor,
         Fail, Respond, Failure, Go
  <2>6. LossInv'
    BY <1>6 DEF IInv, TypeOK, TaskInv, LockInv, CountInv, LookInv, LossInv, Link, Failed, shared, conductor,
         Fail, Respond, Failure, Go
  <2>7. QED
    BY <2>1, <2>2, <2>3, <2>4, <2>5, <2>6 DEF IInv
<1>7. CASE Lose(r)
  <2>1. TypeOK'
    BY <1>7 DEF IInv, TypeOK, Link, Failed, Response, shared, conductor,
         Lose, Usable, Reconnect, Go
  <2>2. TaskInv'
    BY <1>7 DEF IInv, TypeOK, TaskInv, shared, conductor,
         Lose, Usable, Reconnect, Go
  <2>3. LockInv'
    BY <1>7 DEF IInv, TypeOK, TaskInv, LockInv, shared, conductor,
         Lose, Usable, Reconnect, Go
  <2>4. CountInv'
    BY <1>7 DEF IInv, TypeOK, TaskInv, LockInv, CountInv, Link, Failed, shared, conductor,
         Lose, Usable, Reconnect, Go
  <2>5. LookInv'
    BY <1>7 DEF IInv, TypeOK, TaskInv, LockInv, CountInv, LookInv, Link, Failed, shared, conductor,
         Lose, Usable, Reconnect, Go
  <2>6. LossInv'
    BY <1>7 DEF IInv, TypeOK, TaskInv, LockInv, CountInv, LookInv, LossInv, Link, Failed, shared, conductor,
         Lose, Usable, Reconnect, Go
  <2>7. QED
    BY <2>1, <2>2, <2>3, <2>4, <2>5, <2>6 DEF IInv
<1>8. CASE Resume(r)
  <2>1. TypeOK'
    BY <1>8 DEF IInv, TypeOK, Link, Failed, Response, shared, conductor,
         Resume, Respond, Failure, Go
  <2>2. TaskInv'
    BY <1>8 DEF IInv, TypeOK, TaskInv, shared, conductor,
         Resume, Respond, Failure, Go
  <2>3. LockInv'
    BY <1>8 DEF IInv, TypeOK, TaskInv, LockInv, shared, conductor,
         Resume, Respond, Failure, Go
  <2>4. CountInv'
    BY <1>8 DEF IInv, TypeOK, TaskInv, LockInv, CountInv, Link, Failed, shared, conductor,
         Resume, Respond, Failure, Go
  <2>5. LookInv'
    BY <1>8 DEF IInv, TypeOK, TaskInv, LockInv, CountInv, LookInv, Link, Failed, shared, conductor,
         Resume, Respond, Failure, Go
  <2>6. LossInv'
    BY <1>8 DEF IInv, TypeOK, TaskInv, LockInv, CountInv, LookInv, LossInv, Link, Failed, shared, conductor,
         Resume, Respond, Failure, Go
  <2>7. QED
    BY <2>1, <2>2, <2>3, <2>4, <2>5, <2>6 DEF IInv
<1>9. QED
  BY <1>1, <1>2, <1>3, <1>4, <1>5, <1>6, <1>7, <1>8 DEF Handle

\* So does its reconnect task.
LEMMA AttemptStep ==
    ASSUME IInv, NEW r \in Request, Attempt(r)
    PROVE  IInv'
<1>1. CASE Learn(r)
  <2>1. TypeOK'
    BY <1>1 DEF IInv, TypeOK, Link, Failed, Response, shared, conductor,
         Learn, AttemptedMeanwhile
  <2>2. TaskInv'
    BY <1>1 DEF IInv, TypeOK, TaskInv, shared, conductor,
         Learn, AttemptedMeanwhile
  <2>3. LockInv'
    BY <1>1 DEF IInv, TypeOK, TaskInv, LockInv, shared, conductor,
         Learn, AttemptedMeanwhile
  <2>4. CountInv'
    BY <1>1 DEF IInv, TypeOK, TaskInv, LockInv, CountInv, Link, Failed, shared, conductor,
         Learn, AttemptedMeanwhile
  <2>5. LookInv'
    BY <1>1 DEF IInv, TypeOK, TaskInv, LockInv, CountInv, LookInv, Link, Failed, shared, conductor,
         Learn, AttemptedMeanwhile
  <2>6. LossInv'
    BY <1>1 DEF IInv, TypeOK, TaskInv, LockInv, CountInv, LookInv, LossInv, Link, Failed, shared, conductor,
         Learn, AttemptedMeanwhile
  <2>7. QED
    BY <2>1, <2>2, <2>3, <2>4, <2>5, <2>6 DEF IInv
<1>2. CASE StartAttempt(r)
  <2>1. TypeOK'
    BY <1>2 DEF IInv, TypeOK, Link, Failed, Response, shared, conductor,
         StartAttempt, AttemptedMeanwhile
  <2>2. TaskInv'
    BY <1>2 DEF IInv, TypeOK, TaskInv, shared, conductor,
         StartAttempt, AttemptedMeanwhile
  <2>3. LockInv'
    BY <1>2, DaemonAssumption DEF IInv, TypeOK, TaskInv, LockInv, shared, conductor,
         StartAttempt, AttemptedMeanwhile
  <2>4. CountInv'
    BY <1>2 DEF IInv, TypeOK, TaskInv, LockInv, CountInv, Link, Failed, shared, conductor,
         StartAttempt, AttemptedMeanwhile
  <2>5. LookInv'
    BY <1>2 DEF IInv, TypeOK, TaskInv, LockInv, CountInv, LookInv, Link, Failed, shared, conductor,
         StartAttempt, AttemptedMeanwhile
  <2>6. LossInv'
    BY <1>2 DEF IInv, TypeOK, TaskInv, LockInv, CountInv, LookInv, LossInv, Link, Failed, shared, conductor,
         StartAttempt, AttemptedMeanwhile
  <2>7. QED
    BY <2>1, <2>2, <2>3, <2>4, <2>5, <2>6 DEF IInv
<1>3. CASE Connect(r)
  <2>1. TypeOK'
    <3>1. attempts + 1 \in Nat
      BY DEF IInv, TypeOK
    <3>2. /\ open' \subseteq Nat
          /\ signing' \subseteq Nat
          /\ found' \in [Request -> Link]
      BY <1>3, <3>1 DEF IInv, TypeOK, Link, Connect
    <3>3. QED
      BY <1>3, <3>2 DEF IInv, TypeOK, shared, Connect
  <2>2. TaskInv'
    BY <1>3 DEF IInv, TypeOK, TaskInv, shared, conductor,
         Connect
  <2>3. LockInv'
    BY <1>3 DEF IInv, TypeOK, TaskInv, LockInv, shared, conductor,
         Connect
  <2>4. CountInv'
    BY <1>3 DEF IInv, TypeOK, TaskInv, LockInv, CountInv, Link, Failed, shared, conductor,
         Connect
  <2>5. LookInv'
    BY <1>3 DEF IInv, TypeOK, TaskInv, LockInv, CountInv, LookInv, Link, Failed, shared, conductor,
         Connect
  <2>6. LossInv'
    BY <1>3 DEF IInv, TypeOK, TaskInv, LockInv, CountInv, LookInv, LossInv, Link, Failed, shared, conductor,
         Connect
  <2>7. QED
    BY <2>1, <2>2, <2>3, <2>4, <2>5, <2>6 DEF IInv
<1>4. CASE Publish(r)
  <2>1. TypeOK'
    <3>1. attempts + 1 \in Nat
      BY DEF IInv, TypeOK
    <3>2. QED
      BY <1>4, <3>1 DEF IInv, TypeOK, Link, conductor, Publish
  <2>2. TaskInv'
    BY <1>4 DEF IInv, TypeOK, TaskInv, shared, conductor,
         Publish
  <2>3. LockInv'
    BY <1>4 DEF IInv, TypeOK, TaskInv, LockInv, shared, conductor,
         Publish
  <2>4. CountInv'
    BY <1>4 DEF IInv, TypeOK, TaskInv, LockInv, CountInv, Link, Failed, shared, conductor,
         Publish
  <2>5. LookInv'
    BY <1>4 DEF IInv, TypeOK, TaskInv, LockInv, CountInv, LookInv, Link, Failed, shared, conductor,
         Publish
  <2>6. LossInv'
    BY <1>4 DEF IInv, TypeOK, TaskInv, LockInv, CountInv, LookInv, LossInv, Link, Failed, shared, conductor,
         Publish
  <2>7. QED
    BY <2>1, <2>2, <2>3, <2>4, <2>5, <2>6 DEF IInv
<1>5. QED
  BY <1>1, <1>2, <1>3, <1>4 DEF Attempt

\* A client that gives up, the conductor and lair keep it too: a connection
\* they close stays closed.
LEMMA EnvironmentStep ==
    ASSUME IInv, (\E r \in Request : GiveUp(r)) \/ Stop \/ Start \/ LairRestart
    PROVE  IInv'
<1>1. CASE \E r \in Request : GiveUp(r)
  <2> PICK r \in Request : GiveUp(r)
    BY <1>1
  <2>1. TypeOK'
    BY DEF IInv, TypeOK, Response, GiveUp, Respond, Go, shared, conductor
  <2>2. TaskInv' /\ LockInv' /\ CountInv' /\ LookInv' /\ LossInv'
    BY DEF IInv, TypeOK, TaskInv, LockInv, CountInv, LookInv, LossInv, Link,
           GiveUp, Respond, Go, shared, conductor
  <2>3. QED
    BY <2>1, <2>2 DEF IInv
<1>2. CASE Stop \/ Start \/ LairRestart
  <2>1. TypeOK'
    <3>1. disruptions' \in Nat
      BY <1>2 DEF IInv, TypeOK, Stop, Start, LairRestart
    <3>2. QED
      BY <1>2, <3>1 DEF IInv, TypeOK, Stop, Start, LairRestart, shared
  <2>2. TaskInv' /\ LockInv' /\ CountInv' /\ LookInv' /\ LossInv'
    BY <1>2 DEF IInv, TypeOK, TaskInv, LockInv, CountInv, LookInv, LossInv, Link,
                Stop, Start, LairRestart, shared
  <2>3. QED
    BY <2>1, <2>2 DEF IInv
<1>3. QED
  BY <1>1, <1>2

\* The inductive invariant holds of every behaviour.
THEOREM Invariance == Spec => []IInv
<1>1. IInv /\ [Next]_vars => IInv'
  <2> SUFFICES ASSUME IInv, [Next]_vars PROVE IInv'
    OBVIOUS
  <2>1. CASE UNCHANGED vars
    BY <2>1 DEF vars, IInv, TypeOK, TaskInv, LockInv, CountInv, LookInv, LossInv
  <2>2. CASE Idle
    BY <2>1, <2>2 DEF Idle, vars, IInv, TypeOK, TaskInv, LockInv, CountInv, LookInv, LossInv
  <2>3. CASE \E r \in Request : Handle(r) \/ Attempt(r)
    BY <2>3, HandleStep, AttemptStep
  <2>4. CASE (\E r \in Request : GiveUp(r)) \/ Stop \/ Start \/ LairRestart
    BY <2>4, EnvironmentStep
  <2>5. QED
    BY <2>1, <2>2, <2>3, <2>4 DEF Next
<1>2. QED
  BY <1>1, InitIInv, PTL DEF Spec

\* Every reachable state is well typed.
THEOREM TypeCorrect == Spec => []TypeOK
<1>1. IInv => TypeOK
  BY DEF IInv
<1>2. QED
  BY <1>1, Invariance, PTL

\* A working connection is never replaced, however many requests notice a loss
\* and in whatever order their tasks get the lock.
THEOREM GoodConnectionsTheorem == Spec => GoodConnectionsAreKept
<1>1. IInv /\ [Next]_vars =>
        [link # Failed /\ link' # link => link \notin open \cap signing]_vars
  <2> SUFFICES ASSUME IInv, Next, link # Failed, link' # link
               PROVE  link \notin open \cap signing
    OBVIOUS
  <2>1. PICK r \in Request : Publish(r)
    BY DEF Next, Handle, Attempt, Idle, vars, shared, Refuse, LookOpen, LookFailed, Run,
           Answer, Fail, Lose, Resume, GiveUp, Learn, StartAttempt, Connect, Stop, Start,
           LairRestart
  <2>2. task[r] = "connected" /\ seen[r] = attempts
    BY <2>1 DEF Publish, IInv, LockInv
  <2>3. QED
    BY <2>2 DEF IInv, LossInv
<1>2. QED
  BY <1>1, Invariance, PTL DEF Spec, GoodConnectionsAreKept
-----------------------------------------------------------------------------
(* Calls that ran.  What a request may count on is where it stands: a call  *)
(* it is about to make has not run, and one it lost is not made again.      *)

RanInv ==
    \A r \in Request :
        /\ pc[r] \in {"ready", "calling"} => ran[r] = step[r]
        /\ pc[r] = "ran" => ran[r] = step[r] + 1
        /\ pc[r] \in {"waiting", "done"} => ran[r] <= step[r] + 1
        /\ pc[r] = "waiting" /\ ~lost[r] => ran[r] = step[r]
        /\ pc[r] # "done" => response[r] = "none"
        /\ response[r] \in ZomeAnswer \cup {"ok"} => ran[r] = step[r] + 1

\* The handler of a request keeps it.
LEMMA RanHandleStep ==
    ASSUME TypeOK, RanInv, NEW r \in Request, Handle(r)
    PROVE  RanInv'
<1> SUFFICES ASSUME NEW s \in Request
             PROVE  /\ pc'[s] \in {"ready", "calling"} => ran'[s] = step'[s]
                    /\ pc'[s] = "ran" => ran'[s] = step'[s] + 1
                    /\ pc'[s] \in {"waiting", "done"} => ran'[s] <= step'[s] + 1
                    /\ pc'[s] = "waiting" /\ ~lost'[s] => ran'[s] = step'[s]
                    /\ pc'[s] # "done" => response'[s] = "none"
                    /\ response'[s] \in ZomeAnswer \cup {"ok"} => ran'[s] = step'[s] + 1
  BY DEF RanInv
<1>0. ran[s] \in Nat /\ step[s] \in 0..1
  BY DEF TypeOK
<1>1. CASE Refuse(r)
  BY <1>0, <1>1 DEF RanInv, TypeOK, ZomeAnswer, Refuse, Respond, Go, shared, conductor
<1>2. CASE LookOpen(r)
  BY <1>0, <1>2 DEF RanInv, TypeOK, ZomeAnswer, LookOpen, Go, shared, conductor
<1>3. CASE LookFailed(r)
  BY <1>0, <1>3 DEF RanInv, TypeOK, ZomeAnswer, LookFailed, Reconnect, Go, shared, conductor
<1>4. CASE Run(r)
  BY <1>0, <1>4 DEF RanInv, TypeOK, ZomeAnswer, Run, Go, shared, conductor
<1>5. CASE Answer(r)
  BY <1>0, <1>5 DEF RanInv, TypeOK, ZomeAnswer, Answer, Respond, Go, shared, conductor
<1>6. CASE Fail(r)
  <2>1. Failure(r) \notin ZomeAnswer \cup {"ok"}
    BY DEF Failure, ZomeAnswer
  <2>2. QED
    BY <1>0, <1>6, <2>1 DEF RanInv, TypeOK, Fail, Respond, Go, shared, conductor
<1>7. CASE Lose(r)
  BY <1>0, <1>7 DEF RanInv, TypeOK, ZomeAnswer, Lose, Reconnect, Go, shared, conductor
<1>8. CASE Resume(r)
  BY <1>0, <1>8 DEF RanInv, TypeOK, ZomeAnswer, Resume, Respond, Failure, Go, shared, conductor
<1>9. QED
  BY <1>1, <1>2, <1>3, <1>4, <1>5, <1>6, <1>7, <1>8 DEF Handle

\* It holds of every behaviour.
THEOREM RanInvariance == Spec => []RanInv
<1>1. Init => RanInv
  BY DEF Init, RanInv, ZomeAnswer
<1>2. TypeOK /\ RanInv /\ [Next]_vars => RanInv'
  <2> SUFFICES ASSUME TypeOK, RanInv, [Next]_vars PROVE RanInv'
    OBVIOUS
  <2>1. CASE UNCHANGED vars \/ Idle
    BY <2>1 DEF Idle, vars, RanInv
  <2>2. CASE \E r \in Request : Handle(r)
    BY <2>2, RanHandleStep
  <2>3. CASE \E r \in Request : GiveUp(r)
    <3> PICK r \in Request : GiveUp(r)
      BY <2>3
    <3>1. /\ response' = [response EXCEPT ![r] = "gone"]
          /\ pc' = [pc EXCEPT ![r] = "done"]
          /\ pc[r] # "done"
          /\ UNCHANGED <<ran, step, lost>>
      BY DEF GiveUp, Respond, Go
    <3>2. \A s \in Request : ran[s] \in Nat /\ step[s] \in 0..1
      BY DEF TypeOK
    <3>3. ran[r] <= step[r] + 1
      <4>1. pc[r] \in {"ready", "calling", "ran", "waiting"}
        BY <3>1 DEF TypeOK
      <4>2. QED
        BY <3>2, <4>1 DEF RanInv
    <3>4. QED
      BY <3>1, <3>2, <3>3 DEF RanInv, TypeOK, ZomeAnswer
  <2>4. CASE (\E r \in Request : Attempt(r)) \/ Stop \/ Start \/ LairRestart
    <3>1. UNCHANGED <<pc, ran, step, lost, response>>
      BY <2>4 DEF Attempt, Learn, StartAttempt, Connect, Publish, Stop, Start,
                  LairRestart, shared, conductor
    <3>2. QED
      BY <3>1 DEF RanInv
  <2>5. QED
    BY <2>1, <2>2, <2>3, <2>4 DEF Next
<1>3. QED
  BY <1>1, <1>2, TypeCorrect, PTL DEF Spec

\* For any number of requests and restarts, and whatever connections they lose, no
\* call of a request runs twice, and an answer is that of a call that ran.
THEOREM CallsTheorem == Spec => []CallsRunOnce
<1>1. TypeOK /\ RanInv => CallsRunOnce
  <2> SUFFICES ASSUME TypeOK, RanInv, NEW r \in Request
               PROVE  /\ ran[r] <= step[r] + 1
                      /\ pc[r] = "ready" => ran[r] = step[r]
                      /\ response[r] \in ZomeAnswer \cup {"ok"} => ran[r] = step[r] + 1
    BY DEF CallsRunOnce
  <2>1. ran[r] \in Nat /\ step[r] \in 0..1
        /\ pc[r] \in {"ready", "calling", "ran", "waiting", "done"}
    BY DEF TypeOK
  <2>2. QED
    BY <2>1 DEF RanInv
<1>2. QED
  BY <1>1, TypeCorrect, RanInvariance, PTL

-----------------------------------------------------------------------------
(* How far a request is.  Its handler only goes on.                          *)

\* The places of a handler in their order; ten is past them all.
Rank(r) ==
    IF pc[r] = "done" THEN 10
    ELSE 5 * step[r] + (CASE pc[r] = "ready" -> 0
                          [] pc[r] = "waiting" -> IF lost[r] THEN 4 ELSE 1
                          [] pc[r] = "calling" -> 2
                          [] OTHER -> 3)

\* The handlers that move go on, and the others stay where they are.
HandlersAdvance ==
    \A r \in Request : /\ Rank(r)' >= Rank(r)
                       /\ pc'[r] # pc[r] => Rank(r)' > Rank(r)

\* One handler that moves forward is enough.
LEMMA OneAdvances ==
    ASSUME TypeOK, TypeOK', NEW r \in Request, Rank(r)' > Rank(r),
           \A q \in Request \ {r} : pc'[q] = pc[q] /\ step'[q] = step[q] /\ lost'[q] = lost[q]
    PROVE  HandlersAdvance
<1>1. \A q \in Request : Rank(q) \in Nat
  BY DEF TypeOK, Rank
<1>2. \A q \in Request \ {r} : Rank(q)' = Rank(q)
  BY DEF Rank
<1>3. Rank(r) \in Nat /\ Rank(r)' >= Rank(r)
  <2>1. Rank(r)' \in Int
    <3>1. step'[r] \in 0..1 /\ pc'[r] \in {"ready", "calling", "ran", "waiting", "done"}
      BY DEF TypeOK
    <3>2. QED
      BY <3>1 DEF Rank
  <2>2. QED
    BY <1>1, <2>1
<1>4. QED
  BY <1>1, <1>2, <1>3 DEF HandlersAdvance

\* No handler goes back, whatever connections are lost: with each of its steps
\* it is further, so that it is answered after at most ten of them.
THEOREM AdvanceTheorem == Spec => [][HandlersAdvance]_vars
<1>1. TypeOK /\ TypeOK' /\ [Next]_vars => [HandlersAdvance]_vars
  <2> SUFFICES ASSUME TypeOK, TypeOK', Next PROVE HandlersAdvance \/ UNCHANGED vars
    OBVIOUS
  <2>0. \A q \in Request : Rank(q) \in Nat
    BY DEF TypeOK, Rank
  <2>1. ASSUME UNCHANGED <<pc, step, lost>> PROVE HandlersAdvance
    <3>1. \A q \in Request : Rank(q)' = Rank(q)
      BY <2>1 DEF Rank
    <3>2. QED
      BY <2>0, <2>1, <3>1 DEF HandlersAdvance
  <2>2. ASSUME NEW r \in Request, GiveUp(r) PROVE HandlersAdvance
    <3>1. Rank(r)' > Rank(r)
      BY <2>2 DEF GiveUp, Respond, Go, Rank, TypeOK
    <3>2. \A q \in Request \ {r} : pc'[q] = pc[q] /\ step'[q] = step[q] /\ lost'[q] = lost[q]
      BY <2>2 DEF GiveUp, Respond, Go, TypeOK
    <3>3. QED
      BY <3>1, <3>2, OneAdvances
  <2>3. ASSUME NEW r \in Request, Handle(r) PROVE HandlersAdvance
    <3>1. \A q \in Request \ {r} : pc'[q] = pc[q] /\ step'[q] = step[q] /\ lost'[q] = lost[q]
      BY <2>3 DEF Handle, Refuse, LookOpen, LookFailed, Run, Answer, Fail, Lose, Resume,
                  Reconnect, Respond, Go, TypeOK
    <3>2. Rank(r)' > Rank(r)
      <4>0. step[r] \in 0..1
        BY DEF TypeOK
      <4>1. CASE Refuse(r) \/ Fail(r)
        BY <4>0, <4>1 DEF Refuse, Fail, Respond, Go, Rank, TypeOK
      <4>2. CASE LookOpen(r) \/ Run(r)
        BY <4>0, <4>2 DEF LookOpen, Run, Go, Rank, TypeOK
      <4>3. CASE LookFailed(r) \/ Lose(r)
        BY <4>0, <4>3 DEF LookFailed, Lose, Reconnect, Go, Rank, TypeOK
      <4>4. CASE Answer(r)
        BY <4>0, <4>4 DEF Answer, Respond, Go, Rank, TypeOK
      <4>5. CASE Resume(r)
        BY <4>0, <4>5 DEF Resume, Respond, Go, Rank, TypeOK
      <4>6. QED
        BY <2>3, <4>1, <4>2, <4>3, <4>4, <4>5 DEF Handle
    <3>3. QED
      BY <3>1, <3>2, OneAdvances
  <2>4. ASSUME (\E r \in Request : Attempt(r)) \/ Stop \/ Start \/ LairRestart
        PROVE  UNCHANGED <<pc, step, lost>>
    BY <2>4 DEF Attempt, Learn, StartAttempt, Connect, Publish, Stop, Start,
                LairRestart, shared, conductor
  <2>5. QED
    BY <2>1, <2>2, <2>3, <2>4 DEF Next, Idle
<1>2. QED
  BY <1>1, TypeCorrect, PTL DEF Spec

-----------------------------------------------------------------------------
(* After the recovery.  From then on a connection that works stays, a       *)
(* connect succeeds, and a request that starts holds one or gets one.       *)

\* The conductor stays up, and the link works or is known not to.
Healed ==
    /\ ~flaky /\ "not_a_closing_notary" \notin ZomeAnswers
    /\ up
    /\ disruptions = MaxDisruptions
    /\ link = Failed \/ link \in open \cap signing
    /\ \A q \in Request : task[q] = "connected" => found[q] \in open \cap signing

\* Where a request that started under such a link is.
OnItsWay(r) ==
    /\ pc[r] \in {"calling", "ran"} => using[r] \in open \cap signing
    /\ pc[r] = "waiting" =>
          /\ ~lost[r]
          /\ task[r] = "queued" /\ seen[r] # attempts => link # Failed
          /\ task[r] = "finished" => found[r] \in open \cap signing
    /\ IF pc[r] = "done" THEN Served(r) ELSE response[r] = "none"

LEMMA HealedStays ==
    ASSUME IInv, Healed, [Next]_vars
    PROVE  Healed' /\ open \subseteq open' /\ signing \subseteq signing'
<1>1. CASE UNCHANGED <<shared, conductor, task, found>>
  BY <1>1 DEF Healed, shared, conductor
<1>2. CASE UNCHANGED vars
  BY <1>1, <1>2 DEF vars, shared, conductor
<1>3. ~Stop /\ ~Start /\ ~LairRestart
  <2>1. disruptions = MaxDisruptions /\ MaxDisruptions \in Nat /\ up
    BY DaemonAssumption DEF Healed
  <2>2. ~(disruptions < MaxDisruptions)
    BY <2>1
  <2>3. QED
    BY <2>1, <2>2 DEF Stop, Start, LairRestart
<1>4. ASSUME NEW r \in Request, Handle(r)
      PROVE  /\ UNCHANGED <<shared, conductor, found>>
             /\ \A q \in Request : task'[q] = "connected" => task[q] = "connected"
  BY <1>4 DEF Handle, Refuse, LookOpen, LookFailed, Run, Answer, Fail, Lose, Resume,
              Reconnect, IInv, TypeOK
<1>5. ASSUME NEW r \in Request, Handle(r)
      PROVE  Healed' /\ open \subseteq open' /\ signing \subseteq signing'
  BY <1>4, <1>5 DEF Healed, shared, conductor
<1>6. ASSUME NEW r \in Request, GiveUp(r)
      PROVE  Healed' /\ open \subseteq open' /\ signing \subseteq signing'
  BY <1>1, <1>6 DEF GiveUp, shared, conductor
<1>7. ASSUME NEW r \in Request, Attempt(r)
      PROVE  Healed' /\ open \subseteq open' /\ signing \subseteq signing'
  <2>1. CASE Learn(r) \/ StartAttempt(r)
    <3>1. /\ UNCHANGED <<link, conductor>>
          /\ \A q \in Request : task'[q] = "connected" =>
                task[q] = "connected" /\ found'[q] = found[q]
      BY <2>1 DEF Learn, StartAttempt, shared, IInv, TypeOK
    <3>2. QED
      BY <3>1 DEF Healed, conductor
  <2>2. CASE Connect(r)
    <3>1. /\ found' = [found EXCEPT ![r] = attempts + 1]
          /\ open' = open \cup {attempts + 1} /\ signing' = signing \cup {attempts + 1}
          /\ UNCHANGED <<shared, up, disruptions, flaky>>
      BY <2>2 DEF Connect, Healed
    <3>2. task' = [task EXCEPT ![r] = "connected"]
      BY <2>2 DEF Connect
    <3>3. QED
      BY <3>1, <3>2 DEF Healed, shared, IInv, TypeOK
  <2>3. CASE Publish(r)
    <3>1. /\ task[r] = "connected" /\ link' = found[r]
          /\ task' = [task EXCEPT ![r] = "finished"]
          /\ UNCHANGED <<found, conductor>>
      BY <2>3 DEF Publish
    <3>2. QED
      BY <3>1 DEF Healed, conductor, IInv, TypeOK
  <2>4. QED
    BY <1>7, <2>1, <2>2, <2>3 DEF Attempt
<1>8. QED
  BY <1>1, <1>2, <1>3, <1>5, <1>6, <1>7 DEF Next, Idle

\* A working link stays: a link that works is not Failed, which is no number.
LEMMA OnItsWayStays ==
    ASSUME IInv, Healed, [Next]_vars, NEW r \in Request, OnItsWay(r)
    PROVE  OnItsWay(r)'
<1>0. open \subseteq open' /\ signing \subseteq signing'
  BY HealedStays
<1>1. CASE UNCHANGED vars
  BY <1>1 DEF vars, OnItsWay, Served
<1>2. ASSUME UNCHANGED <<link, attempts, pc, using, lost, response, seen, task, found>>
      PROVE  OnItsWay(r)'
  BY <1>0, <1>2 DEF OnItsWay, Served
<1>3. ASSUME NEW q \in Request, q # r, Handle(q) \/ GiveUp(q) PROVE OnItsWay(r)'
  <2>1. /\ UNCHANGED <<link, attempts, found>>
        /\ pc'[r] = pc[r] /\ using'[r] = using[r] /\ lost'[r] = lost[r]
        /\ response'[r] = response[r] /\ seen'[r] = seen[r] /\ task'[r] = task[r]
    BY <1>3 DEF Handle, GiveUp, Refuse, LookOpen, LookFailed, Run, Answer, Fail, Lose, Resume,
                Reconnect, Respond, Go, shared, conductor, IInv, TypeOK
  <2>2. QED
    BY <1>0, <2>1 DEF OnItsWay, Served
<1>4. CASE GiveUp(r)
  <2>1. pc'[r] = "done" /\ response'[r] = "gone"
    BY <1>4 DEF GiveUp, Respond, Go, IInv, TypeOK
  <2>2. QED
    BY <2>1 DEF OnItsWay, Served
<1>5. CASE Handle(r)
  <2>1. CASE Refuse(r)
    <3>1. pc'[r] = "done" /\ response'[r] \in {"auth_failed", "bad_request"}
      BY <2>1 DEF Refuse, Respond, Go, IInv, TypeOK
    <3>2. QED
      BY <3>1 DEF OnItsWay, Served
  <2>2. CASE LookOpen(r)
    <3>1. /\ pc'[r] = "calling" /\ using'[r] = link /\ link # Failed /\ response'[r] = response[r]
          /\ pc[r] = "ready"
      BY <2>2 DEF LookOpen, Go, IInv, TypeOK
    <3>2. QED
      BY <1>0, <3>1 DEF OnItsWay, Healed
  <2>3. CASE LookFailed(r)
    <3>1. /\ pc'[r] = "waiting" /\ ~lost'[r] /\ task'[r] = "queued" /\ pc[r] = "ready"
          /\ seen'[r] = attempts /\ attempts' = attempts /\ response'[r] = response[r]
      BY <2>3 DEF LookFailed, Reconnect, Go, shared, IInv, TypeOK
    <3>2. QED
      BY <3>1 DEF OnItsWay
  <2>4. CASE Run(r)
    <3>1. /\ pc'[r] = "ran" /\ using'[r] = using[r] /\ response'[r] = response[r]
          /\ pc[r] = "calling"
      BY <2>4 DEF Run, Go, IInv, TypeOK
    <3>2. QED
      BY <1>0, <3>1 DEF OnItsWay
  <2>5. CASE Answer(r)
    <3>1. \/ pc'[r] = "done" /\ response'[r] \in ZomeAnswer \cup {"ok"}
          \/ pc'[r] = "ready" /\ response'[r] = response[r] /\ pc[r] = "ran"
      BY <2>5, DaemonAssumption DEF Answer, Respond, Go, Healed, IInv, TypeOK
    <3>2. QED
      BY <3>1 DEF OnItsWay, Served
  <2>6. ~Fail(r)
    BY DEF Fail, Healed
  <2>7. ~Lose(r)
    BY DEF Lose, Usable, OnItsWay
  <2>8. CASE Resume(r)
    <3>1. /\ pc[r] = "waiting" /\ ~lost[r] /\ found[r] \in open \cap signing
      BY <2>8 DEF Resume, OnItsWay
    <3>2. found[r] # Failed
      BY <3>1 DEF Failed, IInv, TypeOK
    <3>3. pc'[r] = "calling" /\ using'[r] = found[r] /\ response'[r] = response[r]
      BY <2>8, <3>1, <3>2 DEF Resume, Go, IInv, TypeOK
    <3>4. QED
      BY <1>0, <3>1, <3>3 DEF OnItsWay
  <2>9. QED
    BY <1>5, <2>1, <2>2, <2>3, <2>4, <2>5, <2>6, <2>7, <2>8 DEF Handle
<1>6. ASSUME NEW q \in Request, Attempt(q) PROVE OnItsWay(r)'
  <2>0. UNCHANGED <<pc, using, lost, response>>
    BY <1>6 DEF Attempt, Learn, StartAttempt, Connect, Publish
  <2> SUFFICES ASSUME pc[r] = "waiting"
               PROVE  /\ task'[r] = "queued" /\ seen'[r] # attempts' => link' # Failed
                      /\ task'[r] = "finished" => found'[r] \in open' \cap signing'
    BY <1>0, <2>0 DEF OnItsWay, Served
  <2>1. CASE Learn(q)
    <3>1. /\ task[q] = "queued" /\ attempts # seen[q] /\ UNCHANGED <<link, attempts>>
          /\ task' = [task EXCEPT ![q] = "finished"]
          /\ found' = [found EXCEPT ![q] = link]
          /\ seen' = [seen EXCEPT ![q] = attempts]
      BY <2>1 DEF Learn, AttemptedMeanwhile, shared
    <3>2. CASE q = r
      <4>1. link \in open \cap signing
        BY <3>1, <3>2 DEF OnItsWay, Healed
      <4>2. QED
        BY <1>0, <3>1, <3>2, <4>1 DEF IInv, TypeOK
    <3>3. CASE q # r
      BY <1>0, <3>1, <3>3 DEF OnItsWay, IInv, TypeOK
    <3>4. QED
      BY <3>2, <3>3
  <2>2. CASE StartAttempt(q)
    BY <1>0, <2>2 DEF StartAttempt, OnItsWay, IInv, TypeOK
  <2>3. CASE Connect(q)
    <3>1. /\ UNCHANGED <<link, attempts, seen>>
          /\ task' = [task EXCEPT ![q] = "connected"]
          /\ \A x \in Request \ {q} : found'[x] = found[x]
      BY <2>3 DEF Connect, shared, IInv, TypeOK
    <3>2. QED
      BY <1>0, <3>1 DEF OnItsWay, IInv, TypeOK
  <2>4. CASE Publish(q)
    <3>1. /\ task' = [task EXCEPT ![q] = "finished"]
          /\ link' = found[q] /\ UNCHANGED found
          /\ found[q] \in open \cap signing
      BY <2>4 DEF Publish, Healed
    <3>2. link' # Failed
      BY <3>1 DEF Failed, IInv, TypeOK
    <3>3. QED
      BY <1>0, <3>1, <3>2 DEF OnItsWay, IInv, TypeOK
  <2>5. QED
    BY <1>6, <2>1, <2>2, <2>3, <2>4 DEF Attempt
<1>7. ~Stop /\ ~Start /\ ~LairRestart
  <2>1. disruptions = MaxDisruptions /\ MaxDisruptions \in Nat /\ up
    BY DaemonAssumption DEF Healed
  <2>2. ~(disruptions < MaxDisruptions)
    BY <2>1
  <2>3. QED
    BY <2>1, <2>2 DEF Stop, Start, LairRestart
<1>8. QED
  BY <1>1, <1>3, <1>4, <1>5, <1>6, <1>7 DEF Next, Idle

\* Once the conductor stays up and the loss is noticed, a request that starts is
\* never answered with a failure, whatever other requests and old tasks still do.
THEOREM RecoveredTheorem == Spec => RecoveredIsServed
<1> SUFFICES ASSUME NEW r \in Request
             PROVE  Spec => [](Recovered /\ pc[r] = "ready" /\ step[r] = 0
                                  => [](response[r] = "none" \/ Served(r)))
  BY DEF RecoveredIsServed
<1>1. IInv /\ RanInv /\ Recovered /\ pc[r] = "ready" /\ step[r] = 0 => Healed /\ OnItsWay(r)
  <2> SUFFICES ASSUME IInv, RanInv, Recovered, pc[r] = "ready" PROVE Healed /\ OnItsWay(r)
    OBVIOUS
  <2>1. \A q \in Request : task[q] # "connected"
    BY DaemonAssumption DEF Recovered, IInv, LockInv
  <2>2. Healed
    BY <2>1 DEF Recovered, Healed
  <2>3. OnItsWay(r)
    BY DEF OnItsWay, RanInv
  <2>4. QED
    BY <2>2, <2>3
<1>2. IInv /\ Healed /\ OnItsWay(r) /\ [Next]_vars => Healed' /\ OnItsWay(r)'
  BY HealedStays, OnItsWayStays
<1>3. OnItsWay(r) => response[r] = "none" \/ Served(r)
  BY DEF OnItsWay
<1>4. QED
  BY <1>1, <1>2, <1>3, Invariance, RanInvariance, PTL DEF Spec
=============================================================================
