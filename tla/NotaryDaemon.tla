---------------------------- MODULE NotaryDaemon ----------------------------
(***************************************************************************)
(* The notary daemon (notary-daemon/src): concurrent HTTP requests that     *)
(* share one connection to the conductor, `Reconnecting`.  A conductor      *)
(* restart closes every connection, a lair restart leaves one that can no   *)
(* longer sign; the request that loses a connection replaces it, in a task  *)
(* that outlives it, and requests that lost the same one share the attempt. *)
(*                                                                         *)
(* Connections are numbered by the attempt that opened them; 0 is the first *)
(* one, which HamConductor::connect waits for before the daemon listens.    *)
(***************************************************************************)
EXTENDS Integers

CONSTANTS
    Request,        \* HTTP requests
    Nobody,         \* no request: the connect lock is free
    Kind,           \* Kind[r]: a member of RequestKind
    ZomeAnswers,    \* what notary_attest_close can answer
    Weathers,       \* what flaky can be: a subset of BOOLEAN
    Impatient,      \* the requests whose client can give up
    MaxDisruptions  \* bounds the conductor and lair restarts

RequestKind == {"attest", "healthz"}
ZomeAnswer == {"attested", "warranted", "no_close_found", "unable_to_verify",
               "not_a_closing_notary"}

ASSUME DaemonAssumption ==
    /\ Nobody \notin Request
    /\ Kind \in [Request -> RequestKind]
    /\ ZomeAnswers \subseteq ZomeAnswer
    /\ Weathers \subseteq BOOLEAN
    /\ Impatient \subseteq Request
    /\ MaxDisruptions \in Nat

Failed == -1                \* Link::ReconnectFailed
Link == Nat \cup {Failed}   \* Link::Open, by the connection's number

VARIABLES
    link,         \* State.link
    attempts,     \* State.attempts
    holder,       \* the request whose task holds `connect`, or Nobody
    pc,           \* where the handler of a request is
    step,         \* step[r]: the calls that r has had answered
    using,        \* using[r]: the connection r makes its call on
    seen,         \* seen[r]: the attempts count r's link is current at
    lost,         \* lost[r]: whether r reconnects because it lost its connection
    task,         \* task[r]: the spawned reconnect task of r
    found,        \* found[r]: the link that task connected or learnt
    response,     \* response[r]: the answer to r
    up,           \* whether the conductor is up
    open,         \* the connections whose websocket is open
    signing,      \* the connections whose lair still signs
    disruptions,  \* the conductor and lair restarts so far
    flaky,        \* whether a connect or a call can fail under a good conductor
    ran           \* ran[r]: the calls the conductor ran for r

shared == <<link, attempts, holder>>
conductor == <<up, open, signing, disruptions, flaky>>
vars == <<link, attempts, holder, pc, step, using, seen, lost, task, found, response,
          up, open, signing, disruptions, flaky, ran>>

Response == {"none", "gone", "ok", "conductor unreachable", "app cell unresponsive",
             "auth_failed", "bad_request", "internal"} \cup ZomeAnswer

TypeOK ==
    /\ link \in Link
    /\ attempts \in Nat
    /\ holder \in Request \cup {Nobody}
    /\ pc \in [Request -> {"ready", "calling", "ran", "waiting", "done"}]
    /\ step \in [Request -> 0..1]
    /\ using \in [Request -> Nat]
    /\ seen \in [Request -> Nat]
    /\ lost \in [Request -> BOOLEAN]
    /\ task \in [Request -> {"none", "queued", "connecting", "connected", "finished"}]
    /\ found \in [Request -> Link]
    /\ response \in [Request -> Response]
    /\ up \in BOOLEAN
    /\ open \subseteq Nat
    /\ signing \subseteq Nat
    /\ disruptions \in Nat
    /\ flaky \in Weathers
    /\ ran \in [Request -> Nat]

Init ==
    /\ link = 0
    /\ attempts = 0
    /\ holder = Nobody
    /\ pc = [r \in Request |-> "ready"]
    /\ step = [r \in Request |-> 0]
    /\ using = [r \in Request |-> 0]
    /\ seen = [r \in Request |-> 0]
    /\ lost = [r \in Request |-> FALSE]
    /\ task = [r \in Request |-> "none"]
    /\ found = [r \in Request |-> Failed]
    /\ response = [r \in Request |-> "none"]
    /\ up = TRUE
    /\ open = {0}
    /\ signing = {0}
    /\ disruptions = 0
    /\ flaky \in Weathers
    /\ ran = [r \in Request |-> 0]

-----------------------------------------------------------------------------
(* Answering.  healthz makes two calls, ping and then whoami; attest one.    *)

Go(r, p) == pc' = [pc EXCEPT ![r] = p]

Respond(r, answer) ==
    /\ response' = [response EXCEPT ![r] = answer]
    /\ Go(r, "done")

\* What a call that failed makes of the request.
Failure(r) ==
    CASE Kind[r] = "healthz" /\ step[r] = 0 -> "conductor unreachable"
      [] Kind[r] = "healthz" /\ step[r] = 1 -> "app cell unresponsive"
      [] OTHER -> "internal"

\* ping is not signed.
Signed(r) == Kind[r] = "attest" \/ step[r] = 1

Usable(r) == using[r] \in open /\ (Signed(r) => using[r] \in signing)

-----------------------------------------------------------------------------
(* Reconnecting::call, in the handler of a request. *)

\* The bearer token and the body, whatever they are, are checked before the
\* conductor is called.
Refuse(r) ==
    /\ pc[r] = "ready"
    /\ Kind[r] = "attest"
    /\ \E code \in {"auth_failed", "bad_request"} : Respond(r, code)
    /\ UNCHANGED <<shared, conductor, step, using, seen, lost, task, found, ran>>

\* The link and the count are read under one lock of the state.
LookOpen(r) ==
    /\ pc[r] = "ready"
    /\ link # Failed
    /\ using' = [using EXCEPT ![r] = link]
    /\ seen' = [seen EXCEPT ![r] = attempts]
    /\ Go(r, "calling")
    /\ UNCHANGED <<shared, conductor, step, lost, task, found, response, ran>>

\* Reconnecting::reconnect: the attempt runs in a task of its own.
Reconnect(r, because) ==
    /\ task' = [task EXCEPT ![r] = "queued"]
    /\ lost' = [lost EXCEPT ![r] = because]
    /\ Go(r, "waiting")

LookFailed(r) ==
    /\ pc[r] = "ready"
    /\ link = Failed
    /\ seen' = [seen EXCEPT ![r] = attempts]
    /\ Reconnect(r, FALSE)
    /\ UNCHANGED <<shared, conductor, step, using, found, response, ran>>

\* The conductor runs the call.
Run(r) ==
    /\ pc[r] = "calling"
    /\ Usable(r)
    /\ ran' = [ran EXCEPT ![r] = @ + 1]
    /\ Go(r, "ran")
    /\ UNCHANGED <<shared, conductor, step, using, seen, lost, task, found, response>>

\* Its answer arrives.
Answer(r) ==
    /\ pc[r] = "ran"
    /\ using[r] \in open
    /\ \/ /\ Kind[r] = "attest"
          /\ \E a \in ZomeAnswers :
                Respond(r, IF a = "not_a_closing_notary" THEN "internal" ELSE a)
          /\ UNCHANGED step
       \/ /\ Kind[r] = "healthz" /\ step[r] = 0
          /\ step' = [step EXCEPT ![r] = 1]
          /\ Go(r, "ready")
          /\ UNCHANGED response
       \/ /\ Kind[r] = "healthz" /\ step[r] = 1
          /\ Respond(r, "ok")
          /\ UNCHANGED step
    /\ UNCHANGED <<shared, conductor, using, seen, lost, task, found, ran>>

\* An error that leaves the connection open: a timeout, or one the conductor
\* answered.
Fail(r) ==
    /\ flaky
    /\ pc[r] \in {"calling", "ran"}
    /\ Respond(r, Failure(r))
    /\ UNCHANGED <<shared, conductor, step, using, seen, lost, task, found, ran>>

\* Mutant: the call is made again on the new connection.
LoseRetrying(r) ==
    /\ pc[r] \in {"calling", "ran"}
    /\ ~Usable(r)
    /\ pc[r] = "ran" => using[r] \notin open
    /\ Reconnect(r, FALSE)
    /\ UNCHANGED <<shared, conductor, step, using, seen, found, response, ran>>

\* ham::is_connection_error.  A call that ran needs only its answer.
Lose(r) ==
    /\ pc[r] \in {"calling", "ran"}
    /\ ~Usable(r)
    /\ pc[r] = "ran" => using[r] \notin open
    /\ Reconnect(r, TRUE)
    /\ UNCHANGED <<shared, conductor, step, using, seen, found, response, ran>>

\* Mutant: the request does not look whether the attempt connected.
ResumeBlind(r) ==
    /\ pc[r] = "waiting"
    /\ task[r] = "finished"
    /\ task' = [task EXCEPT ![r] = "none"]
    /\ IF lost[r]
       THEN Respond(r, Failure(r)) /\ UNCHANGED using
       ELSE /\ using' = [using EXCEPT ![r] = found[r]]
            /\ Go(r, "calling")
            /\ UNCHANGED response
    /\ UNCHANGED <<shared, conductor, step, seen, lost, found, ran>>

\* Mutant: the request fails even though the attempt connected.
ResumeFailing(r) ==
    /\ pc[r] = "waiting"
    /\ task[r] = "finished"
    /\ task' = [task EXCEPT ![r] = "none"]
    /\ Respond(r, Failure(r))
    /\ UNCHANGED <<shared, conductor, step, using, seen, lost, found, ran>>

\* The task has finished: the request that lost its connection keeps its error,
\* one that found none calls on the connection, or fails with the attempt's cause.
Resume(r) ==
    /\ pc[r] = "waiting"
    /\ task[r] = "finished"
    /\ task' = [task EXCEPT ![r] = "none"]
    /\ IF lost[r] \/ found[r] = Failed
       THEN Respond(r, Failure(r)) /\ UNCHANGED using
       ELSE /\ using' = [using EXCEPT ![r] = found[r]]
            /\ Go(r, "calling")
            /\ UNCHANGED response
    /\ UNCHANGED <<shared, conductor, step, seen, lost, found, ran>>

\* Mutant: the attempt runs in the handler, and is dropped with it.
GiveUpAttempt(r) ==
    /\ r \in Impatient
    /\ pc[r] # "done"
    /\ Respond(r, "gone")
    /\ task' = [task EXCEPT ![r] = "none"]
    /\ holder' = IF holder = r THEN Nobody ELSE holder
    /\ UNCHANGED <<link, attempts, conductor, step, using, seen, lost, found, ran>>

\* The client goes away, and the handler with it; its task stays.
GiveUp(r) ==
    /\ r \in Impatient
    /\ pc[r] # "done"
    /\ Respond(r, "gone")
    /\ UNCHANGED <<shared, conductor, step, using, seen, lost, task, found, ran>>

-----------------------------------------------------------------------------
(* Shared::reconnect, in the task. *)

\* Mutant: the task does not look whether an attempt ran since its request did.
AttemptedMeanwhileNever(r) == FALSE

AttemptedMeanwhile(r) == attempts # seen[r]

\* The lock is free and an attempt ran since r looked: take its outcome.
Learn(r) ==
    /\ task[r] = "queued"
    /\ holder = Nobody
    /\ AttemptedMeanwhile(r)
    /\ task' = [task EXCEPT ![r] = "finished"]
    /\ found' = [found EXCEPT ![r] = link]
    /\ seen' = [seen EXCEPT ![r] = attempts]
    /\ UNCHANGED <<shared, conductor, pc, step, using, lost, response, ran>>

StartAttempt(r) ==
    /\ task[r] = "queued"
    /\ holder = Nobody
    /\ ~AttemptedMeanwhile(r)
    /\ holder' = r
    /\ task' = [task EXCEPT ![r] = "connecting"]
    /\ UNCHANGED <<link, attempts, conductor, pc, step, using, seen, lost, found,
                   response, ran>>

\* connect() opens a connection with a lair client of its own, or fails, or
\* runs into connect_timeout.
Connect(r) ==
    /\ task[r] = "connecting"
    /\ task' = [task EXCEPT ![r] = "connected"]
    /\ \/ /\ up
          /\ found' = [found EXCEPT ![r] = attempts + 1]
          /\ open' = open \cup {attempts + 1}
          /\ signing' = signing \cup {attempts + 1}
       \/ /\ flaky \/ ~up
          /\ found' = [found EXCEPT ![r] = Failed]
          /\ UNCHANGED <<open, signing>>
    /\ UNCHANGED <<shared, up, disruptions, flaky, pc, step, using, seen, lost, response, ran>>

\* Mutant: the lock is not released.
PublishHolding(r) ==
    /\ task[r] = "connected"
    /\ task' = [task EXCEPT ![r] = "finished"]
    /\ link' = found[r]
    /\ attempts' = attempts + 1
    /\ seen' = [seen EXCEPT ![r] = attempts + 1]
    /\ UNCHANGED <<conductor, holder, pc, step, using, lost, found, response, ran>>

\* The outcome is put into the state and the lock is released.
Publish(r) ==
    /\ task[r] = "connected"
    /\ task' = [task EXCEPT ![r] = "finished"]
    /\ link' = found[r]
    /\ attempts' = attempts + 1
    /\ holder' = Nobody
    /\ seen' = [seen EXCEPT ![r] = attempts + 1]
    /\ UNCHANGED <<conductor, pc, step, using, lost, found, response, ran>>

-----------------------------------------------------------------------------
(* The conductor and lair. *)

Stop ==
    /\ up
    /\ disruptions < MaxDisruptions
    /\ up' = FALSE
    /\ open' = {}
    /\ disruptions' = disruptions + 1
    /\ UNCHANGED <<shared, pc, step, using, seen, lost, task, found, response,
                   signing, flaky, ran>>

Start ==
    /\ ~up
    /\ up' = TRUE
    /\ UNCHANGED <<shared, pc, step, using, seen, lost, task, found, response,
                   open, signing, disruptions, flaky, ran>>

LairRestart ==
    /\ disruptions < MaxDisruptions
    /\ signing' = {}
    /\ disruptions' = disruptions + 1
    /\ UNCHANGED <<shared, pc, step, using, seen, lost, task, found, response,
                   up, open, flaky, ran>>

-----------------------------------------------------------------------------
Handle(r) == Refuse(r) \/ LookOpen(r) \/ LookFailed(r) \/ Run(r) \/ Answer(r)
               \/ Fail(r) \/ Lose(r) \/ Resume(r)

Attempt(r) == Learn(r) \/ StartAttempt(r) \/ Connect(r) \/ Publish(r)

\* Every request is answered and no task is left.
Idle ==
    /\ \A r \in Request : pc[r] = "done" /\ task[r] \in {"none", "finished"}
    /\ UNCHANGED vars

Next == \/ \E r \in Request : Handle(r) \/ GiveUp(r) \/ Attempt(r)
        \/ Stop \/ Start \/ LairRestart
        \/ Idle

\* The runtime polls every handler and every task, connect() and the calls run
\* into their timeouts, and a stopped conductor is started again.
Fairness == /\ \A r \in Request : WF_vars(Handle(r)) /\ WF_vars(Attempt(r))
            /\ WF_vars(Start)

Spec == Init /\ [][Next]_vars
FairSpec == Spec /\ Fairness

-----------------------------------------------------------------------------
(* Correctness. *)

\* A connection is replaced only once it is lost: it is closed, or its lair no
\* longer signs.  However many requests lost it, whoever looked before or after
\* an attempt, no request ever replaces one that works.  (A connect can write a
\* capability grant, and every call in flight is on the connection it replaces.)
GoodConnectionsAreKept ==
    [][link # Failed /\ link' # link => link \notin open \cap signing]_vars

\* A request is at most one run of each of its calls: a call that may have run
\* before its answer was lost is not made again.
CallsRunOnce ==
    \A r \in Request :
        /\ ran[r] <= step[r] + 1
        /\ pc[r] = "ready" => ran[r] = step[r]
        /\ response[r] \in ZomeAnswer \cup {"ok"} => ran[r] = step[r] + 1

\* An attempt that was started lands, whatever became of the request that
\* started it.
AttemptsLand == \A r \in Request : task[r] = "connecting" ~> task[r] = "finished"

\* Every request is answered, however many restarts it meets.
EveryRequestIsAnswered == \A r \in Request : <>(pc[r] = "done")

\* Once the conductor stays up, a request that finds the loss already noticed is
\* served: a connection lost costs at most the requests that were using it.
Recovered ==
    /\ ~flaky /\ "not_a_closing_notary" \notin ZomeAnswers
    /\ up
    /\ disruptions = MaxDisruptions
    /\ holder = Nobody
    /\ link = Failed \/ link \in open \cap signing

Served(r) == response[r] \in {"gone", "ok", "auth_failed", "bad_request"} \cup ZomeAnswer

\* With EveryRequestIsAnswered, it is served.
RecoveredIsServed ==
    \A r \in Request : [](Recovered /\ pc[r] = "ready" /\ step[r] = 0
                            => [](response[r] = "none" \/ Served(r)))
=============================================================================
