---------------------------- MODULE CloseService ----------------------------
(***************************************************************************)
(* The close service of the headless migrator (close.rs, policy.rs and      *)
(* probe.rs in headless-migrator/src): probe the old chain, drop owed fees, *)
(* prepare the closing payload, have M of the N notaries check it, close.   *)
(* Every call can fail, lose its connection, or lose its answer after the   *)
(* conductor ran it; the process can die anywhere and systemd               *)
(* (`Restart=on-failure`) starts it again.                                  *)
(*                                                                         *)
(* A payload is named by the chain top it was prepared on.                  *)
(***************************************************************************)
EXTENDS Integers, FiniteSets, Sequences

CONSTANTS
    Listed,      \* closing_notaries, as the definition lists them
    M,           \* closing_threshold
    Faulty,      \* the notaries that may not approve what they should
    Verdicts,    \* what those answer
    Retries,     \* state_mismatch_retries
    HardFaults,  \* the faults no retry fixes that this binary and target have
    Torn,        \* whether a close can leave the summary without its close
    DiskFaults,  \* whether a write of the state file can fail
    MaxTop,      \* bounds the actions the agent commits beside the close
    MaxFaults    \* bounds the crashes, reboots, lost connections and failed calls

Outcome == {"approved", "state_mismatch", "target_not_approved", "unable_to_verify",
            "not_a_closing_notary", "timed_out", "errored", "warranted"}

ASSUME CloseAssumption ==
    /\ Listed \in Seq(STRING)
    /\ M \in Nat
    /\ Verdicts \subseteq Outcome
    /\ Retries \in Nat
    /\ HardFaults \subseteq {"decode", "target"}
    /\ Torn \in BOOLEAN /\ DiskFaults \in BOOLEAN
    /\ MaxTop \in Nat /\ MaxFaults \in Nat

-----------------------------------------------------------------------------
\* A notary is known by its place in the list.
Place == DOMAIN Listed

\* Mutant: a repeated key keeps its places.
DistinctRepeated == Place

\* Distinct keys: the first place of each.
Distinct == {i \in Place : \A j \in Place : j < i => Listed[j] # Listed[i]}

\* The process is running at Calls (one call outstanding) and at "backoff".
Calls == {"probing", "ledger", "dropping", "preparing", "asking", "closing", "committed"}
Running == Calls \cup {"backoff"}

VARIABLES
    chain,      \* the old chain: its top, whether it is closed, whether fees are owed
    late,       \* the payloads of close calls abandoned while the conductor may run them
    conn,       \* whether the service's connection is live
    pc,         \* the call the service has outstanding
    payload,    \* the prepared payload
    approved,   \* the places that approved it
    unasked,    \* the working slots and the reserve not asked yet
    current,    \* the place being asked
    refusals,   \* mismatch_attempts
    record,     \* the in-memory State: its step and its old_chain_closed
    file,       \* the state file
    faults,     \* faults so far
    vouched     \* who approved which payload, ever: <<key, payload>>

policy == <<approved, unasked, current, refusals>>
vars == <<chain, late, conn, pc, payload, policy, record, file, faults, vouched>>

Step == {"none", "probing", "dropping_fees", "collecting_approvals", "closing",
         "done", "failed"}
Record == [step : Step, closed : BOOLEAN]

TypeOK ==
    /\ chain \in [top : Nat, state : {"open", "summary", "closed"}, fees : BOOLEAN]
    /\ late \subseteq Nat
    /\ conn \in BOOLEAN
    /\ pc \in Running \cup {"done", "failed"}
    /\ payload \in Nat
    /\ approved \subseteq Place
    /\ unasked \subseteq Place
    /\ current \in Place \cup {0}
    /\ refusals \in 0..Retries
    /\ record \in Record
    /\ file \in Record
    /\ faults \in Nat
    /\ vouched \subseteq (STRING \X Nat)

Fresh == [step |-> "probing", closed |-> FALSE]

\* Before the first start.
Init ==
    /\ \E owed \in BOOLEAN : chain = [top |-> 0, state |-> "open", fees |-> owed]
    /\ late = {}
    /\ conn = FALSE
    /\ pc = "failed"
    /\ payload = 0
    /\ approved = {} /\ unasked = {} /\ current = 0 /\ refusals = 0
    /\ record = Fresh
    /\ file = [step |-> "none", closed |-> FALSE]
    /\ faults = 0
    /\ vouched = {}

-----------------------------------------------------------------------------
(* The state file and the ends of an attempt. *)

\* persist: the record is set, then written; a failed write is only logged.
Persist(rec) ==
    /\ record' = rec
    /\ \/ file' = rec
       \/ DiskFaults /\ UNCHANGED file

PersistStep(s) == Persist([record EXCEPT !.step = s])

Fault == faults < MaxFaults /\ faults' = faults + 1

\* CloseOutcome::Closed: exit 0.
Finish ==
    /\ Persist([step |-> "done", closed |-> TRUE])
    /\ pc' = "done"

\* CloseOutcome::HardStop: exit nonzero.
HardStop ==
    /\ PersistStep("failed")
    /\ pc' = "failed"

\* CloseOutcome::Transient: the step is kept, the message is not modelled.
Transient ==
    /\ PersistStep(record.step)
    /\ pc' = "backoff"

\* A close call whose answer will not be heard may still run.
Abandoned == IF pc = "closing" THEN late \cup {payload} ELSE late

\* The loop comes round, or the process starts: one more attempt.
Retry ==
    /\ pc = "backoff"
    /\ PersistStep("probing")
    /\ pc' = "probing"
    /\ UNCHANGED <<chain, late, conn, payload, policy, faults, vouched>>

\* systemd starts the unit, and again when it exited nonzero or died; the process
\* connects and starts from a fresh State.
Restart ==
    /\ pc = "failed"
    /\ conn' = TRUE
    /\ Persist(Fresh)
    /\ pc' = "probing"
    /\ UNCHANGED <<chain, late, payload, policy, faults, vouched>>

-----------------------------------------------------------------------------
(* The calls before the notaries. *)

\* probe_close_state.
Probe ==
    /\ pc = "probing"
    /\ conn
    /\ \/ "decode" \in HardFaults /\ HardStop
       \/ chain.state = "closed" /\ Finish
       \/ chain.state = "summary" /\ HardStop
       \/ chain.state = "open" /\ pc' = "ledger" /\ UNCHANGED <<record, file>>
    /\ UNCHANGED <<chain, late, conn, payload, policy, faults, vouched>>

\* get_ledger: owed fees are dropped before the payload pins the chain top.
ReadLedger ==
    /\ pc = "ledger"
    /\ conn
    /\ \/ "decode" \in HardFaults /\ HardStop
       \/ chain.fees /\ pc' = "dropping" /\ PersistStep("dropping_fees")
       \/ ~chain.fees /\ pc' = "preparing" /\ PersistStep("collecting_approvals")
    /\ UNCHANGED <<chain, late, conn, payload, policy, faults, vouched>>

\* drop_off_fees commits to the chain; its answer may be lost.
DropFees ==
    /\ pc = "dropping"
    /\ conn
    /\ \/ /\ chain.state = "open"
          /\ chain' = [chain EXCEPT !.top = @ + 1, !.fees = FALSE]
          /\ \/ /\ pc' = "preparing" /\ PersistStep("collecting_approvals")
                /\ UNCHANGED faults
             \/ Fault /\ Transient
       \/ chain.state # "open" /\ Transient /\ UNCHANGED <<chain, faults>>
    /\ UNCHANGED <<late, conn, payload, policy, vouched>>

\* collect_approvals asks nobody when no attempt can reach M.
Misconfigured == M = 0 \/ Cardinality(Distinct) < M

\* prepare_closing_summary, and the shuffle: the random order is chosen as it is
\* consumed, so what is kept of it is who has not been asked.
Prepare ==
    /\ pc = "preparing"
    /\ conn
    /\ \/ /\ HardFaults # {} \/ Misconfigured
          /\ HardStop
          /\ UNCHANGED <<payload, policy>>
       \/ chain.state # "open" /\ Transient /\ UNCHANGED <<payload, policy>>
       \/ /\ chain.state = "open" /\ ~Misconfigured
          /\ payload' = chain.top
          /\ approved' = {}
          /\ refusals' = 0
          /\ \E n \in Distinct : current' = n /\ unasked' = Distinct \ {n}
          /\ pc' = "asking"
          /\ PersistStep("collecting_approvals")
    /\ UNCHANGED <<chain, late, conn, faults, vouched>>

-----------------------------------------------------------------------------
(* collect_approvals. *)

\* A notary that sees the agent's chain approves the payload of its present top.
Answers(n) ==
    (IF chain.state = "open" /\ payload = chain.top THEN {"approved"}
                                                    ELSE {"state_mismatch"})
      \cup (IF Listed[n] \in Faulty THEN Verdicts ELSE {})

Refused(a) == a \in {"state_mismatch", "target_not_approved"}

\* What is left of the reserve: the unasked, without the working slots that wait.
Reserve == Cardinality(unasked) - (M - Cardinality(approved) - 1)

AskNext(n) == current' = n /\ unasked' = unasked \ {n} /\ refusals' = 0

Approve ==
    /\ approved' = approved \cup {current}
    /\ vouched' = vouched \cup {<<Listed[current], payload>>}
    /\ \/ /\ Cardinality(approved') = M
          /\ pc' = "closing"
          /\ PersistStep("closing")
          /\ UNCHANGED <<unasked, current, refusals>>
       \/ /\ Cardinality(approved') < M
          /\ \E n \in unasked : AskNext(n)
          /\ UNCHANGED <<pc, record, file>>

\* Mutant: the counter is compared after it was raised past its bound.
AskAgainOnce ==
    /\ refusals <= Retries
    /\ refusals' = refusals + 1
    /\ UNCHANGED <<approved, unasked, current, vouched, pc, record, file>>

\* The same notary again, after a backoff.
AskAgain ==
    /\ refusals < Retries
    /\ refusals' = refusals + 1
    /\ UNCHANGED <<approved, unasked, current, vouched, pc, record, file>>

\* Mutant: a failed notary ends the attempt.
SubstituteNever ==
    /\ Transient
    /\ UNCHANGED <<approved, unasked, current, refusals, vouched>>

\* Mutant: the working slots that wait are taken for reserve.
SubstituteGreedy ==
    /\ \/ /\ unasked # {}
          /\ \E n \in unasked : AskNext(n)
          /\ UNCHANGED <<pc, record, file>>
       \/ unasked = {} /\ Transient /\ UNCHANGED <<unasked, current, refusals>>
    /\ UNCHANGED <<approved, vouched>>

Substitute ==
    /\ \/ /\ Reserve > 0
          /\ \E n \in unasked : AskNext(n)
          /\ UNCHANGED <<pc, record, file>>
       \* PolicyError::Exhausted
       \/ Reserve = 0 /\ Transient /\ UNCHANGED <<unasked, current, refusals>>
    /\ UNCHANGED <<approved, vouched>>

\* request_close_check answered a.
Checked(a) ==
    /\ \/ a = "approved" /\ Approve
       \/ Refused(a) /\ AskAgain
       \/ Refused(a) /\ refusals = Retries /\ Substitute
       \/ a \notin {"approved", "warranted"} /\ ~Refused(a) /\ Substitute
       \/ a = "warranted" /\ HardStop /\ UNCHANGED <<policy, vouched>>

Check ==
    /\ pc = "asking"
    /\ conn
    /\ \/ \E a \in Answers(current) : Checked(a) /\ UNCHANGED faults
       \/ Fault /\ Checked("errored")
       \/ /\ "decode" \in HardFaults /\ HardStop
          /\ UNCHANGED <<policy, faults, vouched>>
    /\ UNCHANGED <<chain, late, conn, payload>>

-----------------------------------------------------------------------------
(* close_agent_chain.  The DNA refuses a payload the chain has moved past, and *)
(* a second closing summary.                                                 *)

Closable(p) == chain.state = "open" /\ chain.top = p

\* The summary and its close, or the summary alone.
Commit == \/ chain' = [chain EXCEPT !.state = "closed"]
          \/ Torn /\ chain' = [chain EXCEPT !.state = "summary"]

\* Mutant: any error of the close is taken for an earlier close that landed.
CloseAssuming ==
    /\ pc = "closing"
    /\ conn
    /\ \/ Closable(payload) /\ Commit /\ pc' = "committed" /\ UNCHANGED <<record, file>>
       \/ ~Closable(payload) /\ Finish /\ UNCHANGED chain
    /\ UNCHANGED <<late, conn, payload, policy, faults, vouched>>

Close ==
    /\ pc = "closing"
    /\ conn
    /\ \/ Closable(payload) /\ Commit /\ pc' = "committed" /\ UNCHANGED <<record, file>>
       \/ ~Closable(payload) /\ Transient /\ UNCHANGED chain
       \/ "target" \in HardFaults /\ HardStop /\ UNCHANGED chain
    /\ UNCHANGED <<late, conn, payload, policy, faults, vouched>>

\* The answer to a close that was committed arrives; a torn one is an error.
Committed ==
    /\ pc = "committed"
    /\ conn
    /\ \/ chain.state = "closed" /\ Finish
       \/ chain.state = "summary" /\ Transient
    /\ UNCHANGED <<chain, late, conn, payload, policy, faults, vouched>>

\* An abandoned close runs after all, or never.
LateClose(p) ==
    /\ p \in late
    /\ late' = late \ {p}
    /\ \/ Closable(p) /\ Commit
       \/ UNCHANGED chain
    /\ UNCHANGED <<conn, pc, payload, policy, record, file, faults, vouched>>

-----------------------------------------------------------------------------
(* What goes wrong. *)

\* A call times out or errors.
CallFails ==
    /\ pc \in Calls \ {"asking"}
    /\ conn
    /\ Fault
    /\ Transient
    /\ late' = Abandoned
    /\ UNCHANGED <<chain, conn, payload, policy, vouched>>

\* is_connection_lost: the service exits to reconnect.
ConnectionLost ==
    /\ pc \in Calls
    /\ ~conn
    /\ PersistStep("probing")
    /\ pc' = "failed"
    /\ late' = Abandoned
    /\ UNCHANGED <<chain, conn, payload, policy, faults, vouched>>

Disconnect ==
    /\ pc \in Running
    /\ conn
    /\ Fault
    /\ conn' = FALSE
    /\ UNCHANGED <<chain, late, pc, payload, policy, record, file, vouched>>

\* The process dies, or a shutdown ends its loop without writing the file.
Crash ==
    /\ pc \in Running
    /\ Fault
    /\ pc' = "failed"
    /\ late' = Abandoned
    /\ UNCHANGED <<chain, conn, payload, policy, record, file, vouched>>

\* The server reboots after the service was done, and runs it again.
Reboot ==
    /\ pc = "done"
    /\ Fault
    /\ pc' = "failed"
    /\ UNCHANGED <<chain, late, conn, payload, policy, record, file, vouched>>

\* The agent commits something else, which may owe fees, or an abandoned fee drop
\* lands.
Move ==
    /\ chain.state = "open"
    /\ chain.top < MaxTop
    /\ \E owed \in BOOLEAN : chain' = [chain EXCEPT !.top = @ + 1, !.fees = owed]
    /\ UNCHANGED <<late, conn, pc, payload, policy, record, file, faults, vouched>>

\* The chain is closed and the service is done.
Idle == pc = "done" /\ UNCHANGED vars

Service == Retry \/ Restart \/ Probe \/ ReadLedger \/ DropFees \/ Prepare \/ Check
             \/ Close \/ Committed \/ ConnectionLost

Next == \/ Service
        \/ \E p \in late : LateClose(p)
        \/ CallFails \/ Disconnect \/ Crash \/ Reboot \/ Move
        \/ Idle

Spec == Init /\ [][Next]_vars

-----------------------------------------------------------------------------
(* Correctness. *)

\* Exit 0, and a state file that says the old chain is closed, are only ever seen
\* of a chain that is closed, whatever was lost on the way.
ClosedIsTrue == pc = "done" \/ file.closed => chain.state = "closed"

\* The close carries no approvals, so this is what makes it one: M notaries with
\* different keys had approved the very payload that was committed, by whichever
\* of the calls, attempts and runs it was committed.
Approvers(p) == {v[1] : v \in {w \in vouched : w[2] = p}}

CommittedWasApproved ==
    chain.state # "open" => Cardinality(Approvers(chain.top)) >= M

\* The slots of collect_approvals: while it asks, those that approved, the one
\* asked and those waiting can still make M, and nobody is asked twice.
SlotsCanReachM ==
    pc = "asking" =>
        /\ Cardinality(approved) < M
        /\ Reserve >= 0
        /\ current \notin approved \cup unasked
        /\ approved \cap unasked = {}

\* An attempt gives up only when the notaries left cannot make up M.
GivesUpOnlyWhenShort ==
    [][pc = "asking" /\ pc' = "backoff" =>
          Cardinality(approved \cup unasked) < M]_vars

\* M honest notaries are listed and nothing is misconfigured.
Workable ==
    /\ ~Misconfigured /\ HardFaults = {} /\ ~Torn /\ ~DiskFaults
    /\ "warranted" \notin Verdicts
    /\ Cardinality({n \in Distinct : Listed[n] \notin Faulty}) >= M
=============================================================================
