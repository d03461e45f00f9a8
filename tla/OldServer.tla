------------------------------ MODULE OldServer ------------------------------
(***************************************************************************)
(* The droplet a migration leaves: the close service with the supervisor    *)
(* that restarts it, the `status` command the report collector runs beside  *)
(* it on the same state file, and the gate both pass when they start        *)
(* (config.rs, signing.rs): through lair a connect writes nothing, without  *)
(* it every connect commits a capability grant, and a closed chain that is  *)
(* written to is warranted, which no notary attests.  The notary daemon     *)
(* starts through the same gate and writes to its own chain.                *)
(***************************************************************************)
EXTENDS CloseService

CONSTANTS
    Deployments,  \* the environments the units are given
    Arrived,      \* whether the old chain was itself opened by a migration
    MaxGrants,    \* bounds the grants of a unit, and so its connects without lair
    MaxStatuses   \* bounds the runs of `status`

Unit == {"close", "status", "notary"}

\* What signing.rs and the close service read.  An opt-in is off, on or a value
\* that is neither.
Environment == [url : {"unset", "sound", "malformed"}, passphrase : BOOLEAN,
                optIn : {"off", "on", "odd"}, toDna : BOOLEAN]

ASSUME OldServerAssumption ==
    /\ Deployments \subseteq [Unit -> Environment]
    /\ Arrived \in BOOLEAN
    /\ MaxGrants \in Nat /\ MaxStatuses \in Nat

VARIABLES
    env,       \* the environment of each unit
    signing,   \* the SigningPolicy it resolves to
    grants,    \* the capability grants each unit has committed
    warranted, \* whether the closed chain was written to
    attached,  \* whether the close service has connected and not begun yet
    report,    \* the running `status`: connected, or what it is about to report
    statuses   \* the runs of `status` so far

gate == <<env, signing>>
ledger == <<chain, grants, warranted>>
command == <<report, statuses>>
serverVars == <<vars, gate, grants, warranted, attached, command>>

Signing == {"lair", "grant", "refused"}

ServerTypeOK ==
    /\ TypeOK
    /\ env \in Deployments
    /\ signing \in [Unit -> Signing]
    /\ grants \in [Unit -> 0..MaxGrants]
    /\ warranted \in BOOLEAN /\ attached \in BOOLEAN
    /\ report \in {"none", "connected", "closed", "open", "unknown"}
    /\ statuses \in 0..MaxStatuses

-----------------------------------------------------------------------------
(* The gate. *)

Lair(e) == e.url = "sound" /\ e.passphrase

Empty(e) == e.url = "unset" /\ ~e.passphrase

\* Mutant: the opt-in asks for the chain write and no longer only permits it.
ResolveOptInWins(e) ==
    IF e.optIn = "on" THEN {"grant"}
    ELSE IF e.optIn = "off" /\ Lair(e) THEN {"lair"}
    ELSE {"refused"}

\* Lair wins, a malformed opt-in is no guess, and half the credentials are none.
\* What `ham` makes of an opt-in beside half of them is left open.
Resolve(e) ==
    IF e.optIn # "odd" /\ Lair(e) THEN {"lair"}
    ELSE IF e.optIn # "on" THEN {"refused"}
    ELSE {"grant"} \cup (IF Empty(e) THEN {} ELSE {"refused"})

ServerInit ==
    /\ Init
    /\ env \in Deployments
    /\ signing \in {f \in [Unit -> Signing] : \A u \in Unit : f[u] \in Resolve(env[u])}
    /\ grants = [u \in Unit |-> 0]
    /\ warranted = FALSE
    /\ attached = FALSE
    /\ report = "none"
    /\ statuses = 0

\* A grant on the agent's open chain moves its top; on a closed one it is the action
\* its peers warrant.
Grant(u) ==
    /\ grants[u] < MaxGrants
    /\ grants' = [grants EXCEPT ![u] = @ + 1]
    /\ chain' = IF u # "notary" /\ chain.state = "open"
                 THEN [chain EXCEPT !.top = @ + 1] ELSE chain
    /\ warranted' = (warranted \/ (u # "notary" /\ chain.state = "closed"))

\* Mutant: a unit that could not resolve its signing connects as it used to.
ConnectUngated(u) == \/ signing[u] = "lair" /\ UNCHANGED ledger
                     \/ signing[u] # "lair" /\ Grant(u)

\* What a connect of u commits.  A refused unit does not get to connect.
Connect(u) == \/ signing[u] = "lair" /\ UNCHANGED ledger
              \/ signing[u] = "grant" /\ Grant(u)

-----------------------------------------------------------------------------
(* The close service, from its start. *)

Apart == <<late, conn, pc, payload, policy, record, vouched, gate>>

\* A connect that fails may have committed all the same.
CloseConnects ==
    /\ pc = "failed"
    /\ ~attached
    /\ Connect("close")
    /\ \/ attached' = TRUE /\ UNCHANGED faults
       \/ Fault /\ UNCHANGED attached
    /\ UNCHANGED <<Apart, file, command>>

Loses == attached /\ attached' = FALSE

\* Killed between its connect and its first attempt.
CloseDies ==
    /\ Loses
    /\ Fault
    /\ UNCHANGED <<Apart, file, ledger, command>>

\* The target is looked for when the connection stands.
CloseHasNoTarget ==
    /\ Loses
    /\ ~env["close"].toDna
    /\ UNCHANGED <<Apart, file, ledger, faults, command>>

CloseStarts ==
    /\ Loses
    /\ env["close"].toDna
    /\ Restart
    /\ UNCHANGED <<gate, grants, warranted, command>>

Attempt == Retry \/ Probe \/ ReadLedger \/ DropFees \/ Prepare \/ Check \/ Close
             \/ Committed \/ ConnectionLost

\* A close that landed late was written to while the service still asks.
CheckWarranted ==
    /\ pc = "asking" /\ conn
    /\ warranted
    /\ Checked("warranted")
    /\ UNCHANGED <<chain, late, conn, payload, faults>>

Disturbance == (\E p \in late : LateClose(p)) \/ CallFails \/ Disconnect \/ Crash
                 \/ Reboot \/ Move

CloseRuns ==
    /\ Attempt \/ CheckWarranted
    /\ UNCHANGED <<gate, grants, warranted, attached, command>>

Disturbed ==
    /\ Disturbance
    /\ UNCHANGED <<gate, grants, warranted, attached, command>>

-----------------------------------------------------------------------------
(* status::run on the old server, where it has no router parameters. *)

\* The connect is bounded: what is not reached in time is unknown.
StatusConnects ==
    /\ report = "none"
    /\ statuses < MaxStatuses
    /\ statuses' = statuses + 1
    /\ \/ Connect("status") /\ report' \in {"connected", "unknown"}
       \/ signing["status"] # "refused" /\ UNCHANGED ledger /\ report' = "unknown"
    /\ UNCHANGED <<Apart, file, faults, attached>>

\* Mutant: the derivation of the new server applied on the old one.
ClosedStatusDerived == IF chain.state = "closed" \/ Arrived THEN "closed" ELSE "open"

\* ClosedStatus of a chain that answers; where the chain came from says nothing.
ClosedStatus == IF chain.state = "closed" THEN "closed" ELSE "open"

StatusProbes ==
    /\ report = "connected"
    /\ report' \in {ClosedStatus, "unknown"}
    /\ UNCHANGED <<Apart, file, ledger, faults, attached, statuses>>

\* A fresh State of the status phase replaces what the close service wrote.
StatusWrites ==
    /\ report \in {"closed", "open", "unknown"}
    /\ \/ file' = [step |-> "probing", closed |-> report = "closed"]
       \/ DiskFaults /\ UNCHANGED file
    /\ report' = "none"
    /\ UNCHANGED <<Apart, ledger, faults, attached, statuses>>

-----------------------------------------------------------------------------
\* The notary daemon connects when it starts and whenever it lost its conductor.
NotaryConnects ==
    /\ Connect("notary")
    /\ UNCHANGED <<Apart, file, faults, attached, command>>

\* The chain is closed, or the bound on the grants keeps the service from starting.
Rest == (pc = "done" \/ grants["close"] = MaxGrants) /\ UNCHANGED serverVars

ServerNext ==
    \/ CloseConnects \/ CloseDies \/ CloseHasNoTarget \/ CloseStarts
    \/ CloseRuns \/ Disturbed
    \/ StatusConnects \/ StatusProbes \/ StatusWrites
    \/ NotaryConnects
    \/ Rest

ServerSpec == ServerInit /\ [][ServerNext]_serverVars

\* systemd starts the service whenever it is not running and not done, connects
\* end, and the service's calls answer or fail.
FairServerSpec ==
    /\ ServerSpec
    /\ WF_serverVars(CloseConnects)
    /\ WF_serverVars(CloseStarts)
    /\ WF_serverVars(CloseRuns)

-----------------------------------------------------------------------------
(* Correctness. *)

\* Whatever starts when, is restarted or fails to connect, a chain is written to,
\* and a closed one ruined, only by a unit that was told to and had no lair to
\* use instead (CHANGELOG: the opt-in no longer overrides lair credentials).
ToldTo(u) == env[u].optIn = "on" /\ ~Lair(env[u])

GrantsAreOptedInto ==
    /\ \A u \in Unit : grants[u] > 0 => ToldTo(u)
    /\ warranted => \E u \in Unit \ {"notary"} : grants[u] > 0

\* No report of the file, by the service or by a `status` that ran beside it,
\* says closed of a chain that is not, a chain that arrived by a migration of its
\* own included.
ReportsAreTrue ==
    (pc = "done" \/ file.closed \/ report = "closed") => chain.state = "closed"

\* With lair for both, the chain ends closed and attestable, and stays so however
\* often the service is restarted and `status` run after the close; the file says
\* so, or holds the report of a `status`, which may have looked before.
ThroughLair ==
    /\ signing["close"] = "lair" /\ env["close"].toDna
    /\ signing["status"] # "grant"

EndsAttestable ==
    Workable /\ ThroughLair =>
        <>[](/\ pc = "done" /\ chain.state = "closed" /\ ~warranted
             /\ (file.closed \/ file.step = "probing"))
=============================================================================
