# Migration service: specification and verification

TLA+ modules, TLC configurations and TLAPS proofs for the three programs of this
repository that carry an agent of a Holochain network from one version of a DNA
to the next: the migration router, the notary daemon and the headless migrator.

The ceremony, in one paragraph.  On the old server the **close service** has M of
the N closing notaries check a closing summary and commits it, which closes the
agent's old chain.  The close gossips to the notaries.  On the new server the
**open service** asks the **migration router** for the close; the router asks the
**notary daemons** of the old version until M of them attest one and the same
close, and returns it with their signatures.  The open service installs the new
app with that package as its `init` properties, drives `init`, compares the new
ledger with the close, and raises `safe_to_teardown` in its progress file.  The
operator destroys the old server on that latch.

## 1. Inventory

### Migration router (`migration-router/src`, a Cloudflare worker in TypeScript)

| part | state | operations | status |
|---|---|---|---|
| `POST /v1/migrate` (`handlers.ts` 169-437, `notary.ts`) | per request: the order drawn, `next`, `inFlight`, the signatures `Map`, `fixed`, the tally shared by all sources | validate, choose the sources, `attestSource`, `judge`, `settleIfIdle`, `shortResponse` | modelled |
| registry (`registry.ts`) | immutable once loaded | `load`, `source`, `sourcesReaching`, `forwardChain`, `furthestTargetOf` | modelled; the shape of an entry's fields is not |
| update check and published builds (`handlers.ts` 1-155, `builds.ts`) | a cache shared by the routers of a zone | choose the upgrade, page through the releases, keep the newest build of a lineage | modelled |
| worker and its binding (`worker.ts`) | the loaded registry | load from the binding, dispatch | the binding is, in `UpdateCheck` |
| entries, raw JSON, error bodies (`raw-json.ts`, `errors.ts`, `index*.ts`) | none | text of numbers kept as received | not modelled: formatting |

Hard: M daemons answer concurrently, each in its own time or never; an answer can
land after its source has settled and while the next one is being asked; every
answer that does not count starts another ask, so the promise resolves only if
the counters are right; a daemon may answer anything.  Correct means: the package
served is a quorum's and is the agent's close, a request is always answered, and
an error says no more than what was learnt (`no_close_found` above all).  The
update check reads a paged listing that shifts while it reads, through a cache
other routers write too, and its migration answer must need none of that; what it
offers, `migrate` must be able to serve.

### Notary daemon (`notary-daemon/src`, axum)

| part | state | operations | status |
|---|---|---|---|
| conductor connection (`conductor.rs`) and handlers (`http.rs`) | `State { link, attempts }`, the `connect` lock, the spawned reconnect tasks | `attest-close`, `healthz`, `Reconnecting::call`, `Shared::reconnect` | modelled |
| configuration, signing gate (`config.rs`, `signing.rs`, `main.rs`) | none | resolved once at the start; decides what each connect commits | modelled, in `OldServer` |

Hard: every request shares one connection; a restart of the conductor closes it,
a restart of lair leaves it open and useless; any number of requests lose it
together and one must replace it; a client that gives up drops its handler in the
middle.  Correct means: a connection that works is never replaced, no call runs
twice, an attempt that was started lands, every request is answered, and the
daemon serves again after a restart without being restarted itself.

### Headless migrator (`headless-migrator/src`)

| part | state | operations | status |
|---|---|---|---|
| close service (`close.rs`, `probe.rs`) | the old chain, the prepared payload, the in-memory `State`, the file | probe, drop fees, prepare, check, close, classify failures, exit to reconnect | modelled |
| approval policy (`policy.rs`) | working slots, reserve, retries of one notary | `collect_approvals` | modelled, in `CloseService` |
| progress file (`state_file.rs`) | one JSON file per agent and its temporary file | `write` with its three guards, `read`, `seed_from_persisted` | modelled |
| open service (`open.rs`, `fetch.rs`) | the in-memory `State`, app and chain on the conductor, the file | probe, fetch, join, install, enable, connect, drive `init`, verify, bounded wait | modelled |
| `status`, `verify` (`status.rs`, `verify.rs`) | the record they write | one read, a connect, a probe, one write; two zome calls and one write | modelled: beside the open service in `OpenService`, `status` on the old server in `OldServer`; the comparison of ledgers is abstracted to whether anything moved |
| joining service client (`joining.rs`) | the session of one pass | join, challenge and verify, reconnect, provision, the classification of each refusal | modelled |
| error classification (`dna_errors.rs`) | none | which error waits, retries or stops | the router's and the joining service's codes are (`FetchPackage`, `JoiningClient`); of the DNA's error texts only the outcomes |
| conductor client (`conductor.rs`) | the websockets | the calls | their effects and failures are |
| configuration, signing, CLI (`config.rs`, `signing.rs`, `main.rs`) | none | | the signing gate and the starts of close service and `status` are, in `OldServer`; parsing is not |

Hard: every call can fail, time out, or run and lose its answer; the process can
die anywhere and is restarted; the file is written by up to three processes; a
disk can refuse a write or lose the file; what `init` waits for may never come;
after the latch the old server is gone; a join is not idempotent and a refusal may
be final or not; a connect without lair writes to the agent's chain, and a closed
chain that is written to is warranted.  Correct means: what is reported closed
is closed and had M approvals, no latch goes up or is kept without an open and
verified chain, no latch is lost, the wait is bounded over all restarts, no
refusal that asking again would lift ends a run, no chain is written to unasked,
and what can finish finishes.

### Deployment

`.github`, `flake.nix` and the registries under `migration-router` are
configuration: not modelled.

### How the parts interact

* router -> daemon: `POST /v1/attest-close`, answers in any order or a timeout.
  `MigrateRouter` takes a daemon as what it can answer (`HonestAnswers`);
  `NotaryDaemon` is what stands behind that answer.
* open service -> router: one fetch.  `FetchPackage` is what it makes of the answer
  `MigrateRouter` gives; `OpenService` takes the router as the state
  `gossiping / serving / gone`.
* open service -> joining service: `Provisioning` states what the client promises,
  `JoiningClient` implements it, and `Join` of `OpenService` is its outcome.
* close service and `status` on the old server: one file and one chain, composed in
  `OldServer`, with the signing gate that decides what their connects commit.
* close service -> notaries: through the DNA's remote call, external to this
  repository (`Answers` in `CloseService`).
* open service, `status`, `verify`, operator: through the progress file only.
  `StateRecord` states its promise; `StateFile` and `OpenService` implement it.

`PROJECT.json` lists the hazards at their lines, with the properties that cover
each.

## 2. Modules

| module | models | main state | extends |
|---|---|---|---|
| `MigrateRouter` | one `/v1/migrate` request against all daemons of its sources | `asked`, `flying`, `signatures`, `fixed`, `tally`, `settled`, `response` | |
| `FetchPackage` | what `fetch_package` of the open service makes of that answer | none | `MigrateRouter` |
| `Registry` | what `Registry.load` accepts and the lookups of the handlers, as operators | none | |
| `UpdateCheck` | concurrent update checks of several routers, their cache, their releases and their registries | `cache`, `listing`, `binding`, per request `registry`, `target`, `page`, `read` | `Registry` |
| `NotaryDaemon` | concurrent requests on one reconnecting connection | `link`, `attempts`, `holder`, per request `pc`, `task`, `seen`, `found` | |
| `CloseService` | the close service with its approval policy | `chain`, `late`, `conn`, `pc`, `payload`, slots, `record`, `file` | |
| `OldServer` | **composition**: the close service, its supervisor, `status` beside it, the notary daemon's connects, and the signing gate of all three | `env`, `signing`, `grants`, `warranted`, `attached`, `report` | `CloseService` |
| `StateRecord` | the rules of the progress file; **abstract specification** `RecordSpec` | `file` | |
| `StateFile` | the system calls of `State::write`, three writers with nothing between them | `file`, `tmp`, per writer `record`, `out`, `handle`; history `crossed` | `StateRecord` |
| `OpenService` | open service, commands, agent and operator over that file | `record`, `pc`, `app`, `opened`, `verified`, `moved`, `router`, `clock`, `report`, `check` | `StateRecord` |
| `Provisioning` | **abstract specification** of the joining client: what a pass may end with | `outcome`, `admitted`, `denied` | |
| `JoiningClient` | the client's calls against the joining service | `pc`, `held`, `session`, `late`, `missing`, `allowed`, `revoked` | instantiates `Provisioning` |
| `*_proofs` | theorems and proofs of the module before the underscore (`MigrateRouter_proofs` also of `FetchPackage`) | | it, `TLAPS` |
| `MCRouter`, `MCDaemon`, `MCOldServer`, `MCStateFile`, `MCOpen`, `MCJoining`, `MCUpdateCheck` | instances for TLC | | |

How state and actions correspond to code:

* **MigrateRouter.**  One action per event the JavaScript runs to completion:
  `Migrate` (validation and the first `attestSource`), and an answer of one daemon
  (`.then` of `ask`, lines 413-425), split by what `judge` makes of it:
  `StoppingAnswer`, `AbandoningAnswer`, `UncountedAnswer`, `CountedAnswer`,
  `LateAnswer`.  The next ask, the settling of the source and the move of the loop
  to the next source happen in the same step.  (The code resumes the loop one
  microtask later; between the two an answer of the same source is a
  `LateAnswer`, which commutes with it.)  The shuffle is drawn as it is consumed.
* **Registry / UpdateCheck.**  A registry is the sequence of its entries, any at
  all; `Loads` is the conjunction of the checks of `load`, in its order.  `Check` is
  the worker's `fetch` (`Fetch`) and `updateCheck` up to its first await
  (`Choose`): the registry is captured and the target chosen there, before any
  scan.  `Hit`, `Miss`,
  `ReadPage`, `ReadFails` and `Store` are the stretches of `publishedBuilds`;
  an entry of the cache may `Expire` at any time, which covers both lifetimes and
  eviction.  `began` and `whole` are ghosts of a scan.
* **NotaryDaemon.**  One action per stretch between two awaits.  A handler and the
  task it spawned are separate: `GiveUp` drops the first and leaves the second.
  `seen` is the `attempts` count a request read with its link; `holder` is the
  `connect` lock; `ran` is a ghost counting the calls the conductor ran.
* **CloseService.**  `pc` names the call outstanding.  A call given up in
  `closing` leaves its payload in `late`, from where `LateClose` may still run it.
  A payload is named by the chain top it was prepared on, since the DNA's refusal
  depends on nothing else.  `vouched` is a ghost: who approved which payload.
* **StateRecord / StateFile.**  Latch, stamp and `opened` are the fields that
  outlive a run.  `StateFile` splits `write` at its system calls and follows the
  open descriptor through a rename (`handle`), so that a writer that fills a file
  another writer has renamed is not lost.  As in the code, nothing keeps two writes
  apart.  The history `crossed`, which no action looks at, tells whether writes have
  been under way at once, so that the properties can speak of those that were not.
* **OldServer.**  `Resolve` is the SigningPolicy of `signing.rs` for one unit's
  environment; where `ham` is asked with an opt-in beside half of lair's
  credentials, both of its answers are allowed.  `Connect(u)` is what a connect of
  unit u leaves on its chain: nothing through lair, a capability grant without.
  A grant on an open chain moves its top, so the close service may find its payload
  stale; one on a closed chain is what the notaries warrant (`CheckWarranted`).
  `CloseConnects`, `CloseHasNoTarget` and `CloseStarts` split the `Restart` of
  `CloseService` at the connect, the look at the target and the first attempt;
  everything else of that module runs unchanged (`CloseRuns`, `Disturbed`).
  `StatusConnects`, `StatusProbes`, `StatusWrites` are the awaits of `status::run`
  on a server without router parameters.
* **OpenService.**  One action per stretch between two awaits, the write of the
  file included.  `report` is the record a `status` command has read and not yet
  written; `check` is what a `verify` command has, first the package and then what it
  found, its fetch, its zome calls and its write being three steps (`VerifyFetch`,
  `VerifyRead`, `VerifyWrite`).  An error of the second admin call of `install_app` is
  classified as one of the first (`EnableApp`: transient, too early or final).  What the install lands on (`landing`) and whether the new chain opened
  with the close that was carried (`matching`) are chosen once; `moved` is whether
  transactions have changed the ledger since (`Transact`, at any time after the
  open, and possibly back to the old balance).  A verify, the service's or the
  command's, passes when both agree (`LedgerMatches`); `verified` is a ghost that
  remembers that one saw them agree, so that the latch can be judged by it and not
  by the ledger of the moment.  `Damage` is a disk that loses the file.
* **JoiningClient.**  One action per request of the client, with every answer the
  service may give in that state and every class the code puts it in
  (`PostJoin`, `PostVerify`, `PostReconnect`, `GetProvision`); a request given up at
  its timeout goes to `late` and may be carried out later (`LateCall`).  `missing`
  is what a starting node lacks: the tunnel, lair, a synchronised clock.  The key lair
  signs with is the one the close carries, another, or lair holds none for the agent
  (`signer`); a pass that cannot sign (`Signs`) waits and tries again.  The
  service is external; its answers are those `joining.rs`, `dna_errors.rs` and
  their tests name.
* **Provisioning.**  `outcome` is `asking`, `provided` or `refused`; a run may end as
  refused only when asking again the same way cannot help.  `JoiningClient` maps
  `pc` to `outcome`, and the service's tables to `admitted` and `denied`.

## 3. Runs

All times are of two workers; every run is exhaustive within its bounds.

| run | properties | what it shows |
|---|---|---|
| `router` | `TypeOK`, `PackageIsAQuorum`, `PackageIsTheAgentsClose`, `WindowIsKept`, `NotFoundMeansUnattested`, `OutagesAreNotFaults`, `LagIsWaitedOut`, `EventuallyAnswered`, `ServableIsServed` | one chain of versions with a source whose daemons only fall short, one with two liars among four, one with outages and shared keys, one where a liar stands beside two daemons that attest, one with the agent's key: every request is answered, one that a quorum can serve with the package, what is served is a quorum's and the agent's close, and neither lag nor an outage ends the open service that asked |
| `update_check` | `OfferIsFurthest`, `OfferIsServed`, `BuildsAreOwn`, `ScanMissesNothing`, `ChecksAreAnswered` | 16,145 registries, most of them refused, and two overlapping requests of two routers with a shared cache, while releases are published and registries deployed |
| `daemon` | `TypeOK`, `CallsRunOnce`, `GoodConnectionsAreKept`, `AttemptsLand`, `EveryRequestIsAnswered`, `RecoveredIsServed` | an impatient attestation and a health check, over three disruptions of a conductor that also fails by itself, or only by restarting |
| `old_server` | `ServerTypeOK`, `GrantsAreOptedInto`, `ReportsAreTrue`, `ClosedIsTrue`, `CommittedWasApproved`, `SlotsCanReachM`, `GivesUpOnlyWhenShort`, `EndsAttestable` | two halves.  The server: close service, `status` and notary daemon under every kind of signing environment, restarted and failing: no chain is written to unasked, no report says closed of an open chain, and through lair the chain ends closed and attestable.  The close service alone in rough weather: lost answers, late closes, torn closes, misfit binaries, disk faults, a notary that answers anything |
| `state_file` | `RecordKept`, `LoneWritesMend` | three writers in every interleaving, killed or failing between any two system calls, and a loss of the file: while no two writes have met the file's promise is kept, and after any that did the next that meets no other leaves a whole record and lowers no latch |
| `open` | `TeardownIsSafe`, `DoneIsVerified`, `RecordSpec`, `VerifiedRestartFinishes`, `EventuallyOpened`, `WaitsEnd` | every landing, ledger and refusal, a failing disk, a lost file, interleaved commands, an agent that transacts; and, in the calm half, that what can finish does |
| `joining` | `TypeOK`, `PromiseKept`, `EventuallyProvided`, `RefusalsEnd` | every set-up of service and node, calls lost before or after they were carried out, expired sessions, a lair that restarts, an operator who allows and blocks |
| `state_race` | `LatchNeverLowered`, **violated** | finding 1 |
| `state_torn` | `FileIsWhole`, **violated** | finding 2 |
| `open_stuck` | `VerifiedIsFinished`, **violated** | finding 3 |
| `open_resume` | `InstallIsResumed`, **violated** | finding 4 |
| `join_tunnel` | `PromiseKept`, **violated** | finding 5 |

### Bounds, and why they suffice

* Router: five versions in one instance, so that a root, a source that binds
  elsewhere, and a second, third and fourth source occur; 2 of 2, 2 of 3, 3 of 4 and
  2 of 5 notaries, so that the window slides, the reserve runs out, two liars can
  agree without reaching M and one key answers twice.  The three are a liar, a daemon
  that attests whenever it is asked and one with the agent's key: the second must keep
  `no_close_found` away in any order.  The two liars among four can also redirect
  their source.  Two close actions, so that a forged close exists.  Nothing else in a request grows.
* Update check: three DNAs give every chain, tree, cycle and gap with targets
  ahead, behind, repeated and missing; `<<>>` and single defects (`Defects`) add
  the thresholds and notaries.  Requests with builds run under two registries of
  them (`Busy`, the one before and the one after a publish), since a scan does
  not look at the registry.  Two releases to a page and two pages: a page of
  drafts, a release that shifts the pages of a scan, a listing cut off at the cap.
* Daemon: a health check makes two calls, an attestation one, which gives a
  caller that lost the link, one that looked before the attempt and one that
  looked after; three `MaxDisruptions` let a new connection be lost again.
  `Weathers` chooses in each behaviour whether calls and connects fail by
  themselves, which decides what `RecoveredIsServed` may expect.
* Old server: the list of notaries has a key twice, so three distinct ones for M = 2,
  one in reserve; `Retries = 1` reaches "same notary again" and "substitute".  The
  variable `rough` of the instance chooses its half once.  The half that is the close
  service alone has one fault of any kind over every other disturbance, and
  `MaxTop = 1` lets the chain move under a prepared payload once; its properties are
  of safety.  The half that is the server has six deployments
  (`MCDeployments`) that between them give the units lair, lair beside an opt-in, half
  of lair, the same beside an opt-in, a malformed url, the opt-in alone, an opt-in that
  is neither on nor off, and no target; there `MaxFaults = 2` lets an answer be lost
  and the recovery fail.  `MaxGrants = 1` bounds how often a unit without lair
  connects: the first grant already warrants the chain or moves it.  One run of
  `status` (`MaxStatuses = 1`) can read before and write after any step of the
  service.
* File: three writers, two clock readings: a write, a second one that read before it,
  and one that starts in between.  One loss of the file in `state_file`, none in the
  two violated runs, which need none.  The two commands are exchanged by a symmetry,
  sound here since both properties are of steps and not of liveness.
* Open: `Budget = 2` ticks make "within", "at" and "past" the budget; two
  faults suffice to lose an answer, or die, and die again in the recovery.  `Calms`
  chooses in each behaviour whether anybody refuses for good and the disk fails:
  the liveness properties speak of the calm ones, the safety properties of all.
  That install and enable come apart is left to the others, too, since the liveness
  properties fail there: finding 4.
* Joining: every flow on a good set-up and the two that can succeed with one thing
  wrong, a lair with another key or without one included (`MCTerms`); two faults lose a call and
  the one that recovers from it, and three sessions are the one in hand, one that a late call makes and a free one.
  `Drops` is what goes down again: lair in `joining`, the tunnel too in
  `join_tunnel`.

### Fairness

* Router (`Fairness`): weak fairness of the answers as one action, since
  `attestClose` aborts at `ATTEST_TIMEOUT_MS` and never throws; a finite number of
  asks is then answered.  No order is assumed.
* Update check: weak fairness of each handler once it looks up builds: a read ends
  or runs into `FETCH_TIMEOUT_MS`, and the cache answers or fails.  No request has
  to come, no release, no deployment.
* Daemon: weak fairness per handler and per task, since tokio polls each and every
  await in them has a timeout or needs the lock, whose holder is itself a task;
  and of `Start`, a stopped conductor being started by its supervisor.  Nothing
  is assumed of `Fail`, `GiveUp`, `Stop`.
* Old server: weak fairness of `CloseConnects`, `CloseStarts` (systemd starts what
  exited nonzero or died, `Restart=on-failure`, and a connect ends) and of
  `CloseRuns` (every call is answered, fails or times out, the backoffs are
  finite).  Nothing is assumed of what goes wrong, which `MaxFaults` bounds, nor of
  `status` and the notary daemon.  Of the half with the close service alone none is
  assumed.
* Open: weak fairness of the service as a whole, for the same reasons, of `Tick` (time passes) and of `Gossip` (a
  committed close reaches its notaries).  `Arrive` is *not* fair: what `init` waits
  for may never come, and the wait must end all the same.
* Joining: weak fairness of the client (calls answer or time out, passes and runs
  follow each other) and of each `Arrive` (a node that starts gets its tunnel, lair
  and clock in the end).  The operator may do nothing, and nothing is assumed of
  calls given up.
* File: weak fairness of a write's own calls in `state_race`, which keeps its
  counterexample from resting on a writer that stops; `state_file` and `state_torn`
  assume none.

## 4. Proofs

The theorems hold for every value of the constants the named assumptions
(`RegistryAssumption`, `DaemonAssumption`, `CloseAssumption`,
`OldServerAssumption`, `RecordAssumption`, `WriterAssumption`, `OpenAssumption`,
`JoiningAssumption`, `MissingAssumption`, `UpdateAssumption`) admit, finite or not;
TLC evaluates those assumptions in every run.

* **MigrateRouter_proofs**: `TypeCorrect`, `WindowTheorem`, `QuorumTheorem`,
  `PackageIsHonest`, `NotFoundTheorem`, `OutageTheorem`, `LagTheorem`,
  `ServableTheorem`, `RunOutTheorem`, `FinalTheorem`.  The
  invariants the runs check are not inductive: that the window adds up to M says
  nothing after a step unless the answers awaited, those given and those counted
  are told apart.  The strengthening says, for every source, that who is in flight
  was asked and is listed, that a source not begun is untouched, that each counted
  daemon was asked, answered and signed once, so that the signatures in the `Map`
  are as many as the daemons behind them.  A package with M signatures by M daemons
  then has an honest one among them when fewer than M are faulty (a cardinality
  argument), and an honest daemon attests only the true close.  `NotFoundTheorem`,
  `OutageTheorem` and `LagTheorem` rest
  on a second invariant (`IEnd`, `EndInvariance`): a source settled short of M with
  a signature has raised its flag, not-found is answered only with every candidate
  settled and no flag, and while no faulty daemon attests, what a source has fixed
  is its true close, so that nobody disagrees.  `NotFoundTheorem` adds
  `ITold`: until a fault is tallied, a daemon that attests whenever it is asked has
  left its key in the `Map` once its answer has landed (or it is the agent's key), and
  a source no faulty daemon can redirect settles only when all have.
  `ServableTheorem` adds `ISeen`: the key of each honest daemon that has answered is in the `Map`, so a source with
  M honest keys cannot run out of daemons short of M, whatever came of the sources
  before it.  `RunOutTheorem` is the variant under `EventuallyAnswered`: every
  answer uses up one daemon of one source for good; `FinalTheorem` says that what
  lands after the response changes no part of it.
* **NotaryDaemon_proofs**: `TypeCorrect`, `GoodConnectionsTheorem`, `CallsTheorem`,
  `RecoveredTheorem`, `AdvanceTheorem`.
  A link is replaced only by the holder of the lock, who found `attempts` as it had
  seen it; the invariant carries what that count stands for: while it is unchanged,
  the link is the one the request saw, and a request reconnects only from a link
  that was lost; a lost connection stays lost.  That no call runs twice follows from
  what has run at each place of the handler (`RanInv`).  After a recovery the links
  are healed and stay so (`Healed`: tasks left from before can only install links that
  work), and a request that starts then is at each of its places one that can only
  succeed (`OnItsWay`).  `AdvanceTheorem` ranks the places of a handler: each
  of its steps raises its rank, which is bounded, and no step of another lowers it.
* **CloseService_proofs**: `TypeCorrect`, `SlotsTheorem`, `ApprovedTheorem`,
  `ClosedTheorem`, `GivesUpTheorem`, `AttemptTheorem`.  A payload that is being closed, or abandoned
  in `late`, had M distinct approvers when it left the policy, and `vouched` only
  grows; places approved are distinct keys, which turns places into notaries.  An
  attempt that goes from asking to its backoff has spent its reserve, which with
  the disjointness of the slots counts what is left below M.  `AttemptTheorem` turns
  the count around: with M honest notaries of different keys (`Approvable`) every
  slot lost is a notary that is not one of them, so the reserve cannot run out, and
  an attempt during which no call fails and nothing moves the chain (`Undisturbed`,
  of counters that only grow) goes on to the close.
* **OldServer_proofs**: `ServerTypeCorrect`, `GrantsTheorem`, `ReportsTheorem`,
  `ServerApprovedTheorem`, `AttestableTheorem`.  The invariant of the close service is reused: a grant
  moves an open chain as the agent does, and leaves a closed one closed where it
  is.  Beside it stand the gate (each unit's signing is one `Resolve` admits) and
  that a grant is only ever that of a unit which was told to; while the
  close service goes through lair and `status` grants nothing (`ThroughLair`, which no
  step ends), neither writes past a close, and nothing is warranted.
* **StateFile_proofs**: `RecordTheorem`, `WholeTheorem`, `MendTheorem`, of any set of
  writers in any interleaving.  Until two writes meet (`crossed = "never"`), a
  temporary file that is about to be renamed holds the whole record of its writer,
  which was guarded against the very file it replaces; so the file's promise is kept
  and a reader finds no half of a file.  `MendTheorem` says what is left when they have
  met: the invariant of a write that meets no other speaks of its own temporary file and
  the file it read, and of nothing that earlier writes left behind.
* **OpenService_proofs**: `TypeCorrect`, `TeardownTheorem`, `DoneTheorem`,
  `RecordTheorem`, `WaitTheorem`, `RestartTheorem`, `PackageFirstTheorem`.  The latch, in the file, in memory or in the hands of a
  `status` command, is up only once the chain is open and a verify saw it match;
  both are facts about the past that no transaction takes back, which is why the
  ghost `verified` is in the invariant and the ledger of the moment is not.  What a
  `verify` command found and has not written yet is true of the past in the same way
  (`CheckIsTrue`).  The old server is destroyed only on the latch.  `WaitTheorem` and `RestartTheorem` are of
  the calm half of the runs (nobody refuses for good, the disk works): file and
  memory then hold one stamp of the first wait (`OneStamp`, `Carried`), so that a
  restart does not begin the budget anew; and a service that finds the latch passes
  only through the places of `Resting`, to none of which a router, a joining service
  or a second verify belongs.  `PackageFirstTheorem` orders the pipeline: while the
  close is not attested there is no app, no open chain, no latch.
* **JoiningClient_proofs**: `TypeCorrect`, `PassTheorem`, and `ImplementsPromise`: the client
  implements `Provisioning`, every step being one of its actions or a stutter,
  under the hypothesis that a tunnel that is up stays up (`"tunnel" \notin Drops`),
  without which it is false (finding 5).  The invariant is that past the join of a
  pass the tunnel is up (`PastJoin`): so the 404 of the reconnect is the service's.
  `PassTheorem` follows one pass of an admissible key through its requests
  (`OnCourse`: what the service holds of the key at each of them), whatever
  sessions earlier passes left behind, to show that none is answered with a refusal
  or a reason to ask later.
* **UpdateCheck_proofs**: `ScanTheorem`, `BuildsTheorem`, `FurthestTheorem`,
  `ServedTheorem`, `LoadedRegistryTheorem`, `AdvanceTheorem`, `NoErrorTheorem`.  That a scan's builds hold
  what was listed is not inductive; what is: the listing is the one the scan began
  with behind k newer releases, and what that one had before the end of the last
  page read, less k, has been read (`ScanCovers`).  A release adds one to k and so
  asks for less; a short page asks for everything.  That an answer's builds are its
  own router's follows from the same being true of every scan and of every entry of
  the cache under that router's keys (`OwnInv`), and of the choice of the newest: a
  finite set of builds has one of highest patch (by well-foundedness of the
  naturals).  `FurthestTheorem` and `ServedTheorem` are about walks of a registry of
  any length.  A forward walk visits all that lies ahead, in order, and ends: in a
  registry that loads, a step forward is undone by a step back, and every walk back
  ends (`Acyclic`).  Where that takes induction on the length of a walk, the proof
  takes the least counterexample instead.  The registry a handler read need not be the
  one deployed when it answers; by `OfferInv` what it answers is its choice in the one
  it read.  `LoadedRegistryTheorem` joins the two halves of the router: the
  constants a loaded registry gives meet the `RegistryAssumption` under which
  `/v1/migrate` is proved.  `NoErrorTheorem` and `AdvanceTheorem` are what
  `ChecksAreAnswered` comes to without fairness: an answer can only be a good one, and
  it is at most `MaxPages` reads and three steps away.

The file's promise is thus shown of both: the system calls keep it until two writes
meet, and the programs, for which a write is one step, implement it (`RecordSpec`).

Only model-checked: the liveness properties themselves, since the proof system
reasons about neither fairness nor `ENABLED`.  Of most of them what is left to TLC
is only that fair steps are taken, since a theorem states the rest for all constants:
either that the wrong end cannot come, or a variant that bounds the steps.

| model-checked | proved beside it |
|---|---|
| `EventuallyAnswered` | `RunOutTheorem`, with `WindowTheorem`: an answer is always awaited, and each uses up a daemon |
| `EveryRequestIsAnswered` | `AdvanceTheorem` of the daemon |
| `ChecksAreAnswered` | `AdvanceTheorem` of the update check, `NoErrorTheorem` |
| `EndsAttestable` | `AttestableTheorem`; of one attempt, `AttemptTheorem` |
| `WaitsEnd` | `WaitTheorem` |
| `VerifiedRestartFinishes` | `RestartTheorem` |
| `EventuallyProvided` | `PassTheorem` |
| `AttemptsLand`, `EventuallyOpened`, `RefusalsEnd` | none: their steps depend on what other processes do in between |

Every other property of the passing runs is a theorem, `PromiseKept` under
`"tunnel" \notin Drops`, as in its run.

## 5. Findings

1. **The latch can be lowered by a racing writer** (`state_race`).
   `state_file.rs` 171-173 promises that no later write lowers `safe_to_teardown`.
   `write` reads the prior record and renames its own over it, with nothing to keep
   another process out in between.  The window is a few system calls.
2. **Writes that meet can leave half a file** (`state_torn`).  `state_file.rs` 3-4 and
   168-169 promise that a reader never sees one.  All writers of a path share its one
   `.json.tmp` (252-254): a `status` that truncates it after the service has filled it
   has the service rename an empty file into place, with no call failing.  Readers
   then find no record.  The next write that raises the latch repairs it; any other
   is refused (233-240), so that an unfinished migration stops recording until the
   file is removed.
3. **A running open service does not see a latch a `verify` raised** (`open_stuck`).
   Its short circuit (`open.rs` 408) reads the copy seeded at its start.  If the
   operator destroys the old server on the file's word, that run fetches for ever
   from a router that cannot serve; a restart ends it (`VerifiedRestartFinishes`
   holds).  `state_file.rs` 321-324 says the short circuit checks "the SAME value
   the file holds".
4. **An app installed and not enabled is never enabled** (`open_resume`).
   `install_app` is two admin calls; a run that ends between them leaves an app
   that later runs take for installed.  `probe.rs` 1-3 says that every service
   "resumes from the first incomplete step".
5. **A tunnel that goes down between join and reconnect ends the run** (`join_tunnel`).
   A bare 404 to the reconnect is a hard stop (`joining.rs` 512), on the ground that
   the join of the same pass was answered (499-501).  In between lie a signature and
   a second request; the tunnel's own 404, which `joining.rs` 283-285 calls "nobody
   refusing anything", then ends the run with `JoinError::Permanent` over a key the
   service would provision.  While the tunnel stays up the promise holds
   (`ImplementsPromise`).

Remarks, not stated as findings:

* A transaction on the new chain between its open and the first verify that sees
  it makes that verify, and every later one, a mismatch and a hard stop: the close
  is compared with the ledger of the moment.  `verify.rs` 34-37 names the assumption
  ("before any new transaction").  `EventuallyOpened` therefore ends in a latch or
  in such a transaction; after the latch a restart does not verify again
  (`VerifiedRestartFinishes`).

* `no_close_found` can be answered although a daemon attested the close, in two cases.
  A signature by the agent's own key is dropped without a flag (`handlers.ts` 387; the
  test of `migrate.test.ts` expects it).  And a source is abandoned when a faulty daemon
  attests a close of another target first (378-381); what its other daemons say then is
  dropped (416).  `NotFoundMeansUnattested` is stated up to these two.
* A lair that does not hold the carried key is asked again for ever: a failing signature
  is transient by design (`joining.rs` 395, 474).  `EventuallyProvided` and `RefusalsEnd`
  are of a lair that can sign.
* The first attestation fixes the package of its source before its signer counts.
  A single faulty daemon that happens to answer first makes the honest ones
  disagree, and the request answers 500.  What is served stays right
  (`PackageIsTheAgentsClose`); availability against a liar is not promised.
* `policy.rs` 115 describes `Exhausted` as "every notary was asked"; it is returned
  (264-272) as soon as the reserve cannot replace a failed slot, working slots
  unasked.  M cannot be reached then (`GivesUpOnlyWhenShort`).
* `policy.rs` 113 calls `Warranted` a hard stop for the whole migration; nothing
  records it, and the run systemd starts next asks notaries again.
* A scan that fails stores its empty or partial result over a full one
  (`builds.ts` 122), and of two that overlap the last one to finish stays.  The
  answer then lacks `latest_build` for up to that entry's lifetime; the code
  accepts this (`handlers.ts` 111: absent is not "up to date").
* `ScanMissesNothing` assumes that releases are only ever added.  One deleted in
  the middle of a scan shifts the pages the other way and can hide another.
* The test `each_request_makes_at_most_one_reconnect` (`notary-daemon/tests/
  reconnect.rs` 285) is of requests with one call; a `healthz`, which makes two, can
  reconnect for each.

## 6. Not modelled, and why

* Cryptography, hashing, JSON and the wording of messages: daemons' signatures
  are keys, packages are compared as values.  The router compares texts;
  `raw-json.ts` is what makes text equality value equality.
* Matching of error texts (`dna_errors.rs`): string matching against an external
  program's messages.  The codes of router and joining service are modelled as
  codes; of the DNA's texts (`PendingPrecondition` and the others) only what each
  class leads to, as the alternatives of the actions.
* The comparison of a ledger with a close, field by field (`verify.rs`): whether
  they agree is what the properties tell apart (`LedgerMatches`).  The balances, agreements and
  records behind it are arithmetic on external types.
* Building of payloads and requests (`conductor.rs`), the invocation of `lair-sign`
  beyond whether it can sign and with which key.
* Backoff durations: a backoff is a state that is left.
* The holochain conductor, lair, the DNA and the joining service are external:
  modelled from how the code calls them.
* Rate limits and TLS of the daemons' front: an answer `rate_limited`.
* Parsing of configurations and command lines, apart from the signing gate: read
  once, and a value that does not parse fails the start.
* A faulty daemon that keeps the honest ones from agreeing, a `Warranted` answer that
  nothing records, a state file corrupted after the teardown, the `opened` flag of a
  restarted run, and a scan that replaces a better one: the code promises nothing
  of these (see the remarks), so no property states it.

## 7. Plan

Written, in order: `MigrateRouter`, `NotaryDaemon`, `CloseService`, `StateRecord`,
`StateFile`, `OpenService`, `Registry`, `UpdateCheck`, `JoiningClient` with
`Provisioning`, `FetchPackage`, `OldServer`, each with its instance, and with proofs
where it has properties the proof system reaches.

Left, in order:

1. `Ceremony`: an abstract specification (closed -> attested -> opened -> verified
   -> old server destroyed) that a composition of `OldServer`, `MigrateRouter` and
   `OpenService` implements.  What one module assumes of the next is at present
   stated at their seams: `TrueClose` is a chain `CommittedWasApproved` speaks of,
   `router` of `OpenService` is `EventuallyAnswered` and `ServableIsServed`.
2. `MigratePromise`: an abstract specification of one `/v1/migrate` request (a
   package that a quorum signed, not found, try again, fault) that `MigrateRouter`
   implements; its parts are proved as separate theorems at present.
3. A lock around the writes of the state file, should the code get one: `RecordSpec` and
   `FileIsWhole` would then be properties of `StateFile` without a history.
