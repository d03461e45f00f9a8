---------------------------- MODULE MigrateRouter ----------------------------
(***************************************************************************)
(* POST /v1/migrate of the migration router (migration-router/src):       *)
(* `migrate` validates one request against the registry, then asks the     *)
(* notary daemons of each candidate source, M at once, through             *)
(* `attestSource`, until M of them attest one close.  Daemons answer in    *)
(* any order, and an answer can arrive after its source has settled.       *)
(*                                                                         *)
(* A request shares no state with another one, so a behaviour is the       *)
(* handling of one request.                                                *)
(***************************************************************************)
EXTENDS Integers, FiniteSets

CONSTANTS
    Dna,             \* the DNA hashes a request or a close can name
    NoDna,           \* an absent hash
    Registered,      \* the DNAs of the registry
    Rank,            \* Rank[s]: the position of s in the registry
    UpgradesFrom,    \* UpgradesFrom[s]: its predecessor, or NoDna on a root
    UpgradeTargets,  \* UpgradeTargets[s]: what a close on s may bind
    Notaries,        \* Notaries[s]: the daemons listed for s
    Threshold,       \* Threshold[s]: closing_threshold, M
    Key,             \* public keys, of the agent and of notaries
    Agent,           \* the key of the agent the request is for
    Action,          \* close actions
    NoPackage,       \* no close: what `fixed` holds at first
    TrueClose,       \* TrueClose[s]: what the agent's chain on s holds, or NoPackage
    KeyOf,           \* KeyOf[d]: the key daemon d signs with
    Faulty,          \* the daemons that answer anything
    FaultyAnswers,   \* FaultyAnswers[d]: what faulty daemon d answers
    HonestReplies,   \* HonestReplies[d]: what honest d answers beside the close it sees
    Requests         \* the requests the router can receive

-----------------------------------------------------------------------------
Daemon == UNION {Notaries[s] : s \in Registered}

\* One daemon's attestation, as the router reads it out of the package text:
\* two packages are equal when their payload and close_action texts are.
Package == [source : Dna, agent : Key, target : Dna, action : Action]

\* DAEMON_CODES, and the two answers that carry no code.
ErrorCode == {"warranted", "bad_request", "no_close_found", "unable_to_verify",
              "auth_failed", "rate_limited", "internal"}
ReplyKind == ErrorCode \cup {"malformed", "unreachable"}

\* An answer that attests nothing.
Reply(k) == [kind |-> k, package |-> NoPackage, signer |-> Agent]
Attestation(p, k) == [kind |-> "attestation", package |-> p, signer |-> k]

DaemonAnswer == {Reply(k) : k \in ReplyKind}
                  \cup {Attestation(p, k) : p \in Package, k \in Key}

Flag == {"fault", "unableToVerify", "authFailed", "rateLimited", "unreachable"}

ASSUME RegistryAssumption ==
    /\ NoDna \notin Dna
    /\ Registered \subseteq Dna
    /\ Rank \in [Registered -> Nat]
    /\ UpgradesFrom \in [Registered -> Registered \cup {NoDna}]
    /\ UpgradeTargets \in [Registered -> SUBSET Registered]
    /\ DOMAIN Notaries = Registered
    /\ \A s \in Registered : IsFiniteSet(Notaries[s])
    /\ Threshold \in [Registered -> Nat]
    \* Registry.load: a source has a threshold from 1 to its notaries.
    /\ \A s \in Registered : UpgradeTargets[s] # {} =>
          Threshold[s] \in 1..Cardinality(Notaries[s])

ASSUME DaemonAssumption ==
    /\ Agent \in Key
    /\ NoPackage \notin Package
    /\ TrueClose \in [Registered -> Package \cup {NoPackage}]
    \* A notary attests the agent's chain on the DNA of its own cell.
    /\ \A s \in Registered : TrueClose[s] # NoPackage =>
          TrueClose[s].source = s /\ TrueClose[s].agent = Agent
    /\ KeyOf \in [Daemon -> Key]
    /\ Faulty \subseteq Daemon
    /\ FaultyAnswers \in [Daemon -> SUBSET DaemonAnswer]
    /\ HonestReplies \in [Daemon -> SUBSET ReplyKind]
    /\ Requests \subseteq [from : Dna \cup {NoDna}, to : Dna \cup {NoDna}]

-----------------------------------------------------------------------------
VARIABLES
    request,     \* the request being handled
    source,      \* the source being asked; NoDna before the first
    settled,     \* the sources whose attestSource has resolved
    asked,       \* asked[s]: order[0..next), the daemons asked so far
    flying,      \* flying[s]: the daemons of s that have not answered yet
    signatures,  \* signatures[s]: the Map, as <<signer, the daemon it came from>>
    fixed,       \* fixed[s]: the package every later answer must repeat
    tally,       \* the flags raised by the answers that did not count
    response     \* "none", "package" or the error code answered

vars == <<request, source, settled, asked, flying, signatures, fixed, tally, response>>

Answered == {"none", "package", "bad_request", "unknown_to_dna", "to_is_chain_root",
             "unknown_from_dna", "unreachable_target", "warranted", "internal",
             "unable_to_verify", "auth_failed", "rate_limited", "all_orgs_unhealthy",
             "no_close_found"}

TypeOK ==
    /\ request \in [from : Dna \cup {NoDna}, to : Dna \cup {NoDna}]
    /\ source \in Registered \cup {NoDna}
    /\ settled \subseteq Registered
    /\ asked \in [Registered -> SUBSET Daemon]
    /\ flying \in [Registered -> SUBSET Daemon]
    /\ signatures \in [Registered -> SUBSET (Key \X Daemon)]
    /\ fixed \in [Registered -> Package \cup {NoPackage}]
    /\ tally \subseteq Flag
    /\ response \in Answered

Init ==
    /\ request \in Requests
    /\ source = NoDna
    /\ settled = {}
    /\ asked = [s \in Registered |-> {}]
    /\ flying = [s \in Registered |-> {}]
    /\ signatures = [s \in Registered |-> {}]
    /\ fixed = [s \in Registered |-> NoPackage]
    /\ tally = {}
    /\ response = "none"

-----------------------------------------------------------------------------
(* The request. *)

\* registry.source and registry.sourcesReaching: the sources that list the
\* requested target, or the one the request names if it does.
Candidates ==
    {s \in Registered : /\ request.to \in UpgradeTargets[s]
                        /\ request.from \in {NoDna, s}}

\* What `migrate` answers without asking a daemon; "none" when it asks.  A missing
\* `agent_pubkey` is answered as a missing `to_dna_hash` is, which stands for both.
Refusal ==
    CASE request.to = NoDna -> "bad_request"
      [] request.to \notin Registered \cup {NoDna} -> "unknown_to_dna"
      [] OTHER -> IF UpgradesFrom[request.to] = NoDna THEN "to_is_chain_root"
                  ELSE IF request.from \notin Registered \cup {NoDna} THEN "unknown_from_dna"
                  ELSE IF Candidates = {} THEN "unreachable_target"
                  ELSE "none"

\* The next source in registry order.
IsNext(s, done) ==
    /\ s \in Candidates \ done
    /\ \A t \in Candidates \ done : Rank[s] <= Rank[t]

\* The first M of the random order, asked at once.
Openings(s) == {D \in SUBSET Notaries[s] : Cardinality(D) = Threshold[s]}

\* attestSource for s, `inFlight` being what is still in flight elsewhere.
Begin(s, inFlight) ==
    /\ source' = s
    /\ \E D \in Openings(s) :
          /\ asked' = [asked EXCEPT ![s] = D]
          /\ flying' = [inFlight EXCEPT ![s] = D]

Migrate ==
    /\ source = NoDna
    /\ response = "none"
    /\ response' = Refusal
    /\ IF Refusal = "none"
       THEN \E s \in Registered : IsNext(s, {}) /\ Begin(s, flying)
       ELSE UNCHANGED <<source, asked, flying>>
    /\ UNCHANGED <<request, settled, signatures, fixed, tally>>

-----------------------------------------------------------------------------
(* What a daemon answers. *)

HonestAnswers(s, d) ==
    {Reply(k) : k \in HonestReplies[d]}
      \cup (IF TrueClose[s] = NoPackage THEN {Reply("no_close_found")}
                                        ELSE {Attestation(TrueClose[s], KeyOf[d])})

Answers(s, d) == IF d \in Faulty THEN FaultyAnswers[d] ELSE HonestAnswers(s, d)

-----------------------------------------------------------------------------
(* judge: what one answer does to the source it answers for. *)

Signers(s) == {sig[1] : sig \in signatures[s]}

\* An attestation of this source's chain of this agent.
Own(s, a) ==
    /\ a.kind = "attestation"
    /\ a.package.source = s
    /\ a.package.agent = Agent

\* Nothing fixed the package yet, and this one binds another target.
BindsElsewhere(s, a) ==
    /\ Own(s, a)
    /\ fixed[s] = NoPackage
    /\ a.package.target # request.to

\* `fixed ??=`: the first attestation of the source fixes the package, before
\* its signer is looked at.
Fixing(s, a) == IF Own(s, a) /\ fixed[s] = NoPackage THEN a.package ELSE fixed[s]

\* Mutant: the package text is not compared with the fixed one.
AgreesUncompared(s, a) == Own(s, a)

Agrees(s, a) == Own(s, a) /\ a.package = Fixing(s, a)

\* Mutant: a repeated signer counts again.
CountsRepeated(s, a) == Agrees(s, a) /\ a.signer # Agent

Counts(s, a) ==
    /\ Agrees(s, a)
    /\ a.signer # Agent
    /\ a.signer \notin Signers(s)

\* The answers that end the whole request.
Stops(a) == a.kind \in {"warranted", "bad_request"}

\* Mutant: a repeated or own signature is blamed as a disagreement.
BlameUncounted(s, a) ==
    CASE a.kind = "unreachable" -> {"unreachable"}
      [] a.kind \in {"malformed", "internal", "attestation"} -> {"fault"}
      [] a.kind = "unable_to_verify" -> {"unableToVerify"}
      [] a.kind = "auth_failed" -> {"authFailed"}
      [] a.kind = "rate_limited" -> {"rateLimited"}
      [] OTHER -> {}

\* The flags an answer that does not count raises.
Blame(s, a) ==
    CASE a.kind = "unreachable" -> {"unreachable"}
      [] a.kind \in {"malformed", "internal"} -> {"fault"}
      [] a.kind = "unable_to_verify" -> {"unableToVerify"}
      [] a.kind = "auth_failed" -> {"authFailed"}
      [] a.kind = "rate_limited" -> {"rateLimited"}
      [] a.kind = "attestation" -> IF Agrees(s, a) THEN {} ELSE {"fault"}
      [] OTHER -> {}

\* Mutant: the flag is answered as it stands.
ShortResponseRaw(flags) == IF flags = {} THEN "no_close_found" ELSE CHOOSE f \in flags : TRUE

\* First match wins.
ShortResponse(flags) ==
    IF "fault" \in flags THEN "internal"
    ELSE IF "unableToVerify" \in flags THEN "unable_to_verify"
    ELSE IF "authFailed" \in flags THEN "auth_failed"
    ELSE IF "rateLimited" \in flags THEN "rate_limited"
    ELSE IF "unreachable" \in flags THEN "all_orgs_unhealthy"
    ELSE "no_close_found"

-----------------------------------------------------------------------------
(* Settling a source.  Each of these takes d's answer for s out of the air.  *)

Landed(s, d) == [flying EXCEPT ![s] = @ \ {d}]

\* Mutant: the first source that falls short is the last one tried.
NextSourceNever(s, d, flags) ==
    /\ settled' = settled \cup {s}
    /\ tally' = flags
    /\ response' = ShortResponse(flags)
    /\ flying' = Landed(s, d)
    /\ UNCHANGED <<source, asked>>

\* The source did not reach M: the loop of `migrate` goes on to the next one,
\* or answers what the tally says.
NextSource(s, d, flags) ==
    /\ settled' = settled \cup {s}
    /\ tally' = flags
    /\ \/ /\ Candidates \subseteq settled'
          /\ response' = ShortResponse(flags)
          /\ flying' = Landed(s, d)
          /\ UNCHANGED <<source, asked>>
       \/ /\ \E t \in Registered : IsNext(t, settled') /\ Begin(t, Landed(s, d))
          /\ UNCHANGED response

Respond(s, d, code) ==
    /\ settled' = settled \cup {s}
    /\ response' = code
    /\ flying' = Landed(s, d)
    /\ UNCHANGED <<source, asked, tally>>

\* Mutant: a source some daemons attested but too few is not told apart.
SettleIfIdleSilent(s, d, sigs, flags) ==
    \/ /\ flying[s] = {d}
       /\ asked[s] = Notaries[s]
       /\ NextSource(s, d, flags)
    \/ /\ flying[s] # {d} \/ asked[s] # Notaries[s]
       /\ flying' = Landed(s, d)
       /\ tally' = flags
       /\ UNCHANGED <<source, settled, asked, response>>

\* settleIfIdle, after an answer that left `sigs` in the Map.
SettleIfIdle(s, d, sigs, flags) ==
    \/ /\ flying[s] = {d}
       /\ asked[s] = Notaries[s]
       /\ NextSource(s, d, flags \cup (IF sigs = {} THEN {} ELSE {"unableToVerify"}))
    \/ /\ flying[s] # {d} \/ asked[s] # Notaries[s]
       /\ flying' = Landed(s, d)
       /\ tally' = flags
       /\ UNCHANGED <<source, settled, asked, response>>

\* Mutant: running out of daemons does not look whether anything is awaited.
AskForgetful(s, d, flags) ==
    \/ \E e \in Notaries[s] \ asked[s] :
          /\ asked' = [asked EXCEPT ![s] = @ \cup {e}]
          /\ flying' = [flying EXCEPT ![s] = (@ \ {d}) \cup {e}]
          /\ tally' = flags
          /\ UNCHANGED <<source, settled, response>>
    \/ /\ asked[s] = Notaries[s]
       /\ flying' = Landed(s, d)
       /\ tally' = flags
       /\ UNCHANGED <<source, settled, asked, response>>

\* ask: the next daemon of the order, or settleIfIdle past its end.
Ask(s, d, flags) ==
    \/ \E e \in Notaries[s] \ asked[s] :
          /\ asked' = [asked EXCEPT ![s] = @ \cup {e}]
          /\ flying' = [flying EXCEPT ![s] = (@ \ {d}) \cup {e}]
          /\ tally' = flags
          /\ UNCHANGED <<source, settled, response>>
    \/ /\ asked[s] = Notaries[s]
       /\ SettleIfIdle(s, d, signatures[s], flags)

-----------------------------------------------------------------------------
(* One answer arriving. *)

\* `if (settled) return`
LateAnswer(s, d) ==
    /\ s \in settled
    /\ d \in flying[s]
    /\ flying' = Landed(s, d)
    /\ UNCHANGED <<request, source, settled, asked, signatures, fixed, tally, response>>

Judged(s, d, a) ==
    /\ s \notin settled
    /\ d \in flying[s]
    /\ a \in Answers(s, d)
    /\ UNCHANGED request

StoppingAnswer(s, d, a) ==
    /\ Judged(s, d, a)
    /\ Stops(a)
    /\ Respond(s, d, a.kind)
    /\ UNCHANGED <<signatures, fixed>>

AbandoningAnswer(s, d, a) ==
    /\ Judged(s, d, a)
    /\ BindsElsewhere(s, a)
    /\ NextSource(s, d, tally)
    /\ UNCHANGED <<signatures, fixed>>

UncountedAnswer(s, d, a) ==
    /\ Judged(s, d, a)
    /\ ~Stops(a) /\ ~BindsElsewhere(s, a) /\ ~Counts(s, a)
    /\ fixed' = [fixed EXCEPT ![s] = Fixing(s, a)]
    /\ Ask(s, d, tally \cup Blame(s, a))
    /\ UNCHANGED signatures

CountedAnswer(s, d, a) ==
    /\ Judged(s, d, a)
    /\ ~BindsElsewhere(s, a) /\ Counts(s, a)
    /\ fixed' = [fixed EXCEPT ![s] = Fixing(s, a)]
    /\ LET sigs == signatures[s] \cup {<<a.signer, d>>} IN
          /\ signatures' = [signatures EXCEPT ![s] = sigs]
          /\ \/ /\ Cardinality(sigs) < Threshold[s]
                /\ SettleIfIdle(s, d, sigs, tally)
             \/ /\ Cardinality(sigs) >= Threshold[s]
                /\ Respond(s, d, "package")

\* Every answer or timeout has landed and the request is answered.
Done ==
    /\ response # "none"
    /\ \A s \in Registered : flying[s] = {}
    /\ UNCHANGED vars

Answer(s, d) ==
    \/ LateAnswer(s, d)
    \/ \E a \in Answers(s, d) : \/ StoppingAnswer(s, d, a)
                                \/ AbandoningAnswer(s, d, a)
                                \/ UncountedAnswer(s, d, a)
                                \/ CountedAnswer(s, d, a)

Next == \/ Migrate
        \/ \E s \in Registered : \E d \in flying[s] : Answer(s, d)
        \/ Done

\* Every ask is answered: attestClose aborts at ATTEST_TIMEOUT_MS and never throws.
Fairness == /\ WF_vars(Migrate)
            /\ WF_vars(\E s \in Registered : \E d \in flying[s] : Answer(s, d))

Spec == Init /\ [][Next]_vars
FairSpec == Spec /\ Fairness

-----------------------------------------------------------------------------
(* Correctness. *)

\* The daemons whose signature is in the package being built.
Attesters(s) == {sig[2] : sig \in signatures[s]}

\* A 200 carries M signatures by M different keys, none of them the agent's,
\* from M different daemons of one source, over one package of that source and
\* agent that binds the requested target.
PackageIsAQuorum ==
    response = "package" =>
        /\ Cardinality(Signers(source)) = Threshold[source]
        /\ Cardinality(Attesters(source)) = Threshold[source]
        /\ Attesters(source) \subseteq Notaries[source]
        /\ Agent \notin Signers(source)
        /\ fixed[source] \in [source : {source}, agent : {Agent},
                               target : {request.to}, action : Action]

\* What M is for: while fewer than M of a source's daemons are faulty, the
\* package served is the close the agent's chain holds, whatever those answer
\* and in whatever order.
PackageIsTheAgentsClose ==
    (/\ response = "package"
     /\ Cardinality(Faulty \cap Notaries[source]) < Threshold[source])
       => fixed[source] = TrueClose[source]

\* The sliding window of attestSource: while a source is being asked, the
\* signatures it has and the answers it waits for add up to M as long as a
\* daemon is left to ask, and never exceed M; at least one answer is awaited, so
\* its promise resolves.
WindowIsKept ==
    \A s \in Registered \ settled :
        LET window == Cardinality(signatures[s]) + Cardinality(flying[s]) IN
        source = s =>
            /\ window <= Threshold[s]
            /\ asked[s] # Notaries[s] => window = Threshold[s]
            /\ flying[s] # {}

\* A close of s that binds another target than the requested one.
Redirects(s, d) ==
    \E a \in FaultyAnswers[d] : Own(s, a) /\ a.package.target # request.to

\* The daemons of s that see the requested close and attest it whenever asked.
Attesting(s) ==
    IF TrueClose[s] # NoPackage /\ TrueClose[s].target = request.to
    THEN {d \in Notaries[s] \ Faulty : HonestReplies[d] = {}}
    ELSE {}

\* "no_close_found", on which a client may conclude that nothing was closed, is
\* answered only after every candidate source, and never after an attestation of
\* any of them was counted.  A source one of whose daemons attests the requested
\* close whenever asked is told apart from one without a close, in any order, but
\* for two cases the code lets pass: a signature by the agent's own key is dropped
\* without a flag, and a faulty daemon that answers first with a close of another
\* target has the source abandoned before the others are heard.
NotFoundMeansUnattested ==
    response = "no_close_found" =>
        /\ Candidates \subseteq settled
        /\ \A s \in Candidates :
              /\ signatures[s] = {}
              /\ (\A d \in Notaries[s] \cap Faulty : ~Redirects(s, d))
                    => \A d \in Attesting(s) : KeyOf[d] = Agent

\* The daemons whose answers can have a part in the response.
Concerned == UNION {Notaries[s] : s \in Candidates}

\* What d can answer, beside the close it sees when it is honest.
Says(d, kinds) == IF d \in Faulty THEN \E a \in FaultyAnswers[d] : a.kind \in kinds
                                  ELSE HonestReplies[d] \cap kinds # {}

\* No daemon that is asked forges an attestation.
Unforged == \A d \in Concerned : d \in Faulty => ~Says(d, {"attestation"})

\* Outages and agreeing daemons are never reported as a fault: what daemons
\* attest alike, another version's close and a repeated or own signature are not
\* mistaken for a disagreement, whichever arrives first.
OutagesAreNotFaults ==
    (Unforged /\ \A d \in Concerned : ~Says(d, {"internal", "malformed"}))
       => "fault" \notin tally

\* Every request is answered.
EventuallyAnswered == <>(response # "none")

\* A request for the close the agent made can be served when, of the daemons of its
\* source, those that see the close hold M keys beside the agent's own and the
\* others only fail, whatever the daemons of other sources fail with.
KeysSeeing(s) == {KeyOf[d] : d \in Notaries[s] \ Faulty} \ {Agent}

Serves(s) ==
    /\ TrueClose[s] # NoPackage
    /\ TrueClose[s].target = request.to
    /\ \A d \in Notaries[s] \ Faulty : HonestReplies[d] = {}
    /\ Cardinality(KeysSeeing(s)) >= Threshold[s]

Servable ==
    /\ Refusal = "none"
    /\ Unforged
    /\ \A d \in Concerned : ~Says(d, {"warranted", "bad_request"})
    /\ \E s \in Candidates : Serves(s)

\* A request that can be served gets no answer but the package, and a source that
\* can serve it does not settle without: the reserve is asked to the end, the next
\* source is tried, and neither order nor failures elsewhere end it early.  With
\* EventuallyAnswered, it is served.
ServableIsServed ==
    Servable => /\ response \in {"none", "package"}
                /\ \A s \in settled : Serves(s) => response = "package"
=============================================================================
