---------------------------- MODULE UpdateCheck ----------------------------
(***************************************************************************)
(* GET /v1/update-check of the migration router (handlers.ts, builds.ts and *)
(* worker.ts in migration-router/src): which upgrade the registry offers,   *)
(* and the newest builds GitHub lists.  Requests of several routers run     *)
(* concurrently and share one Cache API, whose entries can expire at any    *)
(* time, while releases are published and registries deployed.              *)
(*                                                                         *)
(* A registry comes in the REGISTRY_JSON binding.  GITHUB_RELEASES_URL is   *)
(* set, as on every deployed router; a router is named by it.               *)
(***************************************************************************)
EXTENDS Registry

CONSTANTS
    Request,      \* HTTP requests
    Router,       \* the routers, by their releases url
    Registries,   \* what REGISTRY_JSON can be; Missing when it is not JSON
    Busy,         \* those under which registries change and requests overlap
    Queries,      \* Queries[r]: what r can ask
    FirstListing, \* FirstListing[u]: the releases listed at first, newest first
    PerPage, MaxPages,
    MaxReleases   \* bounds the releases of a router

\* A build and whether the release is public: no draft, no pre-release, a
\* version for its tag.
Build == [router : Router, lineage : Lineage, patch : Nat]
Release == [build : Build, public : BOOLEAN]

\* current_dna_hash and the lineage of app_version, which one may lack.
Query == [dna : Dna \cup {Missing}, lineage : Lineage \cup {Missing}]

ASSUME UpdateAssumption ==
    /\ Router # {}
    /\ Registries \subseteq Seq(Entry) \cup {Missing}
    /\ Busy \subseteq Registries
    /\ \A r \in Request : Queries[r] \subseteq Query
    /\ FirstListing \in [Router -> Seq(Release)]
    /\ PerPage \in Nat \ {0} /\ MaxPages \in Nat \ {0} /\ MaxReleases \in Nat

VARIABLES
    binding,   \* binding[u]: the text of REGISTRY_JSON
    listing,   \* listing[u]: the releases GitHub lists, newest first
    cache,     \* cache[k]: the builds stored under a key, or Missing
    pc,        \* where the handler of a request is
    at,        \* at[r]: the router r is served by
    query,     \* query[r]: its query
    registry,  \* registry[r]: the registry its handler was given, Missing for none
    target,    \* target[r]: the target it found there, or Missing
    page,      \* page[r]: the page it reads
    read,      \* read[r]: the builds it read
    began,     \* began[r]: what was listed when it began to read
    whole,     \* whole[r]: whether it read to the end of the listing
    response   \* response[r]: its answer

world == <<binding, listing>>
asked == <<at, query, registry, target>>
vars == <<world, asked, cache, pc, page, read, began, whole, response>>

Answer(code, to, link, latest) ==
    [code |-> code, target |-> to, link |-> link, latest |-> latest]
NoAnswer == Answer("none", Missing, Missing, Missing)

Init ==
    /\ \E reg \in Registries : binding = [u \in Router |-> reg]
    /\ listing = FirstListing
    /\ cache = [u \in Router |-> Missing]
    /\ pc = [r \in Request |-> "idle"]
    /\ at \in [Request -> {CHOOSE u \in Router : TRUE}]
    /\ query = [r \in Request |-> [dna |-> Missing, lineage |-> Missing]]
    /\ registry = [r \in Request |-> Missing]
    /\ target = [r \in Request |-> Missing]
    /\ page = [r \in Request |-> 1]
    /\ read = [r \in Request |-> {}]
    /\ began = [r \in Request |-> <<>>]
    /\ whole = [r \in Request |-> FALSE]
    /\ response = [r \in Request |-> NoAnswer]

-----------------------------------------------------------------------------
(* Answering. *)

\* newestOnLineage
Newest(builds, lineage) ==
    LET own == {b \in builds : b.lineage = lineage}
    IN  IF own = {} THEN Missing
        ELSE CHOOSE b \in own : \A c \in own : c.patch <= b.patch

\* The migration axis and the build axis.  A link that is Missing is the one the
\* registry records.
Respond(r, reg, t, lineage, builds) ==
    /\ response' = [response EXCEPT ![r] =
            Answer("ok", t,
                   IF t = Missing THEN Missing ELSE Newest(builds, Get(reg, t).release),
                   Newest(builds, lineage))]
    /\ pc' = [pc EXCEPT ![r] = "done"]

Refuse(r, code) ==
    /\ response' = [response EXCEPT ![r] = Answer(code, Missing, Missing, Missing)]
    /\ pc' = [pc EXCEPT ![r] = "done"]

\* registryFromBinding: a text that does not parse or load throws, at every request.
Valid(text) == text # Missing /\ Loads(text)

\* updateCheck up to the first await: the target is chosen before any build is read.
Choose(r, reg, q) ==
    /\ registry' = [registry EXCEPT ![r] = reg]
    /\ target' = [target EXCEPT ![r] = FurthestTarget(reg, q.dna)]
    /\ \/ q.dna = Missing /\ Refuse(r, "unknown_current_dna")
       \/ /\ q.dna # Missing /\ q.lineage = Missing
          /\ Respond(r, reg, target'[r], Missing, {})
       \/ /\ q.dna # Missing /\ q.lineage # Missing
          /\ pc' = [pc EXCEPT ![r] = "lookup"]
          /\ UNCHANGED response

\* The worker's fetch: the registry first, and no answer but an error without one.
Fetch(r, u, q) ==
    /\ at' = [at EXCEPT ![r] = u]
    /\ query' = [query EXCEPT ![r] = q]
    /\ \/ Valid(binding[u]) /\ Choose(r, binding[u], q)
       \/ ~Valid(binding[u]) /\ Refuse(r, "internal") /\ UNCHANGED <<registry, target>>
    /\ UNCHANGED <<world, cache, page, read, began, whole>>

\* A request comes.  Outside Busy, one that needs no builds and is alone.
Check(r) ==
    /\ pc[r] = "idle"
    /\ \E u \in Router, q \in Queries[r] :
          /\ \/ binding[u] \in Busy
             \/ q.lineage = Missing /\ \A s \in Request : pc[s] = "idle"
          /\ Fetch(r, u, q)

-----------------------------------------------------------------------------
(* publishedBuilds. *)

\* Mutant: the key does not name the releases url.
CacheKeyShared(u) == CHOOSE v \in Router : TRUE

\* cacheKey
CacheKey(u) == u

Hit(r) ==
    /\ pc[r] = "lookup"
    /\ cache[CacheKey(at[r])] # Missing
    /\ Respond(r, registry[r], target[r], query[r].lineage, cache[CacheKey(at[r])])
    /\ UNCHANGED <<world, asked, cache, page, read, began, whole>>

\* A miss, or a cache that fails.
Miss(r) ==
    /\ pc[r] = "lookup"
    /\ pc' = [pc EXCEPT ![r] = "reading"]
    /\ began' = [began EXCEPT ![r] = listing[at[r]]]
    /\ UNCHANGED <<world, asked, cache, page, read, whole, response>>

Least(m, n) == IF m < n THEN m ELSE n

Slice(u, p) ==
    SubSeq(listing[u], (p - 1) * PerPage + 1, Least(p * PerPage, Len(listing[u])))

Public(releases) == {releases[i].build : i \in {j \in DOMAIN releases : releases[j].public}}

\* Mutant: a page that lists fewer public releases than fit is taken for the last.
IsLastPublic(releases) == Cardinality(Public(releases)) < PerPage

IsLast(releases) == Len(releases) < PerPage

\* A page of the listing; the last one is short or the MaxPages-th.
ReadPage(r) ==
    LET got == Slice(at[r], page[r]) IN
    /\ pc[r] = "reading"
    /\ read' = [read EXCEPT ![r] = @ \cup Public(got)]
    /\ IF IsLast(got) \/ page[r] = MaxPages
       THEN /\ pc' = [pc EXCEPT ![r] = "storing"]
            /\ whole' = [whole EXCEPT ![r] = IsLast(got)]
            /\ UNCHANGED page
       ELSE /\ page' = [page EXCEPT ![r] = @ + 1]
            /\ UNCHANGED <<pc, whole>>
    /\ UNCHANGED <<world, asked, cache, began, response>>

\* Mutant: a read that fails is thrown to the worker, which answers for it.
ReadFailsThrown(r) ==
    /\ pc[r] = "reading"
    /\ Refuse(r, "internal")
    /\ UNCHANGED <<world, asked, cache, page, read, began, whole>>

\* bail: what was read before the page that failed is the result.
ReadFails(r) ==
    /\ pc[r] = "reading"
    /\ pc' = [pc EXCEPT ![r] = "storing"]
    /\ UNCHANGED <<world, asked, cache, page, read, began, whole, response>>

\* The result is stored, whatever is there, or the cache fails; the handler returns.
Store(r) ==
    /\ pc[r] = "storing"
    /\ \/ cache' = [cache EXCEPT ![CacheKey(at[r])] = read[r]]
       \/ UNCHANGED cache
    /\ Respond(r, registry[r], target[r], query[r].lineage, read[r])
    /\ page' = [page EXCEPT ![r] = 1]
    /\ read' = [read EXCEPT ![r] = {}]
    /\ began' = [began EXCEPT ![r] = <<>>]
    /\ whole' = [whole EXCEPT ![r] = FALSE]
    /\ UNCHANGED <<world, asked>>

-----------------------------------------------------------------------------
(* The world. *)

\* The time an entry may be held is over, or it is evicted.
Expire(u) ==
    /\ cache[u] # Missing
    /\ cache' = [cache EXCEPT ![u] = Missing]
    /\ UNCHANGED <<world, asked, pc, page, read, began, whole, response>>

\* A release is published: the next patch of a lineage.
Publish(u) ==
    /\ binding[u] \in Busy
    /\ Len(listing[u]) < MaxReleases
    /\ \E l \in Lineage :
          LET next == 1 + Cardinality({i \in DOMAIN listing[u] : listing[u][i].build.lineage = l})
              new == [build |-> [router |-> u, lineage |-> l, patch |-> next], public |-> TRUE]
          IN  listing' = [listing EXCEPT ![u] = <<new>> \o @]
    /\ UNCHANGED <<binding, asked, cache, pc, page, read, began, whole, response>>

\* A deployment brings another registry.
Deploy(u) ==
    /\ binding[u] \in Busy
    /\ \E text \in Busy \ {binding[u]} : binding' = [binding EXCEPT ![u] = text]
    /\ UNCHANGED <<listing, asked, cache, pc, page, read, began, whole, response>>

Idle == (\A r \in Request : pc[r] \in {"idle", "done"}) /\ UNCHANGED vars

Handle(r) == Hit(r) \/ Miss(r) \/ ReadPage(r) \/ ReadFails(r) \/ Store(r)

Next == \/ \E r \in Request : Check(r) \/ Handle(r)
        \/ \E u \in Router : Expire(u) \/ Publish(u) \/ Deploy(u)
        \/ Idle

Spec == Init /\ [][Next]_vars

\* Every read is answered or runs into FETCH_TIMEOUT_MS, and so is the cache.
FairSpec == Spec /\ \A r \in Request : WF_vars(Handle(r))

-----------------------------------------------------------------------------
(* Correctness. *)

\* What upgrades from h, what upgrades from that, and so on: the members of every
\* set that has them.
Ahead(reg, h) ==
    {t \in Hashes(reg) :
        \A S \in SUBSET Hashes(reg) :
            (\A e \in Entries(reg) : e.from \in S \cup {h} => e.hash \in S) => t \in S}

\* What a caller can be offered: the published targets ahead of it.
Offerable(reg, h) ==
    {t \in Targets(Get(reg, h)) \cap Ahead(reg, h) : Get(reg, t).published}

\* Whatever becomes of the scan, and whatever registry is deployed meanwhile, an
\* answer offers the deepest published target ahead of the caller, and one whenever
\* there is one.
OfferIsFurthest ==
    \A r \in Request :
        LET t == response[r].target
            all == Offerable(registry[r], query[r].dna)
        IN  response[r].code = "ok" =>
                \/ t = Missing /\ all = {}
                \/ t \in all /\ \A o \in all \ {t} : t \in Ahead(registry[r], o)

\* migrationOptions: none, and no error, for a DNA that is not registered.
Options(reg, to) == IF to \in Hashes(reg) THEN SourcesReaching(reg, to) ELSE {}

\* A source /v1/migrate can get a quorum for: M different daemons to ask.
Servable(reg, from, to) ==
    /\ Serves(reg, from, to)
    /\ from # to
    /\ Get(reg, from).threshold \in 1..Cardinality(Range(Get(reg, from).notaries))

\* What one endpoint offers another one can serve: the upgrade of an update check,
\* and every source /v1/migration-options lists.
OfferIsServed ==
    \A r \in Request :
        LET reg == registry[r] IN
        response[r].code = "ok" =>
            /\ response[r].target # Missing =>
                  Servable(reg, query[r].dna, response[r].target)
            /\ \A to \in Dna : \A from \in Options(reg, to) : Servable(reg, from, to)

\* The builds of an answer are public ones of the router's own releases, on the
\* lineage they are meant for, whoever filled the cache they came from.
BuildsAreOwn ==
    \A r \in Request :
        LET own == Public(listing[at[r]]) IN
        /\ response[r].latest # Missing =>
              response[r].latest \in own /\ response[r].latest.lineage = query[r].lineage
        /\ response[r].link # Missing => response[r].link \in own

\* A scan that reached the end of the listing missed nothing that was public when
\* it began, though every release that is published meanwhile shifts the pages.
ScanMissesNothing ==
    \A r \in Request : whole[r] => Public(began[r]) \subseteq read[r]

\* An update check that needs builds always gets its answer, never an error, though
\* every read and the cache can fail and releases keep being published.
ChecksAreAnswered == \A r \in Request : pc[r] = "lookup" ~> response[r].code = "ok"
=============================================================================
