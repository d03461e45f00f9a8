-------------------------- MODULE UpdateCheck_proofs --------------------------
(***************************************************************************)
(* A scan that reached the end of the listing missed nothing, whatever was  *)
(* published while it read, for every size of a page and every number of    *)
(* pages.  The argument: what is listed is what was listed when the scan    *)
(* began behind what was published since, so the pages read cover what the  *)
(* scan began with up to the end of the last one, less the shift.           *)
(* What an answer is built from is always of the router's own listing.  And *)
(* what it offers is the furthest published target, for a registry of any   *)
(* length: a forward walk visits all that is ahead, in order, and ends.     *)
(***************************************************************************)
EXTENDS UpdateCheck, SequenceTheorems, FiniteSetTheorems, WellFoundedInduction, TLAPS

\* The types the argument rests on.
ScanTypes ==
    /\ listing \in [Router -> Seq(Release)]
    /\ at \in [Request -> Router]
    /\ pc \in [Request -> {"idle", "lookup", "reading", "storing", "done"}]
    /\ page \in [Request -> Nat \ {0}]
    /\ read \in [Request -> SUBSET Build]
    /\ began \in [Request -> Seq(Release)]
    /\ whole \in [Request -> BOOLEAN]

\* now is old behind k newer releases.
Shifted(old, now, k) ==
    /\ Len(now) = Len(old) + k
    /\ \A i \in 1..Len(old) : now[i + k] = old[i]

\* The first n of now are read, as far as they were in old.
Covered(old, k, n, builds) ==
    \A i \in 1..Len(old) : i + k <= n /\ old[i].public => old[i].build \in builds

\* A scan has read the pages before the one it reads.
ScanCovers ==
    \A r \in Request :
        pc[r] = "reading" =>
            \E k \in Nat : /\ Shifted(began[r], listing[at[r]], k)
                           /\ Covered(began[r], k, (page[r] - 1) * PerPage, read[r])

\* A scan starts afresh.
FreshBefore ==
    \A r \in Request : /\ pc[r] # "storing" => ~whole[r]
                       /\ pc[r] \in {"idle", "lookup"} => page[r] = 1

ScanInv == ScanTypes /\ ScanCovers /\ FreshBefore /\ ScanMissesNothing

-----------------------------------------------------------------------------
(* Pages and sequences. *)

\* The end of a page.
LEMMA PageEnd ==
    ASSUME NEW p \in Nat \ {0}, NEW n \in Nat \ {0}
    PROVE  /\ (p - 1) * n \in Nat
           /\ p * n \in Nat
           /\ p * n = (p - 1) * n + n
  <1>1. PICK q \in Nat : p = q + 1
    <2>1. p - 1 \in Nat /\ p = (p - 1) + 1
      OBVIOUS
    <2> QED BY <2>1
  <1>2. (q + 1) * n = q * n + n /\ q * n \in Nat
    BY <1>1
  <1> QED BY <1>1, <1>2

\* What a page holds, and that a short one is the last.
LEMMA SliceProperties ==
    ASSUME NEW u \in Router, NEW p \in Nat \ {0}, listing[u] \in Seq(Release)
    PROVE  /\ Slice(u, p) \in Seq(Release)
           /\ \A i \in 1..Len(listing[u]) :
                 (p - 1) * PerPage < i /\ i <= p * PerPage =>
                     \E j \in 1..Len(Slice(u, p)) : Slice(u, p)[j] = listing[u][i]
           /\ IsLast(Slice(u, p)) => Len(listing[u]) < p * PerPage
  <1> DEFINE s == listing[u]
             b == (p - 1) * PerPage
             e == p * PerPage
             n == Least(e, Len(s))
             got == SubSeq(s, b + 1, n)
  <1>1. PerPage \in Nat \ {0}
    BY UpdateAssumption
  <1>2. b \in Nat /\ e \in Nat /\ e = b + PerPage
    BY <1>1, PageEnd
  <1>3. Len(s) \in Nat /\ \A i \in 1..Len(s) : s[i] \in Release
    OBVIOUS
  <1> HIDE DEF b, e, s
  <1>4. n \in Nat /\ n <= e /\ n <= Len(s) /\ (n = e \/ n = Len(s))
    BY <1>2, <1>3 DEF Least
  <1>5. \A i \in b + 1 .. n : s[i] \in Release
    BY <1>2, <1>3, <1>4
  <1> HIDE DEF n
  <1>6. /\ got \in Seq(Release)
        /\ Len(got) = IF b + 1 <= n THEN n - (b + 1) + 1 ELSE 0
        /\ \A i \in 1 .. n - (b + 1) + 1 : got[i] = s[(b + 1) + i - 1]
    <2>1. b + 1 \in Int /\ n \in Int
      BY <1>2, <1>4
    <2> QED BY <2>1, <1>5, SubSeqProperties
  <1>7. Slice(u, p) = got
    BY DEF Slice, s, n, b, e
  <1> HIDE DEF got
  <1>8. ASSUME NEW i \in 1..Len(s), b < i, i <= e
        PROVE  \E j \in 1..Len(got) : got[j] = s[i]
    <2>1. i <= n
      BY <1>2, <1>3, <1>4, <1>8
    <2>2. i - b \in 1 .. n - (b + 1) + 1 /\ Len(got) = n - (b + 1) + 1
      BY <1>2, <1>3, <1>4, <1>6, <1>8, <2>1
    <2>3. got[i - b] = s[(b + 1) + (i - b) - 1] /\ (b + 1) + (i - b) - 1 = i
      BY <1>2, <1>3, <1>6, <2>2
    <2> QED BY <2>2, <2>3
  <1>9. Len(got) < PerPage => Len(s) < e
    BY <1>1, <1>2, <1>3, <1>4, <1>6
  <1> QED BY <1>6, <1>7, <1>8, <1>9 DEF IsLast, b, e, s

\* A public release of a page is among its builds.
LEMMA PublicMember ==
    ASSUME NEW releases \in Seq(Release), NEW j \in 1..Len(releases), releases[j].public
    PROVE  releases[j].build \in Public(releases)
  BY DEF Public

LEMMA PublicType ==
    ASSUME NEW releases \in Seq(Release)
    PROVE  Public(releases) \subseteq Build
  <1>1. \A i \in DOMAIN releases : releases[i] \in Release
    OBVIOUS
  <1>2. \A e \in Release : e.build \in Build
    BY DEF Release
  <1> QED BY <1>1, <1>2 DEF Public

\* Reading a page covers it too.
LEMMA PageCovers ==
    ASSUME NEW u \in Router, NEW p \in Nat \ {0}, listing[u] \in Seq(Release),
           NEW old \in Seq(Release), NEW k \in Nat, NEW builds,
           Shifted(old, listing[u], k),
           Covered(old, k, (p - 1) * PerPage, builds)
    PROVE  Covered(old, k, p * PerPage, builds \cup Public(Slice(u, p)))
  <1>1. PerPage \in Nat \ {0}
    BY UpdateAssumption
  <1>2. (p - 1) * PerPage \in Nat /\ p * PerPage \in Nat
    BY <1>1, PageEnd
  <1> SUFFICES ASSUME NEW i \in 1..Len(old), i + k <= p * PerPage, old[i].public
               PROVE  old[i].build \in builds \cup Public(Slice(u, p))
    BY DEF Covered
  <1>3. CASE i + k <= (p - 1) * PerPage
    BY <1>3 DEF Covered
  <1>4. CASE (p - 1) * PerPage < i + k
    <2>1. i + k \in 1..Len(listing[u]) /\ listing[u][i + k] = old[i]
      BY DEF Shifted
    <2>2. PICK j \in 1..Len(Slice(u, p)) : Slice(u, p)[j] = old[i]
      BY <1>4, <2>1, SliceProperties
    <2> QED BY <2>2, SliceProperties, PublicMember
  <1> QED BY <1>2, <1>3, <1>4

\* Everything that was listed is read when the pages read reach the end.
LEMMA CoveredWhole ==
    ASSUME NEW u \in Router, NEW p \in Nat \ {0}, listing[u] \in Seq(Release),
           NEW old \in Seq(Release), NEW k \in Nat, NEW builds,
           Shifted(old, listing[u], k),
           Covered(old, k, p * PerPage, builds),
           IsLast(Slice(u, p))
    PROVE  Public(old) \subseteq builds
  <1>1. Len(old) + k < p * PerPage
    BY SliceProperties DEF Shifted
  <1>2. p * PerPage \in Nat
    BY UpdateAssumption, PageEnd
  <1>3. \A i \in 1..Len(old) : i + k <= p * PerPage
    BY <1>1, <1>2
  <1> QED BY <1>3 DEF Public, Covered

-----------------------------------------------------------------------------
(* The invariant. *)

LEMMA InitInv == Init => ScanInv
  <1> SUFFICES ASSUME Init PROVE ScanInv
    OBVIOUS
  <1>1. ScanTypes
    <2>1. (CHOOSE u \in Router : TRUE) \in Router
      BY UpdateAssumption
    <2> QED BY <2>1, UpdateAssumption DEF Init, ScanTypes
  <1> QED BY <1>1 DEF Init, ScanInv, ScanCovers, FreshBefore, ScanMissesNothing

\* A step that leaves the scans alone.
LEMMA ScansUntouched ==
    ASSUME ScanInv,
           UNCHANGED <<listing, page, read, began, whole>>,
           at' \in [Request -> Router],
           pc' \in [Request -> {"idle", "lookup", "reading", "storing", "done"}],
           \A r \in Request :
               /\ pc'[r] = "reading" => pc[r] = "reading" /\ at'[r] = at[r]
               /\ pc'[r] # "storing" => pc[r] # "storing"
               /\ pc'[r] \in {"idle", "lookup"} => pc[r] \in {"idle", "lookup"}
    PROVE  ScanInv'
  <1>1. ScanTypes'
    BY DEF ScanInv, ScanTypes
  <1>2. ScanCovers'
    BY DEF ScanInv, ScanCovers
  <1> QED BY <1>1, <1>2 DEF ScanInv, FreshBefore, ScanMissesNothing

LEMMA CheckStep ==
    ASSUME ScanInv, NEW r \in Request, Check(r)
    PROVE  ScanInv'
  <1>1. PICK u \in Router, q \in Queries[r] : Fetch(r, u, q)
    BY DEF Check
  <1>2. /\ at' = [at EXCEPT ![r] = u]
        /\ UNCHANGED <<listing, page, read, began, whole>>
    BY <1>1 DEF Fetch, world
  <1>3. \E p \in {"lookup", "done"} : pc' = [pc EXCEPT ![r] = p]
    BY <1>1 DEF Fetch, Choose, Refuse, Respond
  <1>4. pc[r] = "idle"
    BY DEF Check
  <1> QED BY <1>2, <1>3, <1>4, ScansUntouched DEF ScanInv, ScanTypes

LEMMA HitStep ==
    ASSUME ScanInv, NEW r \in Request, Hit(r)
    PROVE  ScanInv'
  <1>1. pc[r] = "lookup" /\ pc' = [pc EXCEPT ![r] = "done"]
    BY DEF Hit, Respond
  <1>2. UNCHANGED <<listing, at, page, read, began, whole>>
    BY DEF Hit, world, asked
  <1> QED BY <1>1, <1>2, ScansUntouched DEF ScanInv, ScanTypes

\* A scan begins with nothing read and nothing published since.
LEMMA MissStep ==
    ASSUME ScanInv, NEW r \in Request, Miss(r)
    PROVE  ScanInv'
  <1> DEFINE l == listing[at[r]]
  <1>1. /\ pc[r] = "lookup"
        /\ pc' = [pc EXCEPT ![r] = "reading"]
        /\ began' = [began EXCEPT ![r] = l]
        /\ UNCHANGED <<listing, at, page, read, whole>>
    BY DEF Miss, world, asked
  <1>2. ScanTypes'
    BY <1>1 DEF ScanInv, ScanTypes
  <1>3. ScanCovers'
    <2> SUFFICES ASSUME NEW s \in Request, pc'[s] = "reading"
                 PROVE  \E k \in Nat : /\ Shifted(began'[s], listing'[at'[s]], k)
                                       /\ Covered(began'[s], k, (page'[s] - 1) * PerPage, read'[s])
      BY DEF ScanCovers
    <2>1. CASE s = r
      <3>1. began'[s] = l /\ listing'[at'[s]] = l /\ page'[s] = 1 /\ l \in Seq(Release)
        BY <1>1, <2>1 DEF ScanInv, ScanTypes, FreshBefore
      <3>2. Shifted(l, l, 0)
        BY <3>1 DEF Shifted
      <3>3. (1 - 1) * PerPage = 0
        BY UpdateAssumption
      <3>4. Covered(l, 0, (1 - 1) * PerPage, read'[s])
        BY <3>1, <3>3 DEF Covered
      <3> QED BY <3>1, <3>2, <3>4
    <2>2. CASE s # r
      BY <1>1, <2>2 DEF ScanInv, ScanTypes, ScanCovers
    <2> QED BY <2>1, <2>2
  <1>4. FreshBefore' /\ ScanMissesNothing'
    BY <1>1 DEF ScanInv, ScanTypes, FreshBefore, ScanMissesNothing
  <1> QED BY <1>2, <1>3, <1>4 DEF ScanInv

LEMMA ReadPageStep ==
    ASSUME ScanInv, NEW r \in Request, ReadPage(r)
    PROVE  ScanInv'
  <1> DEFINE got == Slice(at[r], page[r])
  <1>1. /\ pc[r] = "reading"
        /\ read' = [read EXCEPT ![r] = @ \cup Public(got)]
        /\ UNCHANGED <<listing, at, began>>
    BY DEF ReadPage, world, asked
  <1>2. \/ /\ pc' = [pc EXCEPT ![r] = "storing"]
           /\ whole' = [whole EXCEPT ![r] = IsLast(got)]
           /\ page' = page
        \/ /\ page' = [page EXCEPT ![r] = @ + 1]
           /\ pc' = pc /\ whole' = whole
    BY DEF ReadPage
  <1>3. at[r] \in Router /\ listing[at[r]] \in Seq(Release) /\ page[r] \in Nat \ {0}
        /\ began[r] \in Seq(Release)
    BY DEF ScanInv, ScanTypes
  <1>4. got \in Seq(Release) /\ Public(got) \subseteq Build /\ IsLast(got) \in BOOLEAN
    BY <1>3, SliceProperties, PublicType DEF IsLast
  <1>5. PICK k \in Nat : /\ Shifted(began[r], listing[at[r]], k)
                         /\ Covered(began[r], k, (page[r] - 1) * PerPage, read[r])
    BY <1>1 DEF ScanInv, ScanCovers
  <1>6. Covered(began[r], k, page[r] * PerPage, read[r] \cup Public(got))
    BY <1>3, <1>5, PageCovers
  <1>7. IsLast(got) => Public(began[r]) \subseteq read[r] \cup Public(got)
    BY <1>3, <1>5, <1>6, CoveredWhole
  <1> HIDE DEF got
  <1>8. read'[r] = read[r] \cup Public(got)
    BY <1>1 DEF ScanInv, ScanTypes
  <1>9. ScanTypes'
    <2>1. read' \in [Request -> SUBSET Build]
      BY <1>1, <1>4 DEF ScanInv, ScanTypes
    <2>2. /\ page' \in [Request -> Nat \ {0}]
          /\ pc' \in [Request -> {"idle", "lookup", "reading", "storing", "done"}]
          /\ whole' \in [Request -> BOOLEAN]
      <3>1. CASE pc' = [pc EXCEPT ![r] = "storing"] /\ page' = page
                 /\ whole' = [whole EXCEPT ![r] = IsLast(got)]
        <4>1. page' \in [Request -> Nat \ {0}]
          BY <3>1 DEF ScanInv, ScanTypes
        <4>2. pc' \in [Request -> {"idle", "lookup", "reading", "storing", "done"}]
          BY <3>1 DEF ScanInv, ScanTypes
        <4>3. whole \in [Request -> BOOLEAN]
          BY DEF ScanInv, ScanTypes
        <4>4. whole' \in [Request -> BOOLEAN]
          BY <1>4, <3>1, <4>3, Zenon
        <4> QED BY <4>1, <4>2, <4>4
      <3>2. CASE page' = [page EXCEPT ![r] = @ + 1] /\ pc' = pc /\ whole' = whole
        <4>1. page[r] + 1 \in Nat \ {0}
          BY <1>3
        <4>2. page \in [Request -> Nat \ {0}]
          BY DEF ScanInv, ScanTypes
        <4>3. page' \in [Request -> Nat \ {0}]
          BY <3>2, <4>1, <4>2, Zenon
        <4> QED BY <3>2, <4>3 DEF ScanInv, ScanTypes
      <3> QED BY <1>2, <3>1, <3>2
    <2>3. UNCHANGED <<listing, at, began>>
      BY <1>1
    <2> QED BY <2>1, <2>2, <2>3 DEF ScanInv, ScanTypes
  <1>10. ScanCovers'
    <2> SUFFICES ASSUME NEW s \in Request, pc'[s] = "reading"
                 PROVE  \E j \in Nat : /\ Shifted(began'[s], listing'[at'[s]], j)
                                       /\ Covered(began'[s], j, (page'[s] - 1) * PerPage, read'[s])
      BY DEF ScanCovers
    <2>1. CASE s = r
      <3>1. page'[s] = page[r] + 1
        BY <1>1, <1>2, <2>1 DEF ScanInv, ScanTypes
      <3>2. (page'[s] - 1) * PerPage = page[r] * PerPage
        BY <1>3, <3>1
      <3> QED BY <1>1, <1>5, <1>6, <1>8, <2>1, <3>2
    <2>2. CASE s # r
      <3>1. pc[s] = "reading" /\ page'[s] = page[s] /\ read'[s] = read[s]
        BY <1>1, <1>2, <2>2 DEF ScanInv, ScanTypes
      <3> QED BY <1>1, <3>1 DEF ScanInv, ScanCovers
    <2> QED BY <2>1, <2>2
  <1>11. FreshBefore'
    BY <1>1, <1>2, <1>3 DEF ScanInv, ScanTypes, FreshBefore
  <1>12. ScanMissesNothing'
    <2> SUFFICES ASSUME NEW s \in Request, whole'[s]
                 PROVE  Public(began'[s]) \subseteq read'[s]
      BY DEF ScanMissesNothing
    <2>1. CASE s = r
      <3>1. IsLast(got)
        BY <1>1, <1>2, <2>1 DEF ScanInv, ScanTypes, FreshBefore
      <3> QED BY <1>1, <1>7, <1>8, <2>1, <3>1
    <2>2. CASE s # r
      BY <1>1, <1>2, <2>2 DEF ScanInv, ScanTypes, ScanMissesNothing
    <2> QED BY <2>1, <2>2
  <1> QED BY <1>9, <1>10, <1>11, <1>12 DEF ScanInv

\* What was read is kept; the scan is not whole.
LEMMA ReadFailsStep ==
    ASSUME ScanInv, NEW r \in Request, ReadFails(r)
    PROVE  ScanInv'
  <1>1. pc[r] = "reading" /\ pc' = [pc EXCEPT ![r] = "storing"]
    BY DEF ReadFails
  <1>2. UNCHANGED <<listing, at, page, read, began, whole>>
    BY DEF ReadFails, world, asked
  <1> QED BY <1>1, <1>2, ScansUntouched DEF ScanInv, ScanTypes

\* The handler returns and its scan is forgotten.
LEMMA StoreStep ==
    ASSUME ScanInv, NEW r \in Request, Store(r)
    PROVE  ScanInv'
  <1>1. /\ pc[r] = "storing"
        /\ pc' = [pc EXCEPT ![r] = "done"]
        /\ page' = [page EXCEPT ![r] = 1]
        /\ read' = [read EXCEPT ![r] = {}]
        /\ began' = [began EXCEPT ![r] = <<>>]
        /\ whole' = [whole EXCEPT ![r] = FALSE]
        /\ UNCHANGED <<listing, at>>
    BY DEF Store, Respond, world, asked
  <1>2. ScanTypes'
    <2>1. began' \in [Request -> Seq(Release)]
      <3>1. <<>> \in Seq(Release)
        OBVIOUS
      <3> QED BY <1>1, <3>1 DEF ScanInv, ScanTypes
    <2>2. read' \in [Request -> SUBSET Build]
      BY <1>1 DEF ScanInv, ScanTypes
    <2>3. page' \in [Request -> Nat \ {0}] /\ whole' \in [Request -> BOOLEAN]
      <3>1. page' \in [Request -> Nat \ {0}]
        <4>1. 1 \in Nat \ {0}
          OBVIOUS
        <4>2. page \in [Request -> Nat \ {0}]
          BY DEF ScanInv, ScanTypes
        <4> QED BY <1>1, <4>1, <4>2, Zenon
      <3>2. FALSE \in BOOLEAN /\ whole \in [Request -> BOOLEAN]
        BY DEF ScanInv, ScanTypes
      <3>3. whole' \in [Request -> BOOLEAN]
        BY <1>1, <3>2, Zenon
      <3> QED BY <3>1, <3>3
    <2>4. pc' \in [Request -> {"idle", "lookup", "reading", "storing", "done"}]
      BY <1>1 DEF ScanInv, ScanTypes
    <2> QED BY <1>1, <2>1, <2>2, <2>3, <2>4 DEF ScanInv, ScanTypes
  <1>3. ScanCovers'
    BY <1>1 DEF ScanInv, ScanTypes, ScanCovers
  <1>4. FreshBefore' /\ ScanMissesNothing'
    BY <1>1 DEF ScanInv, ScanTypes, FreshBefore, ScanMissesNothing
  <1> QED BY <1>2, <1>3, <1>4 DEF ScanInv

\* A release is listed in front of the others.
LEMMA PublishFront ==
    ASSUME ScanTypes, NEW u \in Router, Publish(u)
    PROVE  /\ listing' \in [Router -> Seq(Release)]
           /\ \A v \in Router \ {u} : listing'[v] = listing[v]
           /\ Len(listing'[u]) = Len(listing[u]) + 1
           /\ \A i \in 1..Len(listing[u]) : listing'[u][i + 1] = listing[u][i]
  <1>1. PICK new \in Release : listing' = [listing EXCEPT ![u] = <<new>> \o @]
    <2>1. PICK l \in Lineage :
              LET n == 1 + Cardinality({i \in DOMAIN listing[u] :
                                           listing[u][i].build.lineage = l})
              IN  listing' = [listing EXCEPT ![u] =
                      <<[build |-> [router |-> u, lineage |-> l, patch |-> n],
                         public |-> TRUE]>> \o @]
      BY DEF Publish
    <2>2. Cardinality({i \in DOMAIN listing[u] : listing[u][i].build.lineage = l}) \in Nat
      <3>0. listing[u] \in Seq(Release)
        BY DEF ScanTypes
      <3>1. DOMAIN listing[u] = 1..Len(listing[u]) /\ Len(listing[u]) \in Nat
        BY <3>0
      <3>2. IsFiniteSet(1..Len(listing[u]))
        BY <3>1, FS_Interval
      <3> QED BY <3>1, <3>2, FS_Subset, FS_CardinalityType
    <2>3. [build |-> [router |-> u, lineage |-> l,
                      patch |-> 1 + Cardinality({i \in DOMAIN listing[u] :
                                                   listing[u][i].build.lineage = l})],
           public |-> TRUE] \in Release
      BY <2>2 DEF Release, Build
    <2> QED BY <2>1, <2>3
  <1>2. listing[u] \in Seq(Release) /\ listing'[u] = <<new>> \o listing[u]
        /\ \A v \in Router \ {u} : listing'[v] = listing[v]
    BY <1>1 DEF ScanTypes
  <1>3. /\ listing'[u] \in Seq(Release)
        /\ Len(listing'[u]) = Len(listing[u]) + 1
        /\ \A i \in 1..Len(listing[u]) : listing'[u][i + 1] = listing[u][i]
    <2>1. <<new>> \in Seq(Release) /\ Len(<<new>>) = 1
      OBVIOUS
    <2>2. /\ Len(listing'[u]) = 1 + Len(listing[u])
          /\ \A i \in 1 .. 1 + Len(listing[u]) :
                 listing'[u][i] = IF i <= 1 THEN <<new>>[i] ELSE listing[u][i - 1]
      BY <1>2, <2>1, ConcatProperties
    <2> QED BY <1>2, <2>1, <2>2, ConcatProperties
  <1> QED BY <1>1, <1>2, <1>3 DEF ScanTypes

\* A release in front shifts every scan of its router by one, and uncovers nothing.
LEMMA PublishStep ==
    ASSUME ScanInv, NEW u \in Router, Publish(u)
    PROVE  ScanInv'
  <1>1. UNCHANGED <<pc, at, page, read, began, whole>>
    BY DEF Publish, asked
  <1>2. ScanTypes /\ listing[u] \in Seq(Release)
    BY DEF ScanInv, ScanTypes
  <1>3. /\ listing' \in [Router -> Seq(Release)]
        /\ \A v \in Router \ {u} : listing'[v] = listing[v]
        /\ Len(listing'[u]) = Len(listing[u]) + 1
        /\ \A i \in 1..Len(listing[u]) : listing'[u][i + 1] = listing[u][i]
    BY <1>2, PublishFront
  <1>4. ScanTypes'
    BY <1>1, <1>3 DEF ScanInv, ScanTypes
  <1>5. ScanCovers'
    <2> SUFFICES ASSUME NEW s \in Request, pc[s] = "reading"
                 PROVE  \E k \in Nat : /\ Shifted(began[s], listing'[at[s]], k)
                                       /\ Covered(began[s], k, (page[s] - 1) * PerPage, read[s])
      BY <1>1 DEF ScanCovers
    <2>1. PICK k \in Nat : /\ Shifted(began[s], listing[at[s]], k)
                           /\ Covered(began[s], k, (page[s] - 1) * PerPage, read[s])
      BY DEF ScanInv, ScanCovers
    <2>2. CASE at[s] = u
      <3>1. began[s] \in Seq(Release)
        BY DEF ScanInv, ScanTypes
      <3>2. Shifted(began[s], listing'[u], k + 1)
        <4>1. Len(listing'[u]) = Len(began[s]) + (k + 1)
          <5>1. Len(listing[u]) = Len(began[s]) + k
            BY <2>1, <2>2 DEF Shifted
          <5>2. Len(began[s]) \in Nat
            BY <3>1
          <5>3. \A m, n \in Nat : (m + n) + 1 = m + (n + 1)
            OBVIOUS
          <5>4. Len(listing'[u]) = (Len(began[s]) + k) + 1
            BY <1>2, <1>3, <5>1
          <5> QED BY <5>2, <5>3, <5>4
        <4>2. ASSUME NEW i \in 1..Len(began[s])
              PROVE  listing'[u][i + (k + 1)] = began[s][i]
          <5>1. i + k \in 1..Len(listing[u]) /\ listing[u][i + k] = began[s][i]
            BY <2>1, <2>2, <3>1 DEF Shifted
          <5>2. (i + k) + 1 = i + (k + 1)
            BY <3>1
          <5>3. listing'[u][(i + k) + 1] = listing[u][i + k]
            BY <1>2, <1>3, <5>1
          <5> QED BY <5>1, <5>2, <5>3
        <4> QED BY <4>1, <4>2 DEF Shifted
      <3>3. (page[s] - 1) * PerPage \in Nat
        BY UpdateAssumption, PageEnd DEF ScanInv, ScanTypes
      <3>4. Covered(began[s], k + 1, (page[s] - 1) * PerPage, read[s])
        BY <2>1, <3>1, <3>3 DEF Covered
      <3> QED BY <2>2, <3>2, <3>4
    <2>3. CASE at[s] # u
      BY <1>3, <2>1, <2>3 DEF ScanInv, ScanTypes
    <2> QED BY <2>2, <2>3
  <1> QED BY <1>1, <1>4, <1>5 DEF ScanInv, FreshBefore, ScanMissesNothing

LEMMA NextInv == ScanInv /\ [Next]_vars => ScanInv'
  <1> SUFFICES ASSUME ScanInv, [Next]_vars PROVE ScanInv'
    OBVIOUS
  <1>1. ASSUME NEW r \in Request, Check(r) \/ Handle(r) PROVE ScanInv'
    BY <1>1, CheckStep, HitStep, MissStep, ReadPageStep, ReadFailsStep, StoreStep DEF Handle
  <1>2. ASSUME NEW u \in Router, Expire(u) \/ Deploy(u) PROVE ScanInv'
    <2>1. UNCHANGED <<listing, at, pc, page, read, began, whole>>
      BY <1>2 DEF Expire, Deploy, world, asked
    <2> QED BY <2>1, ScansUntouched DEF ScanInv, ScanTypes
  <1>3. ASSUME NEW u \in Router, Publish(u) PROVE ScanInv'
    BY <1>3, PublishStep
  <1>4. CASE UNCHANGED vars
    <2>1. UNCHANGED <<listing, at, pc, page, read, began, whole>>
      BY <1>4 DEF vars, world, asked
    <2> QED BY <2>1, ScansUntouched DEF ScanInv, ScanTypes
  <1> QED BY <1>1, <1>2, <1>3, <1>4 DEF Next, Idle

\* For every size of a page, cap and listing, and however many releases are published
\* while it reads, a scan that found the end missed nothing.
THEOREM ScanTheorem == Spec => []ScanMissesNothing
  <1>1. ScanInv => ScanMissesNothing
    BY DEF ScanInv
  <1> QED BY <1>1, InitInv, NextInv, PTL DEF Spec
-----------------------------------------------------------------------------
(* Builds.  A scan reads releases of its own router, which stay listed, and *)
(* stores them under its router's key: so whoever answers from there has    *)
(* builds of that router.                                                   *)

\* Of finitely many builds one has the highest patch: the one that the fewest others
\* are above.
LEMMA HighestPatch ==
    ASSUME NEW S, IsFiniteSet(S), S # {}, \A b \in S : b.patch \in Nat
    PROVE  \E b \in S : \A c \in S : c.patch <= b.patch
  <1> DEFINE Above(b) == {c \in S : b.patch < c.patch}
             Counts == {Cardinality(Above(b)) : b \in S}
  <1>1. \A b \in S : IsFiniteSet(Above(b)) /\ Cardinality(Above(b)) \in Nat
    BY FS_Subset, FS_CardinalityType
  <1>2. Counts \subseteq Nat /\ Counts # {}
    BY <1>1
  <1>3. PICK n \in Counts : \A m \in Counts : ~(<<m, n>> \in OpToRel(<, Nat))
    BY <1>2, NatLessThanWellFounded, WFMin
  <1>4. \A m, k \in Nat : m < k => <<m, k>> \in OpToRel(<, Nat)
    BY DEF OpToRel
  <1>5. \A m \in Counts : ~(m < n)
    BY <1>2, <1>3, <1>4
  <1>6. PICK b \in S : n = Cardinality(Above(b))
    BY <1>3
  <1>7. ASSUME NEW c \in S, b.patch < c.patch PROVE FALSE
    <2>1. Above(c) \subseteq Above(b) /\ c \in Above(b) /\ c \notin Above(c)
      BY <1>7
    <2>2. Cardinality(Above(c)) \in Counts
      OBVIOUS
    <2> HIDE DEF Above
    <2>3. /\ Cardinality(Above(c)) <= Cardinality(Above(b))
          /\ Cardinality(Above(b)) # Cardinality(Above(c))
      BY <1>1, <2>1, FS_Subset
    <2>4. Cardinality(Above(c)) < Cardinality(Above(b))
      BY <1>1, <2>3
    <2> QED BY <1>5, <1>6, <2>2, <2>4
  <1> QED BY <1>7

LEMMA PublicFinite ==
    ASSUME NEW l \in Seq(Release)
    PROVE  IsFiniteSet(Public(l))
  <1> DEFINE I == {j \in DOMAIN l : l[j].public}
             f == [i \in I |-> l[i].build]
  <1>1. DOMAIN l = 1..Len(l) /\ Len(l) \in Nat
    OBVIOUS
  <1>2. IsFiniteSet(I)
    <2>1. IsFiniteSet(1..Len(l)) /\ I \in SUBSET (1..Len(l))
      BY <1>1, FS_Interval
    <2> HIDE DEF I
    <2> QED BY <2>1, FS_Subset
  <1>3. f \in Surjection(I, Public(l))
    BY DEF Public, Surjection
  <1> QED BY <1>2, <1>3, FS_Surjection

\* The newest of some builds is one of them, on the lineage that was asked for.
LEMMA NewestIsOne ==
    ASSUME NEW l \in Seq(Release), NEW builds \in SUBSET Public(l), NEW lineage,
           Newest(builds, lineage) # Missing
    PROVE  Newest(builds, lineage) \in builds /\ Newest(builds, lineage).lineage = lineage
  <1> DEFINE own == {b \in builds : b.lineage = lineage}
  <1>1. own # {} /\ Newest(builds, lineage) = CHOOSE b \in own : \A c \in own : c.patch <= b.patch
    BY DEF Newest
  <1>2. IsFiniteSet(own) /\ \A b \in own : b.patch \in Nat
    <2>1. own \subseteq Public(l) /\ IsFiniteSet(Public(l))
      BY PublicFinite
    <2>2. own \subseteq Build
      BY <2>1, PublicType
    <2> QED BY <2>1, <2>2, FS_Subset DEF Build
  <1>3. \E b \in own : \A c \in own : c.patch <= b.patch
    <2> HIDE DEF own
    <2> QED BY <1>1, <1>2, HighestPatch
  <1>4. Newest(builds, lineage) \in own
    BY <1>1, <1>3
  <1> QED BY <1>4

\* What a page holds is listed.
LEMMA SliceIsListed ==
    ASSUME NEW u \in Router, NEW p \in Nat \ {0}, listing[u] \in Seq(Release)
    PROVE  Public(Slice(u, p)) \subseteq Public(listing[u])
  <1> DEFINE s == listing[u]
             b == (p - 1) * PerPage
             n == Least(p * PerPage, Len(s))
  <1>1. b \in Nat /\ p * PerPage \in Nat
    BY UpdateAssumption, PageEnd
  <1>2. Len(s) \in Nat /\ \A i \in 1..Len(s) : s[i] \in Release
    OBVIOUS
  <1>3. Slice(u, p) = SubSeq(s, b + 1, n)
    BY DEF Slice
  <1> HIDE DEF b, s
  <1>4. n \in Nat /\ n <= Len(s)
    BY <1>1, <1>2 DEF Least
  <1> HIDE DEF n
  <1>5. ASSUME NEW i \in DOMAIN Slice(u, p)
        PROVE  b + i \in DOMAIN s /\ Slice(u, p)[i] = s[b + i]
    <2>1. \A j \in (b + 1)..n : s[j] \in Release
      BY <1>1, <1>2, <1>4
    <2>2. /\ SubSeq(s, b + 1, n) \in Seq(Release)
          /\ Len(SubSeq(s, b + 1, n)) = IF b + 1 <= n THEN n - (b + 1) + 1 ELSE 0
          /\ \A j \in 1 .. n - (b + 1) + 1 : SubSeq(s, b + 1, n)[j] = s[(b + 1) + j - 1]
      <3>1. b + 1 \in Int /\ n \in Int
        BY <1>1, <1>4
      <3> QED BY <1>1, <2>1, <3>1, SubSeqProperties
    <2>3. DOMAIN SubSeq(s, b + 1, n) = 1..Len(SubSeq(s, b + 1, n))
      BY <2>2
    <2>4. i \in 1 .. n - (b + 1) + 1
      BY <1>1, <1>3, <1>4, <2>2, <2>3
    <2>5. b + i \in 1..Len(s) /\ (b + 1) + i - 1 = b + i
      BY <1>1, <1>2, <1>4, <2>4
    <2>6. listing[u] \in Seq(Release) => DOMAIN s = 1..Len(s)
      BY DEF s
    <2> QED BY <1>3, <2>2, <2>4, <2>5, <2>6
  <1> QED BY <1>5 DEF Public, s

\* Every scan and every cache holds public builds of its own router, and whoever is
\* not answered yet has none.
OwnInv ==
    /\ cache \in [Router -> (SUBSET Build) \cup {Missing}]
    /\ query \in [Request -> Query]
    /\ DOMAIN response = Request
    /\ \A u \in Router : cache[u] # Missing => cache[u] \subseteq Public(listing[u])
    /\ \A r \in Request :
          /\ read[r] \subseteq Public(listing[at[r]])
          /\ pc[r] \in {"idle", "lookup"} => read[r] = {}
          /\ pc[r] # "done" => response[r].latest = Missing /\ response[r].link = Missing
    /\ BuildsAreOwn

LEMMA InitOwn == Init => OwnInv
  <1> SUFFICES ASSUME Init PROVE OwnInv
    OBVIOUS
  <1>1. NoAnswer.latest = Missing /\ NoAnswer.link = Missing
    BY DEF NoAnswer, Answer
  <1>2. DOMAIN response = Request /\ \A r \in Request : response[r] = NoAnswer
    BY DEF Init
  <1>3. query \in [Request -> Query]
    <2>1. [dna |-> Missing, lineage |-> Missing] \in Query
      BY DEF Query
    <2> QED BY <2>1 DEF Init
  <1>4. BuildsAreOwn
    BY <1>1, <1>2 DEF BuildsAreOwn
  <1>5. cache \in [Router -> (SUBSET Build) \cup {Missing}]
    BY DEF Init
  <1>6. /\ \A u \in Router : cache[u] = Missing
        /\ \A r \in Request : read[r] = {}
    BY DEF Init
  <1> QED BY <1>1, <1>2, <1>3, <1>4, <1>5, <1>6 DEF OwnInv

\* An answer is built from the builds at hand.
LEMMA RespondOwn ==
    ASSUME DOMAIN response = Request,
           NEW r \in Request, NEW reg, NEW t, NEW lineage,
           NEW l \in Seq(Release), NEW builds \in SUBSET Public(l),
           Respond(r, reg, t, lineage, builds)
    PROVE  /\ DOMAIN response' = Request
           /\ \A s \in Request \ {r} : response'[s] = response[s]
           /\ response'[r].latest # Missing =>
                 response'[r].latest \in Public(l) /\ response'[r].latest.lineage = lineage
           /\ response'[r].link # Missing => response'[r].link \in Public(l)
  <1> DEFINE link == IF t = Missing THEN Missing ELSE Newest(builds, Get(reg, t).release)
             latest == Newest(builds, lineage)
  <1>1. response' = [response EXCEPT ![r] = Answer("ok", t, link, latest)]
    BY DEF Respond
  <1>2. latest # Missing => latest \in Public(l) /\ latest.lineage = lineage
    BY NewestIsOne
  <1>3. link # Missing => link \in Public(l)
    BY NewestIsOne
  <1> HIDE DEF link, latest
  <1>4. response'[r].latest = latest /\ response'[r].link = link
    BY <1>1 DEF Answer
  <1> QED BY <1>1, <1>2, <1>3, <1>4

LEMMA CheckOwn ==
    ASSUME ScanInv, OwnInv, NEW r \in Request, Check(r)
    PROVE  OwnInv'
  <1>1. PICK u \in Router, q \in Queries[r] : Fetch(r, u, q)
    BY DEF Check
  <1>2. /\ pc[r] = "idle"
        /\ at' = [at EXCEPT ![r] = u]
        /\ query' = [query EXCEPT ![r] = q]
        /\ UNCHANGED <<listing, cache, read>>
        /\ q \in Query
    BY <1>1, UpdateAssumption DEF Check, Fetch, world
  <1>3. /\ DOMAIN response' = Request
        /\ \A s \in Request \ {r} : response'[s] = response[s]
        /\ response'[r].latest = Missing /\ response'[r].link = Missing
        /\ \A s \in Request \ {r} : pc'[s] = pc[s]
    <2>1. CASE \E code \in {"unknown_current_dna", "internal"} : Refuse(r, code)
      <3>1. PICK code \in {"unknown_current_dna", "internal"} : Refuse(r, code)
        BY <2>1
      <3> DEFINE a == Answer(code, Missing, Missing, Missing)
      <3>2. a.latest = Missing /\ a.link = Missing
        BY DEF Answer
      <3>3. response' = [response EXCEPT ![r] = a] /\ pc' = [pc EXCEPT ![r] = "done"]
        BY <3>1 DEF Refuse
      <3> HIDE DEF a
      <3> QED BY <3>2, <3>3 DEF OwnInv, ScanInv, ScanTypes
    <2>2. CASE UNCHANGED response /\ pc' = [pc EXCEPT ![r] = "lookup"]
      BY <1>2, <2>2 DEF OwnInv, ScanInv, ScanTypes
    <2>3. CASE Respond(r, binding[u], target'[r], Missing, {})
      BY <2>3 DEF Respond, Newest, Answer, OwnInv, ScanInv, ScanTypes
    <2> QED BY <1>1, <2>1, <2>2, <2>3 DEF Fetch, Choose
  <1>4. read[r] = {}
    BY <1>2 DEF OwnInv
  <1>5. BuildsAreOwn'
    BY <1>2, <1>3 DEF OwnInv, BuildsAreOwn, ScanInv, ScanTypes
  <1> QED BY <1>2, <1>3, <1>4, <1>5 DEF OwnInv, ScanInv, ScanTypes

LEMMA HandleOwn ==
    ASSUME ScanInv, OwnInv, NEW r \in Request, Handle(r)
    PROVE  OwnInv'
  <1>0. /\ at[r] \in Router /\ listing[at[r]] \in Seq(Release) /\ page[r] \in Nat \ {0}
        /\ UNCHANGED <<listing, at, query>>
    BY DEF ScanInv, ScanTypes, Handle, Hit, Miss, ReadPage, ReadFails, Store, world, asked
  <1>1. CASE Hit(r)
    <2>1. /\ UNCHANGED <<cache, read>>
          /\ pc' = [pc EXCEPT ![r] = "done"]
          /\ Respond(r, registry[r], target[r], query[r].lineage, cache[at[r]])
          /\ cache[at[r]] \subseteq Public(listing[at[r]])
      BY <1>0, <1>1 DEF Hit, Respond, CacheKey, OwnInv
    <2>2. /\ DOMAIN response' = Request
          /\ \A s \in Request \ {r} : response'[s] = response[s]
          /\ response'[r].latest # Missing =>
                response'[r].latest \in Public(listing[at[r]])
                  /\ response'[r].latest.lineage = query[r].lineage
          /\ response'[r].link # Missing => response'[r].link \in Public(listing[at[r]])
      BY <1>0, <2>1, RespondOwn DEF OwnInv
    <2>3. BuildsAreOwn'
      BY <1>0, <2>2 DEF OwnInv, BuildsAreOwn
    <2> QED BY <1>0, <2>1, <2>2, <2>3 DEF OwnInv, ScanInv, ScanTypes
  <1>2. CASE Miss(r) \/ ReadFails(r)
    <2>1. /\ UNCHANGED <<cache, read, response>>
          /\ \E p \in {"reading", "storing"} : pc' = [pc EXCEPT ![r] = p]
          /\ pc[r] \in {"lookup", "reading"}
      BY <1>2 DEF Miss, ReadFails
    <2> QED BY <1>0, <2>1 DEF OwnInv, BuildsAreOwn, ScanInv, ScanTypes
  <1>3. CASE ReadPage(r)
    <2>1. /\ UNCHANGED <<cache, response>>
          /\ read' = [read EXCEPT ![r] = @ \cup Public(Slice(at[r], page[r]))]
          /\ pc[r] = "reading"
          /\ pc' = pc \/ pc' = [pc EXCEPT ![r] = "storing"]
      BY <1>3 DEF ReadPage
    <2>2. read[r] \cup Public(Slice(at[r], page[r])) \subseteq Public(listing[at[r]])
      BY <1>0, SliceIsListed DEF OwnInv
    <2>3. \A s \in Request : read'[s] = IF s = r THEN read[r] \cup Public(Slice(at[r], page[r]))
                                               ELSE read[s]
      BY <2>1 DEF ScanInv, ScanTypes
    <2>4. \A s \in Request : /\ pc'[s] \in {"idle", "lookup"} => s # r /\ pc'[s] = pc[s]
                             /\ pc'[s] # "done" => pc[s] # "done"
      BY <2>1 DEF ScanInv, ScanTypes
    <2>5. BuildsAreOwn'
      BY <1>0, <2>1 DEF OwnInv, BuildsAreOwn
    <2>6. \A s \in Request : /\ read'[s] \subseteq Public(listing[at[s]])
                             /\ s # r => read'[s] = read[s]
      BY <2>2, <2>3 DEF OwnInv
    <2> QED BY <1>0, <2>1, <2>4, <2>5, <2>6 DEF OwnInv
  <1>4. CASE Store(r)
    <2>1. /\ cache' = cache \/ cache' = [cache EXCEPT ![at[r]] = read[r]]
          /\ pc' = [pc EXCEPT ![r] = "done"]
          /\ read' = [read EXCEPT ![r] = {}]
          /\ Respond(r, registry[r], target[r], query[r].lineage, read[r])
      BY <1>4 DEF Store, Respond, CacheKey
    <2>2. read[r] \subseteq Public(listing[at[r]]) /\ read[r] \subseteq Build
      BY DEF OwnInv, ScanInv, ScanTypes
    <2>3. /\ DOMAIN response' = Request
          /\ \A s \in Request \ {r} : response'[s] = response[s]
          /\ response'[r].latest # Missing =>
                response'[r].latest \in Public(listing[at[r]])
                  /\ response'[r].latest.lineage = query[r].lineage
          /\ response'[r].link # Missing => response'[r].link \in Public(listing[at[r]])
      BY <1>0, <2>1, <2>2, RespondOwn DEF OwnInv
    <2>4. /\ cache' \in [Router -> (SUBSET Build) \cup {Missing}]
          /\ \A u \in Router : cache'[u] # Missing => cache'[u] \subseteq Public(listing[u])
      BY <1>0, <2>1, <2>2 DEF OwnInv
    <2>5. BuildsAreOwn'
      BY <1>0, <2>3 DEF OwnInv, BuildsAreOwn
    <2> QED BY <1>0, <2>1, <2>3, <2>4, <2>5 DEF OwnInv, ScanInv, ScanTypes
  <1> QED BY <1>1, <1>2, <1>3, <1>4 DEF Handle

\* What is published stays.
LEMMA PublishOwn ==
    ASSUME ScanInv, OwnInv, NEW u \in Router, Publish(u)
    PROVE  OwnInv'
  <1>1. UNCHANGED <<cache, at, query, pc, read, response>>
    BY DEF Publish, asked
  <1>2. \A v \in Router : Public(listing[v]) \subseteq Public(listing'[v])
    <2>1. /\ listing' \in [Router -> Seq(Release)]
          /\ \A v \in Router \ {u} : listing'[v] = listing[v]
          /\ Len(listing'[u]) = Len(listing[u]) + 1
          /\ \A i \in 1..Len(listing[u]) : listing'[u][i + 1] = listing[u][i]
      BY PublishFront DEF ScanInv
    <2>2. listing[u] \in Seq(Release) /\ listing'[u] \in Seq(Release)
      BY <2>1 DEF ScanInv, ScanTypes
    <2>3. ASSUME NEW i \in DOMAIN listing[u]
          PROVE  i + 1 \in DOMAIN listing'[u] /\ listing'[u][i + 1] = listing[u][i]
      BY <2>1, <2>2
    <2>4. Public(listing[u]) \subseteq Public(listing'[u])
      BY <2>3 DEF Public
    <2> QED BY <2>1, <2>4
  <1>3. \A r \in Request : at[r] \in Router
    BY DEF ScanInv, ScanTypes
  <1>4. BuildsAreOwn'
    BY <1>1, <1>2, <1>3 DEF OwnInv, BuildsAreOwn
  <1> QED BY <1>1, <1>2, <1>3, <1>4 DEF OwnInv

\* Whoever filled the cache, whatever was published or deployed meanwhile, and for
\* every size of a page, cap and listing, an answer's builds are public ones of the
\* router that was asked, on the lineage it was asked about.
THEOREM BuildsTheorem == Spec => []BuildsAreOwn
  <1>1. ScanInv /\ OwnInv /\ [Next]_vars => OwnInv'
    <2> SUFFICES ASSUME ScanInv, OwnInv, [Next]_vars PROVE OwnInv'
      OBVIOUS
    <2>1. ASSUME NEW r \in Request, Check(r) \/ Handle(r) PROVE OwnInv'
      BY <2>1, CheckOwn, HandleOwn
    <2>2. ASSUME NEW u \in Router, Expire(u) PROVE OwnInv'
      <3>1. /\ cache' = [cache EXCEPT ![u] = Missing]
            /\ UNCHANGED <<listing, at, query, pc, read, response>>
        BY <2>2 DEF Expire, world, asked
      <3>2. /\ cache' \in [Router -> (SUBSET Build) \cup {Missing}]
            /\ \A v \in Router : cache'[v] # Missing => cache'[v] = cache[v]
        <4>1. cache \in [Router -> (SUBSET Build) \cup {Missing}]
          BY DEF OwnInv
        <4>2. Missing \in (SUBSET Build) \cup {Missing}
          OBVIOUS
        <4>3. cache' \in [Router -> (SUBSET Build) \cup {Missing}]
          BY <3>1, <4>1, <4>2, Zenon
        <4>4. \A v \in Router : cache'[v] = IF v = u THEN Missing ELSE cache[v]
          BY <3>1, <4>1, Zenon
        <4> QED BY <4>3, <4>4
      <3>3. BuildsAreOwn'
        BY <3>1 DEF OwnInv, BuildsAreOwn
      <3> QED BY <3>1, <3>2, <3>3 DEF OwnInv
    <2>3. ASSUME NEW u \in Router, Publish(u) PROVE OwnInv'
      BY <2>3, PublishOwn
    <2>4. ASSUME UNCHANGED <<listing, at, query, cache, pc, read, response>> PROVE OwnInv'
      BY <2>4 DEF OwnInv, BuildsAreOwn
    <2>5. CASE (\E u \in Router : Deploy(u)) \/ Idle \/ UNCHANGED vars
      BY <2>4, <2>5 DEF Deploy, Idle, vars, world, asked
    <2> QED BY <2>1, <2>2, <2>3, <2>5 DEF Next
  <1>2. OwnInv => BuildsAreOwn
    BY DEF OwnInv
  <1> QED BY <1>1, <1>2, InitInv, NextInv, InitOwn, PTL DEF Spec
-----------------------------------------------------------------------------
(* Walks along the registry.  A walk of n steps is defined from one of n - 1  *)
(* steps; that there is one for every n, and what it passes, is by induction. *)

\* What holds of 0, and of n + 1 when it holds of n, holds up to any bound.
LEMMA UpTo ==
    ASSUME NEW max \in Nat, NEW S, 0 \in S, \A n \in 0..(max - 1) : n \in S => n + 1 \in S
    PROVE  0..max \subseteq S
  <1> DEFINE T == {n \in 0..max : n \notin S}
  <1> SUFFICES ASSUME T # {} PROVE FALSE
    OBVIOUS
  <1>1. T \subseteq Nat
    OBVIOUS
  <1>2. PICK n \in T : \A m \in T : ~(<<m, n>> \in OpToRel(<, Nat))
    <2> HIDE DEF T
    <2> QED BY <1>1, NatLessThanWellFounded, WFMin
  <1>3. n # 0 /\ n - 1 \in 0..(max - 1) /\ (n - 1) + 1 = n
    OBVIOUS
  <1>4. n - 1 \in T
    BY <1>3
  <1>5. <<n - 1, n>> \in OpToRel(<, Nat)
    BY <1>3 DEF OpToRel
  <1> QED BY <1>2, <1>4, <1>5

\* Of some indices up to a bound one is the greatest.
LEMMA Greatest ==
    ASSUME NEW max \in Nat, NEW I, I \subseteq 1..max, I # {}
    PROVE  \E n \in I : \A m \in I : m <= n
  <1> DEFINE Left == {max - n : n \in I}
  <1>1. Left \subseteq Nat /\ Left # {}
    <2>1. \A n \in I : n \in 1..max /\ max - n \in Nat
      OBVIOUS
    <2>2. PICK n \in I : TRUE
      OBVIOUS
    <2> QED BY <2>1, <2>2
  <1>2. PICK l \in Left : \A k \in Left : ~(<<k, l>> \in OpToRel(<, Nat))
    <2> HIDE DEF Left
    <2> QED BY <1>1, NatLessThanWellFounded, WFMin
  <1>3. PICK n \in I : l = max - n
    OBVIOUS
  <1>4. ASSUME NEW m \in I, n < m PROVE FALSE
    <2>1. max - m \in Nat /\ l \in Nat /\ max - m < l /\ max - m \in Left
      BY <1>3, <1>4
    <2>2. <<max - m, l>> \in OpToRel(<, Nat)
      BY <2>1 DEF OpToRel
    <2> QED BY <1>2, <2>1, <2>2
  <1>5. \A m \in I : m \in Int /\ n \in Int
    OBVIOUS
  <1> QED BY <1>4, <1>5

\* The place a step leads to.
Onward(step, last) == IF last = Missing THEN Missing ELSE step[last]

\* The definition of a walk has a solution, so a walk is one.
LEMMA WalkFacts ==
    ASSUME NEW max \in Nat, NEW h \in Dna \cup {Missing},
           NEW step \in [Dna -> Dna \cup {Missing}]
    PROVE  /\ Walk(step, h, max)[0] = h
           /\ \A n \in 0..(max - 1) :
                 Walk(step, h, max)[n + 1] = Onward(step, Walk(step, h, max)[n])
           /\ \A n \in 0..max : Walk(step, h, max)[n] \in Dna \cup {Missing}
  <1> DEFINE X == Dna \cup {Missing}
             Solves(g, m) == /\ g[0] = h
                             /\ \A n \in 0..(m - 1) : g[n + 1] = Onward(step, g[n])
             Solved == {m \in Nat : \E g \in [0..m -> X] : Solves(g, m)}
  <1>1. \A x \in X : Onward(step, x) \in X
    BY DEF Onward
  <1>2. 0 \in Solved
    <2>1. [n \in 0..0 |-> h] \in [0..0 -> X] /\ Solves([n \in 0..0 |-> h], 0)
      OBVIOUS
    <2> QED BY <2>1
  <1>3. ASSUME NEW m \in 0..(max - 1), m \in Solved PROVE m + 1 \in Solved
    <2>1. PICK g \in [0..m -> X] : Solves(g, m)
      BY <1>3
    <2> DEFINE f == [n \in 0..(m + 1) |-> IF n = m + 1 THEN Onward(step, g[m]) ELSE g[n]]
    <2>2. f \in [0..(m + 1) -> X]
      <3>1. Onward(step, g[m]) \in X
        BY <1>1
      <3>2. \A n \in 0..(m + 1) : n # m + 1 => n \in 0..m
        OBVIOUS
      <3> HIDE DEF X
      <3> QED BY <3>1, <3>2
    <2>3. f[0] = h
      BY <2>1
    <2>4. ASSUME NEW n \in 0..((m + 1) - 1) PROVE f[n + 1] = Onward(step, f[n])
      <3>1. n \in 0..m /\ n # m + 1 /\ n + 1 \in 0..(m + 1) /\ n \in 0..(m + 1)
        OBVIOUS
      <3>2. f[n] = g[n]
        BY <3>1
      <3>3. CASE n = m
        BY <3>1, <3>2, <3>3
      <3>4. CASE n # m
        <4>1. n \in 0..(m - 1) /\ n + 1 # m + 1
          BY <3>1, <3>4
        <4>2. f[n + 1] = g[n + 1]
          BY <3>1, <4>1
        <4> QED BY <2>1, <3>2, <4>1, <4>2
      <3> QED BY <3>3, <3>4
    <2> HIDE DEF f, X
    <2>5. m + 1 \in Nat /\ Solves(f, m + 1)
      BY <2>3, <2>4
    <2> QED BY <2>2, <2>5
  <1>4. max \in Solved
    <2> HIDE DEF Solved
    <2>1. 0..max \subseteq Solved
      BY <1>2, <1>3, UpTo
    <2> QED BY <2>1
  <1>5. PICK g \in [0..max -> X] : Solves(g, max)
    BY <1>4
  <1> DEFINE Rule(w) == w = [n \in 0..max |-> IF n = 0 THEN h ELSE Onward(step, w[n - 1])]
             walk == CHOOSE w : Rule(w)
  <1>6. Rule(g)
    <2>1. \A n \in 0..max : n # 0 => n - 1 \in 0..(max - 1) /\ (n - 1) + 1 = n
      OBVIOUS
    <2>2. \A n \in 0..max : g[n] = IF n = 0 THEN h ELSE Onward(step, g[n - 1])
      BY <1>5, <2>1
    <2> DEFINE e(n) == IF n = 0 THEN h ELSE Onward(step, g[n - 1])
    <2>3. g = [n \in 0..max |-> g[n]]
      BY <1>5
    <2>4. \A n \in 0..max : g[n] = e(n)
      BY <2>2
    <2> HIDE DEF e
    <2>5. [n \in 0..max |-> g[n]] = [n \in 0..max |-> e(n)]
      BY <2>4
    <2>6. g = [n \in 0..max |-> e(n)]
      BY <2>3, <2>5
    <2> USE DEF e
    <2> QED BY <2>6
  <1>7. Rule(walk)
    BY <1>6
  <1>8. Walk(step, h, max) = walk
    BY DEF Walk, Onward
  <1> HIDE DEF walk
  <1>9. walk[0] = h
    BY <1>7
  <1>10. ASSUME NEW n \in 0..(max - 1) PROVE walk[n + 1] = Onward(step, walk[n])
    <2>1. n + 1 \in 0..max /\ n + 1 # 0 /\ (n + 1) - 1 = n
      OBVIOUS
    <2> QED BY <1>7, <2>1
  <1>11. 0..max \subseteq {n \in Nat : walk[n] \in X}
    <2>1. 0 \in {n \in Nat : walk[n] \in X}
      BY <1>9
    <2>2. \A n \in 0..(max - 1) : n \in {k \in Nat : walk[k] \in X} =>
                                     n + 1 \in {k \in Nat : walk[k] \in X}
      BY <1>1, <1>10
    <2> QED BY <2>1, <2>2, UpTo
  <1> QED BY <1>8, <1>9, <1>10, <1>11
-----------------------------------------------------------------------------
(* A registry that loads.  Its chains are linear: a step forward is undone by a *)
(* step back, so a forward walk that did not end would be a walk back that does *)
(* not end.                                                                     *)

LEMMA EntryTypes ==
    ASSUME NEW reg \in Seq(Entry)
    PROVE  \A e \in Entries(reg) :
              /\ e.hash \in Dna /\ e.hash # Missing
              /\ e.from \in Dna \cup {Missing}
              /\ e.targets \in Seq(Dna) \cup {Missing}
              /\ e.notaries \in Seq(Notary)
              /\ e.threshold \in Nat \cup {Missing}
              /\ e \in Entry
  <1>1. \A i \in DOMAIN reg : reg[i] \in Entry
    OBVIOUS
  <1>2. Entries(reg) \subseteq Entry
    BY <1>1 DEF Entries, Range
  <1> QED BY <1>2, MissingAssumption DEF Entry

\* A hash has one entry.
LEMMA OneEntry ==
    ASSUME NEW reg \in Seq(Entry), Loads(reg)
    PROVE  /\ \A e \in Entries(reg) : Get(reg, e.hash) = e
           /\ \A h \in Hashes(reg) : Get(reg, h) \in Entries(reg) /\ Get(reg, h).hash = h
  <1>1. \A d, e \in Entries(reg) : d.hash = e.hash => d = e
    BY DEF Loads, NoRepeats, Entries, Range
  <1>2. \A h \in Hashes(reg) : \E e \in Entries(reg) : e.hash = h
    BY DEF Hashes
  <1>3. \A h \in Hashes(reg) : Get(reg, h) \in Entries(reg) /\ Get(reg, h).hash = h
    BY <1>2 DEF Get
  <1>4. \A e \in Entries(reg) : e.hash \in Hashes(reg)
    BY DEF Hashes
  <1> QED BY <1>1, <1>3, <1>4

\* A step forward is the entry that upgrades from there, which steps back.
LEMMA StepForward ==
    ASSUME NEW reg \in Seq(Entry), Loads(reg), NEW h \in Dna
    PROVE  /\ Successor(reg, h) \in Hashes(reg) \cup {Missing}
           /\ Successor(reg, h) # Missing => Predecessor(reg, Successor(reg, h)) = h
           /\ \A e \in Entries(reg) : e.from = h => Successor(reg, h) = e.hash
  <1>1. h # Missing
    BY MissingAssumption
  <1>2. \A d, e \in Entries(reg) : d.from = h /\ e.from = h => d = e
    BY <1>1 DEF Loads, OneSuccessor
  <1>3. CASE \E e \in Entries(reg) : e.from = h
    <2>1. PICK e \in Entries(reg) : e.from = h /\ Successor(reg, h) = e.hash
      BY <1>3 DEF Successor
    <2>2. e.hash \in Hashes(reg)
      BY DEF Hashes
    <2>3. Predecessor(reg, e.hash) = h
      BY <2>1, <2>2, OneEntry DEF Predecessor
    <2> QED BY <1>2, <2>1, <2>2, <2>3
  <1>4. CASE ~ \E e \in Entries(reg) : e.from = h
    BY <1>4 DEF Successor
  <1> QED BY <1>3, <1>4

LEMMA HashTypes ==
    ASSUME NEW reg \in Seq(Entry)
    PROVE  Hashes(reg) \subseteq Dna /\ Missing \notin Hashes(reg)
  BY EntryTypes DEF Hashes

\* The forward walk.
LEMMA ForwardFacts ==
    ASSUME NEW reg \in Seq(Entry), Loads(reg), NEW h \in Dna
    PROVE  /\ Len(reg) \in Nat
           /\ Forward(reg, h)[0] = h
           /\ \A n \in 0..Len(reg) : Forward(reg, h)[n] \in Dna \cup {Missing}
           /\ \A n \in 0..(Len(reg) - 1) :
                 /\ Forward(reg, h)[n] = Missing => Forward(reg, h)[n + 1] = Missing
                 /\ Forward(reg, h)[n] # Missing =>
                       Forward(reg, h)[n + 1] = Successor(reg, Forward(reg, h)[n])
           /\ \A n \in 1..Len(reg) :
                 Forward(reg, h)[n] # Missing =>
                     /\ Forward(reg, h)[n] \in Hashes(reg)
                     /\ Forward(reg, h)[n - 1] \in Dna
                     /\ Predecessor(reg, Forward(reg, h)[n]) = Forward(reg, h)[n - 1]
  <1> DEFINE step == [d \in Dna |-> Successor(reg, d)]
             walk == Forward(reg, h)
  <1>1. step \in [Dna -> Dna \cup {Missing}]
    BY StepForward, HashTypes
  <1>2. Len(reg) \in Nat
    OBVIOUS
  <1>3. walk = Walk(step, h, Len(reg))
    BY DEF Forward
  <1>4. /\ walk[0] = h
        /\ \A n \in 0..(Len(reg) - 1) : walk[n + 1] = Onward(step, walk[n])
        /\ \A n \in 0..Len(reg) : walk[n] \in Dna \cup {Missing}
    <2> HIDE DEF step
    <2> QED BY <1>1, <1>2, <1>3, WalkFacts
  <1> HIDE DEF walk
  <1>5. \A n \in 0..(Len(reg) - 1) :
            /\ walk[n] = Missing => walk[n + 1] = Missing
            /\ walk[n] # Missing => walk[n] \in Dna /\ walk[n + 1] = Successor(reg, walk[n])
    <2> SUFFICES ASSUME NEW n \in 0..(Len(reg) - 1)
                 PROVE  /\ walk[n] = Missing => walk[n + 1] = Missing
                        /\ walk[n] # Missing => walk[n] \in Dna /\ walk[n + 1] = Successor(reg, walk[n])
      OBVIOUS
    <2>1. n \in 0..Len(reg)
      BY <1>2
    <2> QED BY <1>4, <2>1 DEF Onward
  <1>6. ASSUME NEW n \in 1..Len(reg), walk[n] # Missing
        PROVE  /\ walk[n] \in Hashes(reg) /\ walk[n - 1] \in Dna
               /\ Predecessor(reg, walk[n]) = walk[n - 1]
    <2>1. n - 1 \in 0..(Len(reg) - 1) /\ (n - 1) + 1 = n
      BY <1>2
    <2>2. walk[n - 1] \in Dna /\ walk[n] = Successor(reg, walk[n - 1])
      BY <1>5, <1>6, <2>1
    <2> QED BY <1>6, <2>2, StepForward
  <1> QED BY <1>2, <1>4, <1>5, <1>6 DEF walk

\* A walk is somewhere as long as it goes on.
LEMMA ForwardBefore ==
    ASSUME NEW reg \in Seq(Entry), Loads(reg), NEW h \in Dna,
           NEW m \in 0..Len(reg), Forward(reg, h)[m] # Missing
    PROVE  \A n \in 0..m : Forward(reg, h)[n] \in Dna
  <1> DEFINE walk == Forward(reg, h)
             S == {k \in Nat : k <= m /\ walk[m - k] # Missing}
  <1>0. m \in Nat /\ Len(reg) \in Nat
    BY ForwardFacts
  <1>1. 0 \in S
    BY <1>0
  <1>2. ASSUME NEW k \in 0..(m - 1), k \in S PROVE k + 1 \in S
    <2>1. m - k \in 1..Len(reg) /\ (m - k) - 1 = m - (k + 1) /\ k + 1 <= m /\ k + 1 \in Nat
      BY <1>0
    <2>2. walk[m - (k + 1)] \in Dna
      BY <1>2, <2>1, ForwardFacts
    <2> QED BY <2>1, <2>2, MissingAssumption
  <1>3. 0..m \subseteq S
    <2> HIDE DEF S
    <2> QED BY <1>0, <1>1, <1>2, UpTo
  <1>4. ASSUME NEW n \in 0..m PROVE walk[n] \in Dna
    <2>1. m - n \in 0..m /\ m - (m - n) = n /\ n \in 0..Len(reg)
      BY <1>0
    <2>2. walk[n] # Missing
      BY <1>3, <2>1
    <2> QED BY <2>1, <2>2, ForwardFacts
  <1> QED BY <1>4

\* Every forward walk ends: from where it does not, the way back leads to its start
\* and is as long, which Acyclic excludes.
LEMMA ForwardEnds ==
    ASSUME NEW reg \in Seq(Entry), Loads(reg), NEW h \in Dna, Len(reg) # 0
    PROVE  Forward(reg, h)[Len(reg)] = Missing
  <1> DEFINE walk == Forward(reg, h)
             l == Len(reg)
             step == [d \in Dna |-> Predecessor(reg, d)]
             back == Walk(step, walk[l], l)
             S == {k \in Nat : k <= l /\ back[k] = walk[l - k]}
  <1> SUFFICES ASSUME walk[l] # Missing PROVE FALSE
    OBVIOUS
  <1>0. l \in Nat /\ l \in 1..l /\ l \in 0..l
    OBVIOUS
  <1>1. walk[l] \in Hashes(reg) /\ walk[l] \in Dna
    BY <1>0, ForwardFacts, HashTypes
  <1>2. back[l] = Missing
    BY <1>1 DEF Loads, Acyclic
  <1>3. step \in [Dna -> Dna \cup {Missing}]
    BY OneEntry, EntryTypes DEF Predecessor
  <1>4. /\ back[0] = walk[l]
        /\ \A n \in 0..(l - 1) : back[n + 1] = Onward(step, back[n])
    <2> HIDE DEF step, walk
    <2> QED BY <1>0, <1>1, <1>3, WalkFacts
  <1> HIDE DEF back
  <1>5. 0 \in S
    <2>1. l - 0 = l
      BY <1>0
    <2> QED BY <1>0, <1>4, <2>1
  <1>6. ASSUME NEW k \in 0..(l - 1), k \in S PROVE k + 1 \in S
    <2>1. /\ l - k \in 1..l /\ l - k \in 0..l /\ (l - k) - 1 = l - (k + 1)
          /\ k + 1 <= l /\ k + 1 \in Nat
      BY <1>0
    <2>2. walk[l - k] \in Dna /\ walk[l - k] # Missing
      BY <1>0, <2>1, ForwardBefore, MissingAssumption
    <2>3. Predecessor(reg, walk[l - k]) = walk[l - (k + 1)]
      BY <2>1, <2>2, ForwardFacts
    <2>4. back[k + 1] = Onward(step, walk[l - k])
      BY <1>4, <1>6
    <2> QED BY <2>1, <2>2, <2>3, <2>4 DEF Onward
  <1>7. l \in S
    <2> HIDE DEF S, l
    <2> QED BY <1>0, <1>5, <1>6, UpTo
  <1>8. back[l] = h
    <2>1. l - l = 0
      BY <1>0
    <2> QED BY <1>7, <2>1, ForwardFacts
  <1> QED BY <1>2, <1>8, MissingAssumption
\* What a forward walk reaches is ahead of whatever it passed before.
LEMMA FurtherIsAhead ==
    ASSUME NEW reg \in Seq(Entry), Loads(reg), NEW h \in Dna,
           NEW m \in 0..Len(reg), NEW n \in 0..Len(reg), m < n,
           Forward(reg, h)[n] # Missing
    PROVE  Forward(reg, h)[n] \in Ahead(reg, Forward(reg, h)[m])
  <1> DEFINE walk == Forward(reg, h)
             o == walk[m]
  <1>0. m \in Nat /\ n \in Nat /\ Len(reg) \in Nat /\ n \in 1..Len(reg)
    BY ForwardFacts
  <1>1. \A k \in 0..n : walk[k] \in Dna /\ walk[k] # Missing
    BY ForwardBefore, MissingAssumption
  <1>2. walk[n] \in Hashes(reg)
    BY <1>0, ForwardFacts
  <1>3. ASSUME NEW S \in SUBSET Hashes(reg),
               \A e \in Entries(reg) : e.from \in S \cup {o} => e.hash \in S
        PROVE  walk[n] \in S
    <2> DEFINE T == {k \in Nat : m < k /\ k <= n => walk[k] \in S}
    <2>1. 0 \in T
      BY <1>0
    <2>2. ASSUME NEW k \in 0..(n - 1), k \in T PROVE k + 1 \in T
      <3> SUFFICES ASSUME m < k + 1 PROVE walk[k + 1] \in S
        BY <1>0
      <3>1. k \in 0..n /\ k + 1 \in 1..Len(reg) /\ k + 1 \in 0..n /\ (k + 1) - 1 = k
        BY <1>0
      <3>2. walk[k] \in S \cup {o}
        BY <1>0, <2>2, <3>1
      <3>3. /\ walk[k + 1] \in Hashes(reg)
            /\ Predecessor(reg, walk[k + 1]) = walk[k]
        BY <1>1, <3>1, ForwardFacts
      <3>4. PICK e \in Entries(reg) : e.hash = walk[k + 1] /\ e.from = walk[k]
        BY <3>3, OneEntry DEF Predecessor
      <3> QED BY <1>3, <3>2, <3>4
    <2>3. n \in T
      <3> HIDE DEF T
      <3>1. 0..n \subseteq T
        BY <1>0, <2>1, <2>2, UpTo
      <3> QED BY <1>0, <3>1
    <2> QED BY <1>0, <2>3
  <1> QED BY <1>2, <1>3 DEF Ahead

\* The forward chain is all that is ahead.
LEMMA AheadIsChain ==
    ASSUME NEW reg \in Seq(Entry), Loads(reg), NEW h \in Dna
    PROVE  Ahead(reg, h) = ForwardChain(reg, h)
  <1> DEFINE walk == Forward(reg, h)
             C == ForwardChain(reg, h)
  <1>0. Len(reg) \in Nat /\ walk[0] = h
    BY ForwardFacts
  <1>1. ASSUME NEW t \in C PROVE t \in Ahead(reg, h)
    <2>1. PICK n \in 1..Len(reg) : t = walk[n]
      BY DEF ForwardChain
    <2>2. t # Missing
      BY DEF ForwardChain
    <2>3. 0 \in 0..Len(reg) /\ n \in 0..Len(reg) /\ 0 < n
      BY <1>0
    <2> QED BY <1>0, <2>1, <2>2, <2>3, FurtherIsAhead
  <1>2. C \in SUBSET Hashes(reg)
    BY ForwardFacts DEF ForwardChain
  <1>3. ASSUME NEW e \in Entries(reg), e.from \in C \cup {h} PROVE e.hash \in C
    <2>1. PICK n \in 0..Len(reg) : walk[n] = e.from
      <3>1. CASE e.from \in C
        <4>1. PICK n \in 1..Len(reg) : walk[n] = e.from
          BY <3>1 DEF ForwardChain
        <4>2. n \in 0..Len(reg)
          BY <1>0
        <4> QED BY <4>1, <4>2
      <3>2. CASE e.from = h
        <4>1. 0 \in 0..Len(reg)
          BY <1>0
        <4> QED BY <1>0, <3>2, <4>1
      <3> QED BY <1>3, <3>1, <3>2
    <2>2. e.from \in Dna /\ e.from # Missing
      BY <1>2, <1>3, HashTypes, MissingAssumption
    <2>3. Len(reg) # 0
      BY DEF Entries, Range
    <2>4. n # Len(reg)
      BY <2>1, <2>2, <2>3, ForwardEnds
    <2>5. n \in 0..(Len(reg) - 1) /\ n + 1 \in 1..Len(reg)
      BY <1>0, <2>4
    <2>6. walk[n + 1] = Successor(reg, e.from)
      BY <2>1, <2>2, <2>5, ForwardFacts
    <2>7. walk[n + 1] = e.hash
      BY <2>2, <2>6, StepForward
    <2>8. e.hash # Missing
      BY EntryTypes
    <2> QED BY <2>5, <2>7, <2>8 DEF ForwardChain
  <1>4. ASSUME NEW t \in Ahead(reg, h) PROVE t \in C
    BY <1>2, <1>3 DEF Ahead
  <1> QED BY <1>1, <1>4

\* No forward walk returns to its start: it would go on for ever.
LEMMA NeverBack ==
    ASSUME NEW reg \in Seq(Entry), Loads(reg), NEW h \in Dna,
           NEW n \in 1..Len(reg)
    PROVE  Forward(reg, h)[n] # h
  <1> DEFINE walk == Forward(reg, h)
             Loop == {walk[k] : k \in 0..(n - 1)}
             S == {k \in Nat : walk[k] \in Loop}
  <1> SUFFICES ASSUME walk[n] = h PROVE FALSE
    OBVIOUS
  <1>0. Len(reg) \in Nat /\ n \in Nat /\ walk[0] = h /\ h # Missing /\ n \in 0..Len(reg)
    BY ForwardFacts, MissingAssumption
  <1>1. \A k \in 0..n : walk[k] \in Dna /\ walk[k] # Missing
    BY <1>0, ForwardBefore, MissingAssumption
  <1>2. 0 \in S
    <2>1. 0 \in 0..(n - 1)
      BY <1>0
    <2> QED BY <2>1
  <1>3. ASSUME NEW k \in 0..(Len(reg) - 1), k \in S PROVE k + 1 \in S
    <2>1. PICK j \in 0..(n - 1) : walk[k] = walk[j]
      BY <1>3
    <2>2. j \in 0..(Len(reg) - 1) /\ j \in 0..n
      BY <1>0
    <2>3. walk[k + 1] = walk[j + 1]
      BY <1>1, <2>1, <2>2, ForwardFacts
    <2>4. walk[j + 1] \in Loop
      <3>1. CASE j + 1 = n
        <4>1. 0 \in 0..(n - 1) /\ walk[j + 1] = walk[0]
          BY <1>0, <3>1
        <4> QED BY <4>1
      <3>2. CASE j + 1 # n
        <4>1. j + 1 \in 0..(n - 1)
          BY <1>0, <3>2
        <4> QED BY <4>1
      <3> QED BY <3>1, <3>2
    <2>5. k + 1 \in Nat
      BY <1>0
    <2> QED BY <2>3, <2>4, <2>5
  <1>4. 0..Len(reg) \subseteq S
    <2> HIDE DEF S
    <2> QED BY <1>0, <1>2, <1>3, UpTo
  <1>5. walk[Len(reg)] \in Loop
    <2>1. Len(reg) \in 0..Len(reg)
      BY <1>0
    <2> QED BY <1>4, <2>1
  <1>6. PICK j \in 0..(n - 1) : walk[Len(reg)] = walk[j]
    BY <1>5
  <1>7. j \in 0..n /\ Len(reg) # 0
    BY <1>0
  <1> QED BY <1>1, <1>6, <1>7, ForwardEnds

\* A target is ahead, an entry of its own with a predecessor.
LEMMA TargetFacts ==
    ASSUME NEW reg \in Seq(Entry), Loads(reg), NEW h \in Dna,
           NEW t \in Targets(Get(reg, h))
    PROVE  /\ h \in Hashes(reg)
           /\ t \in ForwardChain(reg, h)
           /\ t \in Hashes(reg) /\ t # h
           /\ Get(reg, t).from \in Dna /\ Get(reg, t).from # Missing
  <1>1. Get(reg, h) # Missing
    BY DEF Targets
  <1>2. h \in Hashes(reg)
    BY <1>1 DEF Get
  <1>3. Get(reg, h) \in Entries(reg) /\ Get(reg, h).hash = h /\ Get(reg, h).targets # Missing
    BY <1>2, OneEntry DEF Targets
  <1>4. t \in ForwardChain(reg, h)
    BY <1>3 DEF Loads, TargetsAhead
  <1>5. PICK n \in 1..Len(reg) : t = Forward(reg, h)[n] /\ t # Missing
    BY <1>4 DEF ForwardChain
  <1>6. t \in Hashes(reg) /\ Predecessor(reg, t) \in Dna
    BY <1>5, ForwardFacts
  <1>7. Get(reg, t).from \in Dna
    BY <1>6 DEF Predecessor
  <1> QED BY <1>2, <1>4, <1>5, <1>6, <1>7, NeverBack, MissingAssumption

\* A source's notaries are as many as it lists, and its threshold is within them.
LEMMA ThresholdFacts ==
    ASSUME NEW reg \in Seq(Entry), Loads(reg), NEW e \in Entries(reg),
           e.targets # Missing \/ e.threshold # Missing
    PROVE  /\ IsFiniteSet(Range(e.notaries))
           /\ e.threshold \in 1..Cardinality(Range(e.notaries))
  <1> DEFINE s == e.notaries
  <1>1. s \in Seq(Notary) /\ NoRepeats(s) /\ e.threshold \in 1..Len(s)
    BY EntryTypes DEF Loads, ThresholdFits
  <1>2. Len(s) \in Nat /\ DOMAIN s = 1..Len(s)
    BY <1>1
  <1>3. s \in Bijection(1..Len(s), Range(s))
    <2>1. s \in [1..Len(s) -> Range(s)]
      BY <1>1, <1>2 DEF Range
    <2>2. \A t \in Range(s) : \E i \in 1..Len(s) : s[i] = t
      BY <1>2 DEF Range
    <2>3. \A i, j \in 1..Len(s) : s[i] = s[j] => i = j
      BY <1>1, <1>2 DEF NoRepeats
    <2> HIDE DEF s
    <2> QED BY <2>1, <2>2, <2>3, Zenon DEF Bijection, Injection, Surjection, IsInjective
  <1>4. IsFiniteSet(1..Len(s)) /\ Cardinality(1..Len(s)) = Len(s)
    BY <1>2, FS_Interval
  <1>5. IsFiniteSet(Range(s)) /\ Cardinality(Range(s)) = Len(s)
    <2>1. ExistsBijection(1..Len(s), Range(s))
      BY <1>3 DEF ExistsBijection
    <2> HIDE DEF s
    <2> QED BY <1>4, <2>1, FS_Bijection
  <1> QED BY <1>1, <1>5

\* Whoever has a target can be closed towards it.
LEMMA TargetIsServable ==
    ASSUME NEW reg \in Seq(Entry), Loads(reg), NEW from \in Dna,
           NEW to \in Targets(Get(reg, from))
    PROVE  Servable(reg, from, to)
  <1>1. /\ from \in Hashes(reg) /\ to \in Hashes(reg) /\ to # from
        /\ Get(reg, to).from # Missing
    BY TargetFacts
  <1>2. Serves(reg, from, to)
    BY <1>1 DEF Serves, SourcesReaching
  <1>3. Get(reg, from) \in Entries(reg) /\ Get(reg, from).targets # Missing
    BY <1>1, OneEntry DEF Targets
  <1>4. Get(reg, from).threshold \in 1..Cardinality(Range(Get(reg, from).notaries))
    BY <1>3, ThresholdFacts
  <1> QED BY <1>1, <1>2, <1>4 DEF Servable

\* The furthest target is the published one that every other is passed on the way to.
LEMMA FurthestFacts ==
    ASSUME NEW reg \in Seq(Entry), Loads(reg), NEW h \in Dna
    PROVE  LET t == FurthestTarget(reg, h)
               all == Offerable(reg, h)
           IN  /\ t = Missing => all = {}
               /\ t # Missing => /\ t \in all
                                 /\ \A o \in all \ {t} : t \in Ahead(reg, o)
                                 /\ t \in Targets(Get(reg, h))
  <1> DEFINE walk == Forward(reg, h)
             Offer(n) == walk[n] \in Targets(Get(reg, h)) /\ Get(reg, walk[n]).published
             offered == {n \in 1..Len(reg) : Offer(n)}
             last == CHOOSE n \in offered : \A m \in offered : m <= n
             all == Offerable(reg, h)
  <1>0. Len(reg) \in Nat
    BY ForwardFacts
  <1>1. FurthestTarget(reg, h) = IF offered = {} THEN Missing ELSE walk[last]
    BY DEF FurthestTarget
  <1>2. \A n \in offered : walk[n] # Missing /\ walk[n] \in all
    <2> SUFFICES ASSUME NEW n \in offered PROVE walk[n] # Missing /\ walk[n] \in all
      OBVIOUS
    <2>1. n \in 1..Len(reg) /\ walk[n] \in Targets(Get(reg, h)) /\ Get(reg, walk[n]).published
      OBVIOUS
    <2>2. walk[n] \in Hashes(reg) /\ walk[n] # Missing
      BY <2>1, TargetFacts, HashTypes
    <2>3. walk[n] \in ForwardChain(reg, h)
      BY <2>1, <2>2 DEF ForwardChain
    <2> QED BY <2>1, <2>2, <2>3, AheadIsChain DEF Offerable
  <1>3. ASSUME NEW o \in all PROVE \E n \in offered : o = walk[n]
    <2>1. o \in Targets(Get(reg, h)) /\ Get(reg, o).published
      BY DEF Offerable
    <2>2. o \in ForwardChain(reg, h)
      BY <2>1, TargetFacts
    <2>3. PICK n \in 1..Len(reg) : o = walk[n]
      BY <2>2 DEF ForwardChain
    <2> QED BY <2>1, <2>3
  <1>4. CASE offered = {}
    BY <1>1, <1>3, <1>4
  <1>5. CASE offered # {}
    <2>1. \E n \in offered : \A m \in offered : m <= n
      <3>1. offered \subseteq 1..Len(reg)
        OBVIOUS
      <3> HIDE DEF offered
      <3> QED BY <1>0, <1>5, <3>1, Greatest
    <2>2. last \in offered /\ \A m \in offered : m <= last
      BY <2>1
    <2>3. ASSUME NEW o \in all \ {walk[last]} PROVE walk[last] \in Ahead(reg, o)
      <3>1. PICK m \in offered : o = walk[m]
        BY <1>3
      <3>2. m \in 0..Len(reg) /\ last \in 0..Len(reg) /\ m <= last /\ m # last
        BY <1>0, <2>2, <2>3, <3>1
      <3>3. m < last
        BY <1>0, <3>2
      <3>4. walk[last] # Missing
        BY <1>2, <2>2
      <3> HIDE DEF offered, last
      <3> QED BY <3>1, <3>2, <3>3, <3>4, FurtherIsAhead
    <2>4. walk[last] \in Targets(Get(reg, h))
      BY <2>2
    <2>5. walk[last] # Missing /\ walk[last] \in all
      BY <1>2, <2>2
    <2>6. FurthestTarget(reg, h) = walk[last]
      BY <1>1, <1>5
    <2> HIDE DEF last, all, walk
    <2> QED BY <2>3, <2>4, <2>5, <2>6 DEF all
  <1> QED BY <1>4, <1>5
-----------------------------------------------------------------------------
(* Offers.  A handler keeps the registry it was given and the target it found  *)
(* there until it answers.                                                     *)

\* The requests whose handler goes by the target its registry gives.
Chosen ==
    {r \in Request :
        /\ registry[r] \in Seq(Entry) /\ Loads(registry[r])
        /\ query[r].dna \in Dna
        /\ target[r] = FurthestTarget(registry[r], query[r].dna)}

OfferInv ==
    /\ binding \in [Router -> Registries]
    /\ DOMAIN pc = Request /\ DOMAIN query = Request /\ DOMAIN registry = Request
    /\ DOMAIN target = Request /\ DOMAIN response = Request
    /\ \A r \in Request :
          /\ pc[r] \in {"lookup", "reading", "storing"} => r \in Chosen
          /\ response[r].code = "ok" =>
                pc[r] = "done" /\ r \in Chosen /\ response[r].target = target[r]

LEMMA InitOffer == Init => OfferInv
  <1> SUFFICES ASSUME Init PROVE OfferInv
    OBVIOUS
  <1>1. NoAnswer.code # "ok"
    BY DEF NoAnswer, Answer
  <1>2. /\ binding \in [Router -> Registries]
        /\ DOMAIN pc = Request /\ DOMAIN query = Request /\ DOMAIN registry = Request
        /\ DOMAIN target = Request /\ DOMAIN response = Request
    BY DEF Init
  <1>3. \A r \in Request : response[r] = NoAnswer /\ pc[r] = "idle"
    BY DEF Init
  <1> QED BY <1>1, <1>2, <1>3 DEF OfferInv

\* What a step of one handler has to keep; the others are not disturbed.
LEMMA OthersOffer ==
    ASSUME OfferInv, NEW r \in Request,
           binding' \in [Router -> Registries],
           DOMAIN pc' = Request, DOMAIN query' = Request, DOMAIN registry' = Request,
           DOMAIN target' = Request, DOMAIN response' = Request,
           \A s \in Request \ {r} :
               /\ pc'[s] = pc[s] /\ query'[s] = query[s] /\ registry'[s] = registry[s]
               /\ target'[s] = target[s] /\ response'[s] = response[s],
           pc'[r] \in {"lookup", "reading", "storing"} => r \in Chosen',
           response'[r].code = "ok" =>
               pc'[r] = "done" /\ r \in Chosen' /\ response'[r].target = target'[r]
    PROVE  OfferInv'
  <1>1. \A s \in Request \ {r} : s \in Chosen => s \in Chosen'
    BY DEF Chosen
  <1> QED BY <1>1 DEF OfferInv

LEMMA CheckOffer ==
    ASSUME OfferInv, NEW r \in Request, Check(r)
    PROVE  OfferInv'
  <1>1. PICK u \in Router, q \in Queries[r] : Fetch(r, u, q)
    BY DEF Check
  <1>2. /\ pc[r] = "idle" /\ q \in Query
        /\ query' = [query EXCEPT ![r] = q]
        /\ binding' = binding
    BY <1>1, UpdateAssumption DEF Check, Fetch, world
  <1>3. response[r].code # "ok"
    BY <1>2 DEF OfferInv
  <1>4. binding' \in [Router -> Registries] /\ DOMAIN query' = Request /\ query'[r] = q
        /\ \A s \in Request \ {r} : query'[s] = query[s]
    BY <1>2 DEF OfferInv
  <1>5. CASE ~Valid(binding[u])
    <2>1. Refuse(r, "internal") /\ UNCHANGED <<registry, target>>
      BY <1>1, <1>5 DEF Fetch
    <2>2. Answer("internal", Missing, Missing, Missing).code # "ok"
      BY DEF Answer
    <2>3. /\ DOMAIN pc' = Request /\ DOMAIN response' = Request
          /\ pc'[r] = "done" /\ response'[r].code # "ok"
          /\ \A s \in Request \ {r} : pc'[s] = pc[s] /\ response'[s] = response[s]
      BY <2>1, <2>2 DEF Refuse, OfferInv
    <2> QED BY <1>4, <2>1, <2>3, OthersOffer DEF OfferInv
  <1>6. CASE Valid(binding[u])
    <2> DEFINE reg == binding[u]
    <2>1. Choose(r, reg, q)
      BY <1>1, <1>6 DEF Fetch
    <2>2. reg \in Seq(Entry) /\ Loads(reg)
      BY <1>6, UpdateAssumption DEF Valid, OfferInv
    <2>3. /\ registry' = [registry EXCEPT ![r] = reg]
          /\ target' = [target EXCEPT ![r] = FurthestTarget(reg, q.dna)]
      BY <2>1 DEF Choose
    <2> HIDE DEF reg
    <2>4. /\ DOMAIN registry' = Request /\ DOMAIN target' = Request
          /\ registry'[r] = reg /\ target'[r] = FurthestTarget(reg, q.dna)
          /\ \A s \in Request \ {r} : registry'[s] = registry[s] /\ target'[s] = target[s]
      BY <2>3 DEF OfferInv
    <2>5. q.dna # Missing => r \in Chosen'
      <3>1. q.dna \in Dna \cup {Missing}
        BY <1>2 DEF Query
      <3> QED BY <1>4, <2>2, <2>4, <3>1 DEF Chosen
    <2>6. CASE q.dna = Missing /\ Refuse(r, "unknown_current_dna")
      <3>1. Answer("unknown_current_dna", Missing, Missing, Missing).code # "ok"
        BY DEF Answer
      <3>2. /\ DOMAIN pc' = Request /\ DOMAIN response' = Request
            /\ pc'[r] = "done" /\ response'[r].code # "ok"
            /\ \A s \in Request \ {r} : pc'[s] = pc[s] /\ response'[s] = response[s]
        BY <2>6, <3>1 DEF Refuse, OfferInv
      <3> QED BY <1>4, <2>4, <3>2, OthersOffer
    <2>7. CASE q.dna # Missing /\ Respond(r, reg, target'[r], Missing, {})
      <3>1. /\ DOMAIN pc' = Request /\ DOMAIN response' = Request
            /\ pc'[r] = "done" /\ response'[r].target = target'[r]
            /\ \A s \in Request \ {r} : pc'[s] = pc[s] /\ response'[s] = response[s]
        BY <2>7 DEF Respond, Answer, OfferInv
      <3> QED BY <1>4, <2>4, <2>5, <2>7, <3>1, OthersOffer
    <2>8. CASE q.dna # Missing /\ pc' = [pc EXCEPT ![r] = "lookup"] /\ response' = response
      <3>1. DOMAIN pc' = Request /\ \A s \in Request \ {r} : pc'[s] = pc[s]
        BY <2>8 DEF OfferInv
      <3>2. DOMAIN response' = Request /\ response'[r].code # "ok"
            /\ \A s \in Request \ {r} : response'[s] = response[s]
        BY <1>3, <2>8 DEF OfferInv
      <3> QED BY <1>4, <2>4, <2>5, <2>8, <3>1, <3>2, OthersOffer
    <2> QED BY <2>1, <2>6, <2>7, <2>8 DEF Choose
  <1> QED BY <1>5, <1>6

LEMMA HandleOffer ==
    ASSUME OfferInv, NEW r \in Request, Handle(r)
    PROVE  OfferInv'
  <1>1. CASE Hit(r) \/ Store(r)
    <2>1. PICK builds \in {cache[CacheKey(at[r])], read[r]} :
              Respond(r, registry[r], target[r], query[r].lineage, builds)
      BY <1>1 DEF Hit, Store
    <2>2. /\ pc[r] \in {"lookup", "storing"}
          /\ UNCHANGED <<binding, query, registry, target>>
      BY <1>1 DEF Hit, Store, world, asked
    <2>3. r \in Chosen /\ r \in Chosen'
      BY <2>2 DEF OfferInv, Chosen
    <2>4. /\ DOMAIN pc' = Request /\ DOMAIN response' = Request
          /\ pc'[r] = "done" /\ response'[r].target = target[r]
          /\ \A s \in Request \ {r} : pc'[s] = pc[s] /\ response'[s] = response[s]
      BY <2>1 DEF Respond, Answer, OfferInv
    <2> QED BY <2>2, <2>3, <2>4, OthersOffer DEF OfferInv
  <1>2. CASE Miss(r) \/ ReadPage(r) \/ ReadFails(r)
    <2>1. /\ UNCHANGED <<binding, query, registry, target, response>>
          /\ pc[r] \in {"lookup", "reading"}
          /\ pc' = pc \/ \E p \in {"reading", "storing"} : pc' = [pc EXCEPT ![r] = p]
      BY <1>2 DEF Miss, ReadPage, ReadFails, world, asked
    <2>2. DOMAIN pc' = Request /\ \A s \in Request \ {r} : pc'[s] = pc[s]
      BY <2>1 DEF OfferInv
    <2>3. r \in Chosen' /\ response'[r].code # "ok"
      BY <2>1 DEF OfferInv, Chosen
    <2> QED BY <2>1, <2>2, <2>3, OthersOffer DEF OfferInv
  <1> QED BY <1>1, <1>2 DEF Handle

LEMMA NextOffer == OfferInv /\ [Next]_vars => OfferInv'
  <1> SUFFICES ASSUME OfferInv, [Next]_vars PROVE OfferInv'
    OBVIOUS
  <1>1. ASSUME NEW r \in Request, Check(r) \/ Handle(r) PROVE OfferInv'
    BY <1>1, CheckOffer, HandleOffer
  <1>2. ASSUME NEW u \in Router, Deploy(u) PROVE OfferInv'
    <2>1. UNCHANGED <<pc, query, registry, target, response>>
          /\ \E text \in Busy : binding' = [binding EXCEPT ![u] = text]
      BY <1>2 DEF Deploy, asked
    <2>2. binding' \in [Router -> Registries]
      BY <2>1, UpdateAssumption DEF OfferInv
    <2> QED BY <2>1, <2>2 DEF OfferInv, Chosen
  <1>3. CASE (\E u \in Router : Expire(u) \/ Publish(u)) \/ Idle \/ UNCHANGED vars
    <2>1. UNCHANGED <<binding, pc, query, registry, target, response>>
      BY <1>3 DEF Expire, Publish, Idle, vars, world, asked
    <2> QED BY <2>1 DEF OfferInv, Chosen
  <1> QED BY <1>1, <1>2, <1>3 DEF Next

\* For every registry that loads, of any length, whatever becomes of the scan and
\* whatever is deployed meanwhile, an answer offers the published target that every
\* other one is passed on the way to, and one whenever there is one.
THEOREM FurthestTheorem == Spec => []OfferIsFurthest
  <1>1. ASSUME OfferInv PROVE OfferIsFurthest
    <2> SUFFICES ASSUME NEW r \in Request, response[r].code = "ok"
                 PROVE  LET t == response[r].target
                            all == Offerable(registry[r], query[r].dna)
                        IN  \/ t = Missing /\ all = {}
                            \/ t \in all /\ \A o \in all \ {t} : t \in Ahead(registry[r], o)
      BY DEF OfferIsFurthest
    <2>1. r \in Chosen /\ response[r].target = target[r]
      BY <1>1 DEF OfferInv
    <2> QED BY <2>1, FurthestFacts DEF Chosen
  <1> QED BY <1>1, InitOffer, NextOffer, PTL DEF Spec

\* For every registry that loads, a target an answer offers, and every source that is
\* listed for a target, is one that daemons can be asked for a quorum of.
THEOREM ServedTheorem == Spec => []OfferIsServed
  <1>1. ASSUME OfferInv PROVE OfferIsServed
    <2> SUFFICES ASSUME NEW r \in Request, response[r].code = "ok"
                 PROVE  /\ response[r].target # Missing =>
                              Servable(registry[r], query[r].dna, response[r].target)
                        /\ \A to \in Dna : \A from \in Options(registry[r], to) :
                              Servable(registry[r], from, to)
      BY DEF OfferIsServed
    <2>1. r \in Chosen /\ response[r].target = target[r]
      BY <1>1 DEF OfferInv
    <2> DEFINE reg == registry[r]
    <2>2. response[r].target # Missing => Servable(reg, query[r].dna, response[r].target)
      BY <2>1, FurthestFacts, TargetIsServable DEF Chosen
    <2>3. ASSUME NEW to \in Dna, NEW from \in Options(reg, to)
          PROVE  Servable(reg, from, to)
      <3>1. from \in Hashes(reg) /\ to \in Targets(Get(reg, from))
        BY DEF Options, SourcesReaching
      <3> QED BY <2>1, <3>1, HashTypes, TargetIsServable DEF Chosen
    <2> QED BY <2>2, <2>3
  <1> QED BY <1>1, InitOffer, NextOffer, PTL DEF Spec

\* A registry that loads gives MigrateRouter constants that meet its RegistryAssumption:
\* what POST /v1/migrate is proved to do over any such constants, it does over every
\* registry the router was deployed with.
THEOREM LoadedRegistryTheorem ==
    ASSUME NEW reg \in Seq(Entry), Loads(reg)
    PROVE  LET Registered == Hashes(reg)
               Rank == [h \in Registered |-> CHOOSE i \in DOMAIN reg : reg[i].hash = h]
               UpgradesFrom == [h \in Registered |-> Get(reg, h).from]
               UpgradeTargets == [h \in Registered |-> Targets(Get(reg, h))]
               Notaries == [h \in Registered |-> Range(Get(reg, h).notaries)]
               Threshold == [h \in Registered |-> IF Get(reg, h).threshold = Missing THEN 0
                                                  ELSE Get(reg, h).threshold]
           IN  /\ Missing \notin Dna
               /\ Registered \subseteq Dna
               /\ Rank \in [Registered -> Nat]
               /\ UpgradesFrom \in [Registered -> Registered \cup {Missing}]
               /\ UpgradeTargets \in [Registered -> SUBSET Registered]
               /\ DOMAIN Notaries = Registered
               /\ \A s \in Registered : IsFiniteSet(Notaries[s])
               /\ Threshold \in [Registered -> Nat]
               /\ \A s \in Registered : UpgradeTargets[s] # {} =>
                     Threshold[s] \in 1..Cardinality(Notaries[s])
  <1> DEFINE Registered == Hashes(reg)
             Threshold(h) == IF Get(reg, h).threshold = Missing THEN 0
                             ELSE Get(reg, h).threshold
             rank(h) == CHOOSE i \in DOMAIN reg : reg[i].hash = h
  <1>1. Missing \notin Dna /\ Registered \subseteq Dna
    BY MissingAssumption, HashTypes
  <1>2. \A h \in Registered : Get(reg, h) \in Entries(reg) /\ Get(reg, h) \in Entry
    BY OneEntry, EntryTypes
  <1>3. \A h \in Registered : rank(h) \in Nat
    <2>1. \A h \in Registered : \E i \in DOMAIN reg : reg[i].hash = h
      BY DEF Hashes, Entries, Range
    <2>2. DOMAIN reg \subseteq Nat
      OBVIOUS
    <2> QED BY <2>1, <2>2
  <1>4. \A h \in Registered : Get(reg, h).from \in Registered \cup {Missing}
    BY <1>2, EntryTypes DEF Loads, FromResolves
  <1>5. \A h \in Registered : Targets(Get(reg, h)) \subseteq Registered
    BY <1>1, TargetFacts
  <1>6. \A h \in Registered : IsFiniteSet(Range(Get(reg, h).notaries))
    <2> SUFFICES ASSUME NEW h \in Registered PROVE IsFiniteSet(Range(Get(reg, h).notaries))
      OBVIOUS
    <2> DEFINE s == Get(reg, h).notaries
    <2>1. s \in Seq(Notary)
      BY <1>2, EntryTypes
    <2>2. DOMAIN s = 1..Len(s) /\ Len(s) \in Nat
      BY <2>1
    <2>3. s \in Surjection(1..Len(s), Range(s))
      <3>1. s \in [1..Len(s) -> Range(s)] /\ \A t \in Range(s) : \E i \in 1..Len(s) : s[i] = t
        BY <2>1, <2>2 DEF Range
      <3> HIDE DEF s
      <3> QED BY <3>1, Zenon DEF Surjection
    <2>4. IsFiniteSet(1..Len(s))
      BY <2>2, FS_Interval
    <2> HIDE DEF s
    <2> QED BY <2>3, <2>4, FS_Surjection DEF s
  <1>7. \A h \in Registered : Threshold(h) \in Nat
    BY <1>2, EntryTypes
  <1>8. ASSUME NEW h \in Registered, Targets(Get(reg, h)) # {}
        PROVE  Threshold(h) \in 1..Cardinality(Range(Get(reg, h).notaries))
    <2>1. Get(reg, h).targets # Missing
      BY <1>8 DEF Targets
    <2>2. Get(reg, h).threshold \in 1..Cardinality(Range(Get(reg, h).notaries))
      BY <1>2, <2>1, ThresholdFacts
    <2>3. Get(reg, h).threshold # Missing
      BY <1>2, <1>8, <2>1 DEF Loads, ThresholdFits
    <2> QED BY <2>2, <2>3
  <1> QED BY <1>1, <1>3, <1>4, <1>5, <1>6, <1>7, <1>8, Zenon
-----------------------------------------------------------------------------
(* How far a check is.  Its handler goes on through at most MaxPages pages, and   *)
(* once it looks up builds there is no way to an error.                           *)

\* The places of a handler in their order.
Rank(r) == CASE pc[r] = "idle" -> 0
             [] pc[r] = "lookup" -> 1
             [] pc[r] = "reading" -> 1 + page[r]
             [] pc[r] = "storing" -> MaxPages + 2
             [] OTHER -> MaxPages + 3

\* The page read is one of the first MaxPages, and an answer is given at the end.
HandlerInv ==
    /\ DOMAIN response = Request
    /\ \A r \in Request : /\ page[r] \in 1..MaxPages
                          /\ pc[r] # "done" => response[r].code = "none"

\* The handlers that move go on, and the others stay where they are.
HandlersAdvance ==
    \A r \in Request :
        /\ Rank(r)' >= Rank(r)
        /\ <<pc[r], page[r], read[r]>>' # <<pc[r], page[r], read[r]>> => Rank(r)' > Rank(r)

\* A check that looks up builds, or was answered after it did.
OnItsWay(r) == IF pc[r] = "done" THEN response[r].code = "ok"
               ELSE pc[r] # "idle" /\ response[r].code = "none"

\* What the steps of a handler do to its place.
LEMMA HandlerMoves ==
    ASSUME ScanInv, HandlerInv, NEW r \in Request, Check(r) \/ Handle(r)
    PROVE  /\ HandlerInv'
           /\ Rank(r)' > Rank(r)
           /\ OnItsWay(r) => OnItsWay(r)'
           /\ \A s \in Request \ {r} : /\ pc'[s] = pc[s] /\ page'[s] = page[s]
                                       /\ read'[s] = read[s] /\ response'[s] = response[s]
  <1>0. /\ MaxPages \in Nat \ {0} /\ page[r] \in 1..MaxPages
        /\ DOMAIN response = Request /\ DOMAIN pc = Request
        /\ DOMAIN page = Request /\ DOMAIN read = Request
        /\ pc[r] # "done" => response[r].code = "none"
    BY UpdateAssumption DEF HandlerInv, ScanInv, ScanTypes
  <1> DEFINE Others == /\ DOMAIN response' = Request
                       /\ \A s \in Request \ {r} :
                             /\ pc'[s] = pc[s] /\ page'[s] = page[s]
                             /\ read'[s] = read[s] /\ response'[s] = response[s]
  <1>1. CASE Check(r)
    <2>1. PICK u \in Router, q \in Queries[r] : Fetch(r, u, q)
      BY <1>1 DEF Check
    <2>2. pc[r] = "idle" /\ UNCHANGED <<page, read>>
      BY <1>1, <2>1 DEF Check, Fetch
    <2>3. \/ pc' = [pc EXCEPT ![r] = "lookup"] /\ response' = response
          \/ \E a : pc' = [pc EXCEPT ![r] = "done"] /\ response' = [response EXCEPT ![r] = a]
      BY <2>1 DEF Fetch, Choose, Refuse, Respond
    <2>4. /\ (pc'[r] = "lookup" /\ response'[r] = response[r]) \/ pc'[r] = "done"
          /\ Others
      BY <1>0, <2>2, <2>3
    <2>5. Rank(r)' > Rank(r)
      BY <1>0, <2>2, <2>4 DEF Rank
    <2>6. HandlerInv'
      BY <1>0, <2>2, <2>4 DEF HandlerInv
    <2> QED BY <2>2, <2>4, <2>5, <2>6 DEF OnItsWay
  <1>2. CASE Hit(r) \/ Store(r)
    <2>1. \E builds : Respond(r, registry[r], target[r], query[r].lineage, builds)
      BY <1>2 DEF Hit, Store
    <2>2. /\ pc[r] \in {"lookup", "storing"}
          /\ page' = page \/ page' = [page EXCEPT ![r] = 1]
          /\ read' = read \/ read' = [read EXCEPT ![r] = {}]
      BY <1>2 DEF Hit, Store
    <2>3. /\ pc'[r] = "done" /\ response'[r].code = "ok" /\ page'[r] \in {1, page[r]}
          /\ Others
      BY <1>0, <2>1, <2>2 DEF Respond, Answer
    <2>4. Rank(r)' > Rank(r)
      BY <1>0, <2>2, <2>3 DEF Rank
    <2>5. HandlerInv'
      BY <1>0, <2>3 DEF HandlerInv
    <2> QED BY <2>3, <2>4, <2>5 DEF OnItsWay
  <1>3. CASE Miss(r) \/ ReadFails(r)
    <2>1. /\ \/ pc[r] = "lookup" /\ pc' = [pc EXCEPT ![r] = "reading"]
             \/ pc[r] = "reading" /\ pc' = [pc EXCEPT ![r] = "storing"]
          /\ UNCHANGED <<page, read, response>>
      BY <1>3 DEF Miss, ReadFails
    <2>2. Others
      BY <1>0, <2>1
    <2>3. Rank(r)' > Rank(r)
      BY <1>0, <2>1 DEF Rank
    <2>4. HandlerInv'
      BY <1>0, <2>1, <2>2 DEF HandlerInv
    <2> QED BY <1>0, <2>1, <2>2, <2>3, <2>4 DEF OnItsWay
  <1>4. CASE ReadPage(r)
    <2>1. /\ pc[r] = "reading" /\ response' = response
          /\ read' = [read EXCEPT ![r] = @ \cup Public(Slice(at[r], page[r]))]
          /\ \/ pc' = [pc EXCEPT ![r] = "storing"] /\ page' = page
             \/ page[r] # MaxPages /\ page' = [page EXCEPT ![r] = @ + 1] /\ pc' = pc
      BY <1>4 DEF ReadPage
    <2>2. Others
      BY <1>0, <2>1
    <2>3. Rank(r)' > Rank(r)
      BY <1>0, <2>1 DEF Rank
    <2>4. HandlerInv'
      BY <1>0, <2>1, <2>2 DEF HandlerInv
    <2> QED BY <1>0, <2>1, <2>2, <2>3, <2>4 DEF OnItsWay
  <1> QED BY <1>1, <1>2, <1>3, <1>4 DEF Handle

\* The steps of releases, deployments and the cache leave the handlers alone.
LEMMA HandlerSteps ==
    ASSUME [Next]_vars
    PROVE  \/ \E r \in Request : Check(r) \/ Handle(r)
           \/ UNCHANGED <<pc, page, read, response>>
  BY DEF Next, Expire, Publish, Deploy, Idle, vars

LEMMA HandlerInvariance == Spec => [](ScanInv /\ HandlerInv)
  <1>1. Init => HandlerInv
    BY UpdateAssumption DEF Init, HandlerInv, NoAnswer, Answer
  <1>2. ScanInv /\ HandlerInv /\ [Next]_vars => HandlerInv'
    <2> SUFFICES ASSUME ScanInv, HandlerInv, [Next]_vars PROVE HandlerInv'
      OBVIOUS
    <2>1. CASE UNCHANGED <<pc, page, read, response>>
      BY <2>1 DEF HandlerInv
    <2> QED BY <2>1, HandlerSteps, HandlerMoves
  <1> QED BY <1>1, <1>2, InitInv, NextInv, PTL DEF Spec

\* A handler never goes back: after at most MaxPages reads and three more steps it has
\* answered, however many releases are published and whatever the cache does.
THEOREM AdvanceTheorem == Spec => [][HandlersAdvance]_vars
  <1>1. ScanInv /\ HandlerInv /\ [Next]_vars => [HandlersAdvance]_vars
    <2> SUFFICES ASSUME ScanInv, HandlerInv, [Next]_vars PROVE HandlersAdvance
      OBVIOUS
    <2>1. \A s \in Request : Rank(s) \in Nat
      BY UpdateAssumption DEF Rank, HandlerInv
    <2>2. CASE UNCHANGED <<pc, page, read, response>>
      <3>1. \A s \in Request : Rank(s)' = Rank(s)
        BY <2>2 DEF Rank
      <3> QED BY <2>1, <2>2, <3>1 DEF HandlersAdvance
    <2>3. ASSUME NEW r \in Request, Check(r) \/ Handle(r) PROVE HandlersAdvance
      <3>1. /\ HandlerInv' /\ Rank(r)' > Rank(r)
            /\ \A s \in Request \ {r} : /\ pc'[s] = pc[s] /\ page'[s] = page[s]
                                        /\ read'[s] = read[s]
        BY <2>3, HandlerMoves
      <3>2. \A s \in Request \ {r} : Rank(s)' = Rank(s)
        BY <3>1 DEF Rank
      <3>3. Rank(r)' \in Nat
        <4>1. page'[r] \in 1..MaxPages
          BY <3>1 DEF HandlerInv
        <4> QED BY <4>1, UpdateAssumption DEF Rank
      <3>4. Rank(r)' >= Rank(r)
        BY <2>1, <3>1, <3>3
      <3> QED BY <2>1, <3>1, <3>2, <3>4 DEF HandlersAdvance
    <2> QED BY <2>2, <2>3, HandlerSteps
  <1> QED BY <1>1, HandlerInvariance, PTL DEF Spec

\* An update check that needs builds gets no answer but a good one, though every read
\* and the cache can fail; with ChecksAreAnswered's fairness it gets that one.
THEOREM NoErrorTheorem ==
    Spec => \A r \in Request :
                [](pc[r] = "lookup" => [](response[r].code \in {"none", "ok"}))
  <1> SUFFICES ASSUME NEW r \in Request
               PROVE  Spec => [](pc[r] = "lookup"
                                    => [](response[r].code \in {"none", "ok"}))
    OBVIOUS
  <1>1. HandlerInv /\ pc[r] = "lookup" => OnItsWay(r)
    BY DEF HandlerInv, OnItsWay
  <1>2. ScanInv /\ HandlerInv /\ OnItsWay(r) /\ [Next]_vars => OnItsWay(r)'
    <2> SUFFICES ASSUME ScanInv, HandlerInv, OnItsWay(r), [Next]_vars PROVE OnItsWay(r)'
      OBVIOUS
    <2>1. CASE UNCHANGED <<pc, page, read, response>>
      BY <2>1 DEF OnItsWay
    <2>2. ASSUME NEW s \in Request, Check(s) \/ Handle(s) PROVE OnItsWay(r)'
      <3>1. s = r => OnItsWay(r)'
        BY <2>2, HandlerMoves
      <3>2. s # r => pc'[r] = pc[r] /\ response'[r] = response[r]
        BY <2>2, HandlerMoves
      <3> QED BY <3>1, <3>2 DEF OnItsWay
    <2> QED BY <2>1, <2>2, HandlerSteps
  <1>3. OnItsWay(r) => response[r].code \in {"none", "ok"}
    BY DEF OnItsWay
  <1> QED BY <1>1, <1>2, <1>3, HandlerInvariance, PTL DEF Spec
=============================================================================
