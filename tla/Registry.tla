------------------------------ MODULE Registry ------------------------------
(***************************************************************************)
(* The registry of the migration router (migration-router/src/registry.ts): *)
(* what `Registry.load` accepts, and what the handlers read from it.        *)
(*                                                                         *)
(* A registry is its `dnas`, in order.  An entry's shape (its version, the  *)
(* spelling and api of a notary's url, the schema version) is not modelled: *)
(* a text that fails on it is one that does not load.                       *)
(***************************************************************************)
EXTENDS Integers, Sequences, FiniteSets, Functions

CONSTANTS
    Dna,      \* the DNA hashes
    Notary,   \* the notaries' urls, normalised
    Lineage,  \* the major.minor a release url names
    Missing   \* an absent field, an absent entry

ASSUME MissingAssumption == Missing \notin Dna \cup Notary \cup Lineage \cup Nat

Entry == [hash : Dna,
          from : Dna \cup {Missing},
          targets : Seq(Dna) \cup {Missing},
          threshold : Nat \cup {Missing},
          notaries : Seq(Notary),
          release : Lineage \cup {Missing},
          published : BOOLEAN]

-----------------------------------------------------------------------------
(* Reading a registry. *)

Entries(reg) == Range(reg)
Hashes(reg) == {e.hash : e \in Entries(reg)}

Get(reg, h) == IF h \in Hashes(reg) THEN CHOOSE e \in Entries(reg) : e.hash = h
                                    ELSE Missing

Successor(reg, h) ==
    IF \E e \in Entries(reg) : e.from = h
    THEN (CHOOSE e \in Entries(reg) : e.from = h).hash
    ELSE Missing

Predecessor(reg, h) == IF h \in Hashes(reg) THEN Get(reg, h).from ELSE Missing

\* Walk(step, h, max)[n]: n steps from h.
Walk(step, h, max) ==
    LET at[n \in 0..max] ==
            IF n = 0 THEN h
            ELSE LET last == at[n - 1]
                 IN  IF last = Missing THEN Missing ELSE step[last]
    IN  at

\* Forward(reg, h)[n]: the n-th of the forward chain of h; Missing past its tip.
Forward(reg, h) == Walk([d \in Dna |-> Successor(reg, d)], h, Len(reg))

ForwardChain(reg, h) == {Forward(reg, h)[n] : n \in 1..Len(reg)} \ {Missing}

Targets(e) == IF e = Missing \/ e.targets = Missing THEN {}
              ELSE Range(e.targets)

\* Mutant: the last listed target, wherever it is in the chain.
FurthestTargetListed(reg, h) ==
    LET e == Get(reg, h)
        offered == SelectSeq(IF e = Missing \/ e.targets = Missing THEN <<>> ELSE e.targets,
                             LAMBDA t : Get(reg, t).published)
    IN  IF offered = <<>> THEN Missing ELSE offered[Len(offered)]

\* furthestTargetOf: the last of the forward chain that is a published target.
FurthestTarget(reg, h) ==
    LET chain == Forward(reg, h)
        offered == {n \in 1..Len(reg) : /\ chain[n] \in Targets(Get(reg, h))
                                        /\ Get(reg, chain[n]).published}
    IN  IF offered = {} THEN Missing
        ELSE chain[CHOOSE n \in offered : \A m \in offered : m <= n]

\* sourcesReaching
SourcesReaching(reg, to) == {h \in Hashes(reg) : to \in Targets(Get(reg, h))}

\* Whether /v1/migrate asks daemons for a close on `from` that binds `to`.
Serves(reg, from, to) ==
    /\ to \in Hashes(reg)
    /\ Get(reg, to).from # Missing
    /\ from \in SourcesReaching(reg, to)

-----------------------------------------------------------------------------
(* Registry.load. *)

NoRepeats(seq) == \A i, j \in DOMAIN seq : seq[i] = seq[j] => i = j

\* A threshold a source's notaries can meet; an entry with one needs no targets.
ThresholdFits(e) ==
    e.targets # Missing \/ e.threshold # Missing =>
        e.threshold # Missing /\ e.threshold \in 1..Len(e.notaries)

FromResolves(reg) ==
    \A e \in Entries(reg) : e.from # Missing => e.from \in Hashes(reg)

OneSuccessor(reg) ==
    \A d, e \in Entries(reg) : d.from # Missing /\ d.from = e.from => d = e

\* Following upgrades_from from anywhere ends.
Acyclic(reg) ==
    \A h \in Hashes(reg) :
        Walk([d \in Dna |-> Predecessor(reg, d)], h, Len(reg))[Len(reg)] = Missing

\* Mutant: a target has to be there, not to be ahead.
TargetsAheadListed(reg) ==
    \A e \in Entries(reg) :
        e.targets # Missing => NoRepeats(e.targets) /\ Targets(e) \subseteq Hashes(reg)

\* Every target is a forward descendant, and listed once.
TargetsAhead(reg) ==
    \A e \in Entries(reg) :
        e.targets # Missing =>
            /\ NoRepeats(e.targets)
            /\ Targets(e) \subseteq ForwardChain(reg, e.hash)

Loads(reg) ==
    /\ NoRepeats([i \in DOMAIN reg |-> reg[i].hash])
    /\ \A e \in Entries(reg) : NoRepeats(e.notaries) /\ ThresholdFits(e)
    /\ FromResolves(reg)
    /\ OneSuccessor(reg)
    /\ Acyclic(reg)
    /\ TargetsAhead(reg)
=============================================================================
