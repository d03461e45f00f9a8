--------------------------- MODULE MCUpdateCheck ---------------------------
(***************************************************************************)
(* Every way to link three DNAs and to list targets among them, valid or    *)
(* not, for requests without builds; two requests with builds of two        *)
(* routers, over pages of two releases, under three registries.             *)
(***************************************************************************)
EXTENDS UpdateCheck, TLC

CONSTANTS v1, v2, v3, n1, n2, l1, l2, test, main, a, b

Root == Missing

E(h, from, targets, threshold, published) ==
    [hash |-> h, from |-> from, targets |-> targets, threshold |-> threshold,
     notaries |-> <<n1, n2>>, release |-> IF h = v3 THEN l2 ELSE l1,
     published |-> published]

Threshold(targets) == IF targets = Missing THEN Missing ELSE 2

\* Every chain, tree and cycle of three, with targets ahead, behind and repeated.
Chains ==
    {<<E(v1, f1, t1, Threshold(t1), TRUE), E(v2, f2, t2, Threshold(t2), p2),
       E(v3, f3, t3, Threshold(t3), p3)>> :
        f1, f2, f3 \in {Root, v1, v2, v3},
        t1 \in {Missing, <<v2>>, <<v3>>, <<v2, v3>>, <<v3, v2>>, <<v2, v2>>, <<v1, v3>>},
        t2 \in {Missing, <<v3>>, <<v1>>}, t3 \in {Missing, <<>>, <<v1>>},
        p2, p3 \in BOOLEAN}

Of(t1, p2, p3) == <<E(v1, Root, t1, 2, TRUE), E(v2, v1, <<v3>>, 1, p2),
                    E(v3, v2, Missing, Missing, p3)>>
Sound == Of(<<v2, v3>>, TRUE, FALSE)
Released == Of(<<v2, v3>>, TRUE, TRUE)

\* One defect each.
Defects ==
    {[Sound EXCEPT ![1].threshold = m] : m \in {Missing, 0, 3}} \cup
    {[Sound EXCEPT ![3].threshold = m] : m \in {0, 2, 3}} \cup
    {[Sound EXCEPT ![3].hash = v2], <<Sound[2], Sound[3]>>, <<Sound[1], Sound[2]>>,
     [Sound EXCEPT ![2].notaries = <<n1, n1>>],
     [Sound EXCEPT ![1].notaries = <<n1>>], [Sound EXCEPT ![2].release = Missing],
     <<>>, <<Sound[3], Sound[2], Sound[1]>>}

MCBusy == {Sound, Released}
MCRegistries == Chains \cup Defects \cup MCBusy \cup {Missing}

Rel(u, l, n, public) ==
    [build |-> [router |-> u, lineage |-> l, patch |-> n], public |-> public]

\* b overlaps a's request with one of its own.
MCQueries ==
    a :> [dna : {v1, v2, v3, Missing}, lineage : {l1, Missing}] @@
    b :> {[dna |-> v1, lineage |-> l2]}

\* A draft on the first page, which a release pushes another build from; a listing
\* of as many releases as are read.
MCFirstListing ==
    test :> <<Rel(test, l2, 1, FALSE), Rel(test, l1, 1, TRUE)>> @@
    main :> <<Rel(main, l2, 1, TRUE), Rel(main, l1, 3, TRUE), Rel(main, l1, 2, TRUE),
              Rel(main, l1, 1, TRUE)>>
=============================================================================
