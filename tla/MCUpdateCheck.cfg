SPECIFICATION FairSpec
CONSTANTS
    v1 = v1
    v2 = v2
    v3 = v3
    n1 = n1
    n2 = n2
    l1 = l1
    l2 = l2
    test = test
    main = main
    a = a
    b = b
    Missing = Missing
    Dna = {v1, v2, v3}
    Notary = {n1, n2}
    Lineage = {l1, l2}
    Request = {a, b}
    Router = {test, main}
    Registries <- MCRegistries
    Busy <- MCBusy
    Queries <- MCQueries
    FirstListing <- MCFirstListing
    PerPage = 2
    MaxPages = 2
    MaxReleases = 3
INVARIANTS
    OfferIsFurthest
    OfferIsServed
    BuildsAreOwn
    ScanMissesNothing
PROPERTIES
    ChecksAreAnswered
