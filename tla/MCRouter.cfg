SPECIFICATION FairSpec
CONSTANTS
    v0 = v0
    v1 = v1
    v2 = v2
    v3 = v3
    v4 = v4
    unlisted = unlisted
    me = me
    k1 = k1
    k2 = k2
    k3 = k3
    k4 = k4
    z1 = z1
    z2 = z2
    z3 = z3
    a1 = a1
    a2 = a2
    b1 = b1
    b2 = b2
    b3 = b3
    b4 = b4
    c1 = c1
    c2 = c2
    c3 = c3
    c4 = c4
    c5 = c5
    made = made
    forged = forged
    NoDna = NoDna
    NoPackage = NoPackage
    Dna = {v0, v1, v2, v3, v4, unlisted}
    Key = {me, k1, k2, k3, k4}
    Agent = me
    Action = {made, forged}
    Faulty = {z1, b1, b2, c1}
    Registered <- MCRegistered
    Rank <- MCRank
    UpgradesFrom <- MCUpgradesFrom
    UpgradeTargets <- MCUpgradeTargets
    Notaries <- MCNotaries
    Threshold <- MCThreshold
    TrueClose <- MCTrueClose
    KeyOf <- MCKeyOf
    FaultyAnswers <- MCFaultyAnswers
    HonestReplies <- MCHonestReplies
    Requests <- MCRequests
INVARIANTS
    TypeOK
    PackageIsAQuorum
    PackageIsTheAgentsClose
    WindowIsKept
    NotFoundMeansUnattested
    OutagesAreNotFaults
    LagIsWaitedOut
    ServableIsServed
PROPERTIES
    EventuallyAnswered
