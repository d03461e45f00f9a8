SPECIFICATION FairSpec
CONSTANTS
    Terms <- MCTerms
    Session = {s1, s2, s3}
    NoSession = NoSession
    Drops = {"tunnel", "lair"}
    MaxFaults = 2
PROPERTY PromiseKept
