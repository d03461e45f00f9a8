SPECIFICATION FairSpec
CONSTANTS
    Terms <- MCTerms
    Session = {s1, s2, s3}
    NoSession = NoSession
    Drops = {"lair"}
    MaxFaults = 2
INVARIANT TypeOK
PROPERTIES PromiseKept EventuallyProvided RefusalsEnd
