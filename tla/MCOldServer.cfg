SPECIFICATION MCSpec
CONSTANTS
    Listed <- MCListed
    M = 2
    Faulty = {"n1"}
    Verdicts = {"unable_to_verify"}
    Retries = 1
    HardFaults = {}
    Torn = FALSE
    DiskFaults = FALSE
    MaxTop = 0
    MaxFaults = 2
    Deployments <- MCDeployments
    Arrived = TRUE
    MaxGrants = 1
    MaxStatuses = 1
INVARIANTS
    ServerTypeOK
    GrantsAreOptedInto
    ReportsAreTrue
    ClosedIsTrue
    CommittedWasApproved
    SlotsCanReachM
PROPERTIES
    EndsAttestable
    GivesUpOnlyWhenShort
