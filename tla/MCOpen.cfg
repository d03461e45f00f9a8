SPECIFICATION FairSpec
CONSTANTS
    Time <- MCTime
    NoStamp = NoStamp
    Absent = Absent
    Empty = Empty
    Corrupt = Corrupt
    Landings <- MCLandings
    Ledgers = {TRUE, FALSE}
    Calms = {TRUE, FALSE}
    HardFaults <- MCHardFaults
    Budget = 2
    DiskFails = TRUE
    EnableFails = TRUE
    MaxFaults = 2
    MaxDamages = 1
INVARIANTS TeardownIsSafe DoneIsVerified
PROPERTIES RecordSpec VerifiedRestartFinishes EventuallyOpened WaitsEnd
