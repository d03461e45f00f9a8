SPECIFICATION FairSpec
CONSTANTS
    Time <- MCTime
    NoStamp = NoStamp
    Absent = Absent
    Empty = Empty
    Corrupt = Corrupt
    Landings = {"target"}
    Ledgers = {TRUE}
    Calms = {TRUE}
    HardFaults = {}
    Budget = 2
    DiskFails = FALSE
    EnableFails = FALSE
    MaxFaults = 3
    MaxDamages = 0
PROPERTY VerifiedIsFinished
