SPECIFICATION FairSpec
CONSTANTS
    Time <- MCTime
    NoStamp = NoStamp
    Absent = Absent
    Empty = Empty
    Corrupt = Corrupt
    OpenRun = OpenRun
    status = status
    verify = verify
    Commands <- MCCommands
    MaxDamages = 0
PROPERTY LatchNeverLowered
