SPECIFICATION Spec
CONSTANTS
    Time <- MCTime
    NoStamp = NoStamp
    Absent = Absent
    Empty = Empty
    Corrupt = Corrupt
    OpenRun = OpenRun
    status = status
    verify = verify
    Commands <- MCCommands
    MaxDamages = 1
PROPERTIES RecordKept LoneWritesMend
SYMMETRY MCSymmetry
