SPECIFICATION FairSpec
CONSTANTS
    r1 = r1
    probe = probe
    Nobody = Nobody
    Request = {r1, probe}
    Kind <- MCKind
    ZomeAnswers = {"attested"}
    Weathers = {TRUE, FALSE}
    Impatient = {r1}
    MaxDisruptions = 3
INVARIANTS
    TypeOK
    CallsRunOnce
PROPERTIES
    GoodConnectionsAreKept
    AttemptsLand
    EveryRequestIsAnswered
    RecoveredIsServed
