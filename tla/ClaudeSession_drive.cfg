SPECIFICATION Spec
CONSTANTS
    c1 = c1
    Calls = {c1}
    Settings <- SessionSettings
    Attempts = 2
    MaxUrls = 2
    NoView = NoView
INVARIANT TypeOK
INVARIANT RecordedFresh
PROPERTY NoBlindApproval
PROPERTY KeysLand
PROPERTY CallEnds
CHECK_DEADLOCK FALSE
