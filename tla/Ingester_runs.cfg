SPECIFICATION FairArchiveSpec
CONSTANTS
    a = a
    b = b
    c = c
    e = e
    Msgs = {a, b, c, e}
    NoMsg = NoMsg
    Settings <- Archives
    Carries <- Carried
    DownloadGap = 2
    Matches = {a, b, c, e}
    Rank <- Ranks
    Length <- Lengths
    MaxPage = 2
    Limits = {0, 1, 3}
    BodyMax = 12000
    BodyRecent = 2000
    BodyMin = 200
    BodyShort = 100
    Budget = 6000
INVARIANT ArchiveTypeOK
INVARIANT GoodFilesStored
INVARIANT RowsConsistent
INVARIANT StatusCurrent
INVARIANT ConclusionsShow
INVARIANT ThreadIsOldestAncestor
INVARIANT WalkSkipsNothing
INVARIANT AnswersAreTrue
PROPERTY EventuallyStored
