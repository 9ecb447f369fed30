SPECIFICATION FairSpec
CONSTANTS
    serving = serving
    parent = parent
    ss = ss
    sp = sp
    w1 = w1
    w2 = w2
    lf = lf
    Procs <- OneProcess
    Serving = serving
    Schedulers <- SchedulerOfOne
    Workers = {w1, w2}
    Settings <- ButtonOrBoth
    Lists = {"hackers", "bugs"}
    Months = {1, 2}
    Slots = {lf}
    Inodes = {1, 2, 3, 4}
    NoInode = NoInode
    Nobody = Nobody
INVARIANT TypeOK
INVARIANT TriggeredWhole
INVARIANT StatusTruth
PROPERTY BatchEnds
