SPECIFICATION Spec
CONSTANTS
    serving = serving
    parent = parent
    ss = ss
    sp = sp
    w1 = w1
    w2 = w2
    lf = lf
    Procs <- TwoProcesses
    Serving = serving
    Schedulers <- SchedulerOfTwo
    Workers = {}
    Settings <- BothSchedulers
    Lists = {"hackers"}
    Months = {1, 2}
    Slots = {lf}
    Inodes = {1, 2, 3, 4}
    NoInode = NoInode
    Nobody = Nobody
INVARIANT PublishedWhole

