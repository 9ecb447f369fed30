SPECIFICATION Spec
CONSTANTS
    foo = foo
    bar = bar
    r1 = r1
    r2 = r2
    Branches = {foo, bar}
    Calls = {r1, r2}
    PrimaryPortMin = 50000
    PrimaryPortMax = 50002
    StandbyPortStride = 1000
    MaxStandbys = 1
    NoPort = NoPort
    NoBranch = NoBranch
    Settings <- SerialOrOverlap
    MaxInits = 4
INVARIANT TypeOK
INVARIANT ServersReachable
INVARIANT PortsNotTaken
INVARIANT DirRegistered
INVARIANT TaskTruth
