SPECIFICATION Spec
CONSTANTS
    foo = foo
    bar = bar
    cloud = cloud
    master = master
    r1 = r1
    r2 = r2
    Projects = {foo, bar}
    Others = {cloud}
    Master = master
    Cloud = cloud
    Calls = {r1, r2}
    Settings <- All
    NoBranch = NoBranch
    Detached = Detached
SYMMETRY Symmetry
INVARIANT TypeOK
INVARIANT WorkKept
INVARIANT StartsWhole
PROPERTY CheckedOutStands
CHECK_DEADLOCK FALSE
