SPECIFICATION WatchdogSpec
CONSTANTS
    Instances = {i1, i2, i3}
    NoInstance = NoInstance
    PullKey = bond0
    PulldKey = bond0
    FastStart = FALSE
    WdBudget <- MCWdBudget
    Crashes = 2
    Terms = 2
    Hangs = 1
    Binds = 1
    Manuals = 2
    Stops = 2
    IoFaults = 1
    DbFaults = 1
SYMMETRY MCInstanceSymmetry
INVARIANT WatchdogTypeOK
INVARIANT OneServer
INVARIANT HostOnce
CHECK_DEADLOCK FALSE
