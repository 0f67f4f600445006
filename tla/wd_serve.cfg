SPECIFICATION FairWatchdogSpec
CONSTANTS
    Instances = {i1, i2, i3}
    NoInstance = NoInstance
    PullKey = bond0
    PulldKey = bond0
    FastStart = TRUE
    WdBudget <- MCWdBudget
    Crashes = 2
    Terms = 2
    Hangs = 0
    Binds = 1
    Manuals = 0
    Stops = 2
    IoFaults = 1
    DbFaults = 1
INVARIANT ServingIsRegistered
PROPERTY ServerComesBack
PROPERTY PulldStops
CHECK_DEADLOCK FALSE
