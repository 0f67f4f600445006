SPECIFICATION ServerSpec
CONSTANTS
    Hosts = {h1}
    NumWorkers = 1
    Sids = {s1}
    NoSid = NoSid
    Pids = {p1, p2}
    NoPid = NoPid
    Foreign = Foreign
    PidReuse = FALSE
    Budget <- MCBudget
    Creates = 1
    Reloads = 1
    Removes = 1
    Terminates = 1
    Exits = 1
    Crashes = 1
    DbFaults = 0
    ForkFaults = 0
    Foreigners = 1
SYMMETRY MCPidSymmetry
INVARIANT ServerTypeOK
PROPERTY ImplementsProcessCtl
PROPERTY OkIffQueued
