SPECIFICATION Spec
CONSTANTS
    Hosts = {h1}
    NumWorkers = 1
    Sids = {s1, s2}
    NoSid = NoSid
    Pids = {p1, p2, p3}
    NoPid = NoPid
    Foreign = Foreign
    PidReuse = TRUE
    Budget <- MCBudget
    Creates = 2
    Reloads = 1
    Removes = 1
    Terminates = 1
    Exits = 1
    Crashes = 1
    DbFaults = 0
    ForkFaults = 1
    Foreigners = 1
SYMMETRY MCSymmetry
INVARIANT UniqueRecord
PROPERTY ImplementsService
