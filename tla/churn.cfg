SPECIFICATION Spec
CONSTANTS
    Hosts = {h1}
    NumWorkers = 2
    Sids = {s1, s2}
    NoSid = NoSid
    Pids = {p1, p2, p3}
    NoPid = NoPid
    Foreign = Foreign
    PidReuse = FALSE
    Budget <- MCBudget
    Creates = 2
    Reloads = 1
    Removes = 2
    Terminates = 0
    Exits = 1
    Crashes = 1
    DbFaults = 1
    ForkFaults = 1
    Foreigners = 0
SYMMETRY MCSymmetry
INVARIANT TypeOK
INVARIANT RecordsNameOwnStream
INVARIANT StopKillsOwnStream
INVARIANT RespawnOnlyExited
INVARIANT NoLeakByRequests
