SPECIFICATION Spec
CONSTANTS
    Hosts = {h1}
    NumWorkers = 1
    Sids = {s1}
    NoSid = NoSid
    Pids = {p1, p2}
    NoPid = NoPid
    Foreign = Foreign
    PidReuse = FALSE
    Budget <- MCBudget
    Creates = 1
    Reloads = 0
    Removes = 0
    Terminates = 1
    Exits = 0
    Crashes = 0
    DbFaults = 0
    ForkFaults = 0
    Foreigners = 0
INVARIANT NoUndefinedMessage
