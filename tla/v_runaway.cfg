SPECIFICATION FairSpec
CONSTANTS
    Hosts = {h1}
    NumWorkers = 2
    Sids = {s1}
    NoSid = NoSid
    Pids = {p1, p2, p3, p4}
    NoPid = NoPid
    Foreign = Foreign
    PidReuse = FALSE
    Budget <- MCBudget
    Creates = 2
    Reloads = 0
    Removes = 0
    Terminates = 0
    Exits = 1
    Crashes = 0
    DbFaults = 0
    ForkFaults = 0
    Foreigners = 0
PROPERTY RespawnsSettle
