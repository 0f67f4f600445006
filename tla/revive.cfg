SPECIFICATION FairSpec
CONSTANTS
    Hosts = {h1}
    NumWorkers = 1
    Sids = {s1}
    NoSid = NoSid
    Pids = {p1, p2, p3, p4, p5}
    NoPid = NoPid
    Foreign = Foreign
    PidReuse = FALSE
    Budget <- MCBudget
    Creates = 2
    Reloads = 1
    Removes = 1
    Terminates = 0
    Exits = 1
    Crashes = 0
    DbFaults = 0
    ForkFaults = 1
    Foreigners = 0
PROPERTY StreamRevived
PROPERTY StopTakesEffect
PROPERTY RespawnsSettle
