---------------------------- MODULE MCPullServer ----------------------------
(***************************************************************************)
(* PullServer for TLC, with the bounds of the process-control runs.        *)
(***************************************************************************)
EXTENDS PullServer, TLC

CONSTANTS Creates, Reloads, Removes, Terminates,
          Exits, Crashes, DbFaults, ForkFaults, Foreigners

MCBudget ==
    [k \in EventTypes \cup Faults |->
        CASE k = "create"    -> Creates
          [] k = "reload"    -> Reloads
          [] k = "remove"    -> Removes
          [] k = "terminate" -> Terminates
          [] k = "exit"      -> Exits
          [] k = "crash"     -> Crashes
          [] k = "db"        -> DbFaults
          [] k = "fork"      -> ForkFaults
          [] k = "foreign"   -> Foreigners]

\* Pids are interchangeable; the run has one stream.
MCPidSymmetry == Permutations(Pids)
=============================================================================
