---------------------------- MODULE MCProcessCtl ----------------------------
(***************************************************************************)
(* ProcessCtl for TLC: how often each request and each fault may happen,   *)
(* per run, and the symmetry of the safety runs.                           *)
(***************************************************************************)
EXTENDS ServiceRefinement, TLC

CONSTANTS Creates, Reloads, Removes, Terminates,
          Exits, Crashes, DbFaults, ForkFaults, Foreigners

MCBudget ==
    [k \in EventTypes \cup Faults |->
        CASE k = "create"    -> Creates
          [] k = "reload"    -> Reloads
          [] k = "remove"    -> Removes
          [] k = "terminate" -> Terminates
          [] k = "exit"      -> Exits
          [] k = "crash"     -> Crashes
          [] k = "db"        -> DbFaults
          [] k = "fork"      -> ForkFaults
          [] k = "foreign"   -> Foreigners]

\* Streams and pids are interchangeable; hosts are too, but there are at most two.
MCSymmetry == Permutations(Sids) \cup Permutations(Pids)
=============================================================================
