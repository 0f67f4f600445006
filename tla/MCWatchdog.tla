------------------------------ MODULE MCWatchdog ------------------------------
(***************************************************************************)
(* Watchdog for TLC: the bounds of its runs.                               *)
(***************************************************************************)
EXTENDS Watchdog, TLC

CONSTANTS Crashes, Terms, Hangs, Binds, Manuals, Stops, IoFaults, DbFaults

MCWdBudget ==
    [k \in WdFaults |->
        CASE k = "crash"  -> Crashes
          [] k = "term"   -> Terms
          [] k = "hang"   -> Hangs
          [] k = "bind"   -> Binds
          [] k = "manual" -> Manuals
          [] k = "stop"   -> Stops
          [] k = "io"     -> IoFaults
          [] k = "db"     -> DbFaults]

MCInstanceSymmetry == Permutations(Instances)
===============================================================================
