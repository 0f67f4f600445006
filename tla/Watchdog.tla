------------------------------- MODULE Watchdog -------------------------------
(***************************************************************************)
(* One machine, its watchdog pulld (pulld/src/main.cpp) and the pull       *)
(* servers started on it (pull/src/main.cpp, utils/utils.cpp), from their  *)
(* start to the moment they serve.  They share the lock on the pid file    *)
(* and the collection of registered hosts in MongoDB.  pull runs with      *)
(* daemon=on, as its configuration says: the process pulld waits for in    *)
(* system() forks the server and exits at once.                            *)
(***************************************************************************)
EXTENDS MongoCache

CONSTANTS
    Instances,   \* slots for pull processes of this machine
    NoInstance,
    PullKey,     \* the address pull registers: the one of its net_type
    PulldKey,    \* the address pulld looks for: the one of its own net_type
    FastStart,   \* a server is up, or has given up, within pulld's sleep(5)
    WdBudget     \* how often each fault and each operator's action may happen

\* hang: the handler of pull waits for a lock its own thread holds.  io: open or
\* write of the pid file, or fork, fails.
WdFaults == {"crash", "term", "hang", "bind", "manual", "stop", "io", "db"}

ASSUME InstancesAssumption ==
    /\ NoInstance \notin Instances
    /\ "pulld" \notin Instances \cup {NoInstance}
ASSUME FastStartAssumption == FastStart \in BOOLEAN
ASSUME WdBudgetAssumption == WdBudget \in [WdFaults -> Nat]

VARIABLES
    pulld,        \* the step of pulld's loop
    is_running,   \* pulld's flag, cleared by sig_terminal
    inst,         \* inst[i]: how far pull process i is
    lock,         \* who holds the lock on the pid file
    hosts,        \* collection host
    nextHost,     \* the next document id
    left          \* what is left of WdBudget

wvars == <<pulld, is_running, inst, lock, hosts, nextHost, left>>

\* boot: there is no log yet; ready: there is, and the loop has not begun; system:
\* waiting in system(); hung: the signal handler does not return.
PulldPcs ==
    {"boot", "ready", "probe", "close", "find", "remove", "spawn", "system", "sleep",
     "done", "hung"}

\* none: no process; terminating: in sig_handler_terminal; hung: stuck in it.
InstPcs == {"none", "starting", "check", "insert", "bind", "serving", "terminating", "hung"}

\* by is not in the database: the process that inserted the document.
HostDocs == [id : Nat, host : {PullKey}, by : Instances]

WatchdogTypeOK ==
    /\ pulld \in PulldPcs
    /\ is_running \in BOOLEAN
    /\ inst \in [Instances -> InstPcs]
    /\ lock \in Instances \cup {NoInstance, "pulld"}
    /\ hosts \in SUBSET HostDocs
    /\ nextHost \in Nat
    /\ left \in [WdFaults -> Nat]

WatchdogInit ==
    /\ pulld = "boot"
    /\ is_running = FALSE
    /\ inst = [i \in Instances |-> "none"]
    /\ lock = NoInstance
    /\ hosts = {}
    /\ nextHost = 0
    /\ left = WdBudget

-------------------------------------------------------------------------------
(* The environment: bounds, MongoDB, processes *)

Use(k) == left[k] > 0 /\ left' = [left EXCEPT ![k] = @ - 1]

ByHost(key) == {d \in hosts : d.host = key}

\* is_host_exist: a query that fails finds nothing.
HostExist(key, answer) ==
    \/ answer = (ByHost(key) # {}) /\ UNCHANGED left
    \/ answer = FALSE /\ ByHost(key) # {} /\ Use("db")

\* A failed insert or remove is only logged.
HostWrite(new) ==
    \/ hosts' = new /\ UNCHANGED left
    \/ hosts' = hosts /\ Use("db")

\* Mutant: the ended process is not reaped.
EndAsZombie(i) ==
    /\ inst' = [inst EXCEPT ![i] = "zombie"]
    /\ lock' = IF lock = i THEN NoInstance ELSE lock

\* A process that ends loses its lock, and nothing else.
EndProcess(i) ==
    /\ inst' = [inst EXCEPT ![i] = "none"]
    /\ lock' = IF lock = i THEN NoInstance ELSE lock

NewInstance == \E i \in Instances :
    inst[i] = "none" /\ inst' = [inst EXCEPT ![i] = "starting"]

-------------------------------------------------------------------------------
(* pulld *)

\* The configuration is read, and the log created.
PulldBoot ==
    /\ pulld = "boot"
    /\ pulld' = "ready"
    /\ UNCHANGED <<is_running, inst, lock, hosts, nextHost, left>>

\* Only now does the flag say running: what sig_terminal wrote before is lost.
PulldEnterLoop ==
    /\ pulld = "ready"
    /\ pulld' = "probe"
    /\ is_running' = TRUE
    /\ UNCHANGED <<inst, lock, hosts, nextHost, left>>

\* Mutant: the result of lockf is not looked at.
ProbeResultIgnored == "find"

ProbeResult == IF lock = "pulld" THEN "find" ELSE "sleep"

\* check_process_alive: open, or exit(0), then lockf(F_TLOCK).
PulldProbe ==
    /\ pulld = "probe"
    /\ \/ /\ lock' = IF lock = NoInstance THEN "pulld" ELSE lock
          /\ pulld' = "close"
          /\ UNCHANGED left
       \/ Use("io") /\ pulld' = "done" /\ UNCHANGED lock
    /\ UNCHANGED <<is_running, inst, hosts, nextHost>>

\* close() releases what the probe took; the answer is used from here on.  F_ULOCK
\* and the second close() come too late to matter to the lock: see PulldLog for
\* what they do to the log.
PulldClose ==
    /\ pulld = "close"
    /\ pulld' = ProbeResult
    /\ lock' = IF lock = "pulld" THEN NoInstance ELSE lock
    /\ UNCHANGED <<is_running, inst, hosts, nextHost, left>>

PulldFindHost ==
    /\ pulld = "find"
    /\ \E answer \in BOOLEAN :
          /\ HostExist(PulldKey, answer)
          /\ pulld' = IF answer THEN "remove" ELSE "spawn"
    /\ UNCHANGED <<is_running, inst, lock, hosts, nextHost>>

\* Mutant: remove_host is forgotten.
HostsKept == hosts

HostsWithoutStale == RemoveSingle(hosts, ByHost(PulldKey))

PulldRemoveHost ==
    /\ pulld = "remove"
    /\ HostWrite(HostsWithoutStale)
    /\ pulld' = "spawn"
    /\ UNCHANGED <<is_running, inst, lock, nextHost>>

\* system(rec_bin_dir): the daemon runs, or a fork failed.
PulldSpawn ==
    /\ pulld = "spawn"
    /\ \/ NewInstance /\ UNCHANGED left
       \/ Use("io") /\ UNCHANGED inst
    /\ pulld' = "system"
    /\ UNCHANGED <<is_running, lock, hosts, nextHost>>

\* system() returns when the parent of the daemon has exited.
PulldSystemReturns ==
    /\ pulld = "system"
    /\ pulld' = "sleep"
    /\ UNCHANGED <<is_running, inst, lock, hosts, nextHost, left>>

Starting == {"starting", "check", "insert", "bind"}

\* Mutant: the loop does not test the flag.
RunsForever == TRUE

KeepsRunning == is_running

\* sleep(5), which a signal cuts short, then the test of the loop.
PulldWake ==
    /\ pulld = "sleep"
    /\ FastStart /\ is_running => \A i \in Instances : inst[i] \notin Starting
    /\ pulld' = IF KeepsRunning THEN "probe" ELSE "done"
    /\ UNCHANGED <<is_running, inst, lock, hosts, nextHost, left>>

\* The handler may have interrupted a prt: of these steps, or of another handler.
InterruptsPrt == pulld \in {"find", "remove", "spawn"} \/ ~is_running

\* Before the log exists the handler calls prt on a null pointer; on top of a prt
\* that is in localtime_r it waits for it forever.
AfterHandler ==
    IF pulld = "boot" THEN {"done"}
    ELSE IF InterruptsPrt THEN {pulld, "hung"} ELSE {pulld}

\* SIGTERM or SIGINT: the handler clears the flag, and logs.  While system() waits,
\* SIGINT is ignored.
PulldSignal ==
    /\ pulld \notin {"done", "hung"}
    /\ Use("stop")
    /\ \/ is_running' = FALSE /\ pulld' \in AfterHandler
       \/ pulld = "system" /\ UNCHANGED <<is_running, pulld>>
    /\ UNCHANGED <<inst, lock, hosts, nextHost>>

-------------------------------------------------------------------------------
(* pull *)

\* Mutant: write_pid_to_file goes on without the lock.
LockIgnored(i) ==
    /\ inst' = [inst EXCEPT ![i] = "check"]
    /\ lock' = IF lock = NoInstance THEN i ELSE lock

LockOrExit(i) ==
    \/ lock = NoInstance /\ lock' = i /\ inst' = [inst EXCEPT ![i] = "check"]
    \/ lock # NoInstance /\ EndProcess(i)

\* write_pid_to_file: open, lockf(F_TLOCK) and write, or exit(0).
PullLock(i) ==
    /\ inst[i] = "starting"
    /\ \/ LockOrExit(i) /\ UNCHANGED left
       \/ EndProcess(i) /\ Use("io")
    /\ UNCHANGED <<pulld, is_running, hosts, nextHost>>

\* Mutant: host_register does not ask whether the host exists.
NeverDuplicate(i, answer) == inst' = [inst EXCEPT ![i] = "insert"] /\ UNCHANGED lock

ExitIfDuplicate(i, answer) ==
    \/ answer /\ EndProcess(i)
    \/ ~answer /\ inst' = [inst EXCEPT ![i] = "insert"] /\ UNCHANGED lock

\* host_register: "duplicate host register", and exit(0).
PullCheckHost(i) ==
    /\ inst[i] = "check"
    /\ \E answer \in BOOLEAN : HostExist(PullKey, answer) /\ ExitIfDuplicate(i, answer)
    /\ UNCHANGED <<pulld, is_running, hosts, nextHost>>

\* register_host_to_cache, whose result nobody looks at; then Schedule.
PullRegister(i) ==
    /\ inst[i] = "insert"
    /\ HostWrite(Insert(hosts, [id |-> nextHost, host |-> PullKey, by |-> i]))
    /\ nextHost' = nextHost + 1
    /\ inst' = [inst EXCEPT ![i] = "bind"]
    /\ UNCHANGED <<pulld, is_running, lock>>

\* run: the port is bound, or the process ends and leaves its host registered.
PullBind(i) ==
    /\ inst[i] = "bind"
    /\ \/ inst' = [inst EXCEPT ![i] = "serving"] /\ UNCHANGED <<lock, left>>
       \/ Use("bind") /\ EndProcess(i)
    /\ UNCHANGED <<pulld, is_running, hosts, nextHost>>

\* SIGTERM or SIGINT.  Before register_host_to_cache has set _host, the handler
\* removes the host with the empty name.
PullTerm(i) ==
    /\ inst[i] \in Starting \cup {"serving"}
    /\ Use("term")
    /\ IF inst[i] \in {"starting", "check"}
       THEN EndProcess(i)
       ELSE inst' = [inst EXCEPT ![i] = "terminating"] /\ UNCHANGED lock
    /\ UNCHANGED <<pulld, is_running, hosts, nextHost>>

\* sig_handler_terminal: remove_host and exit(0).
PullTerminates(i) ==
    /\ inst[i] = "terminating"
    /\ HostWrite(RemoveSingle(hosts, ByHost(PullKey)))
    /\ EndProcess(i)
    /\ UNCHANGED <<pulld, is_running, nextHost>>

\* The handler logs, allocates and talks to MongoDB: if the signal came while the
\* thread held one of their locks, it never returns.
PullHangs(i) ==
    /\ inst[i] = "terminating"
    /\ Use("hang")
    /\ inst' = [inst EXCEPT ![i] = "hung"]
    /\ UNCHANGED <<pulld, is_running, lock, hosts, nextHost>>

\* SIGKILL, a segmentation fault, an assert.
PullCrash(i) ==
    /\ inst[i] # "none"
    /\ Use("crash")
    /\ EndProcess(i)
    /\ UNCHANGED <<pulld, is_running, hosts, nextHost>>

\* An operator starts pull by hand.
ManualStart ==
    /\ Use("manual")
    /\ NewInstance
    /\ UNCHANGED <<pulld, is_running, lock, hosts, nextHost>>

-------------------------------------------------------------------------------

PulldStep ==
    \/ PulldBoot \/ PulldEnterLoop \/ PulldProbe \/ PulldClose
    \/ PulldFindHost \/ PulldRemoveHost \/ PulldSpawn \/ PulldSystemReturns
    \/ PulldWake

PullStep(i) ==
    \/ PullLock(i) \/ PullCheckHost(i) \/ PullRegister(i)
    \/ PullBind(i) \/ PullTerminates(i)

WatchdogNext ==
    \/ PulldStep
    \/ PulldSignal
    \/ ManualStart
    \/ \E i \in Instances :
          PullStep(i) \/ PullTerm(i) \/ PullHangs(i) \/ PullCrash(i)

WatchdogSpec == WatchdogInit /\ [][WatchdogNext]_wvars

\* Both programs are scheduled by the operating system.
FairWatchdogSpec ==
    /\ WatchdogSpec
    /\ WF_wvars(PulldStep)
    /\ \A i \in Instances : WF_wvars(PullStep(i))

-------------------------------------------------------------------------------
(* Properties *)

Past == {"check", "insert", "bind", "serving"}

Registered(i) == \E d \in hosts : d.by = i

\* However often pull is started, by pulld and by hand, one process at a time gets
\* past the pid file ("instance has runned").
OneServer == \A i, j \in Instances : inst[i] \in Past /\ inst[j] \in Past => i = j

NoDbFault == left["db"] = WdBudget["db"]

\* pulld removes the record of a dead server only: a serving pull is registered,
\* although pulld decides on a probe it took three steps earlier.  A database call
\* that fails unregisters a pull for good, so none has failed here.
ServingIsRegistered ==
    NoDbFault => \A i \in Instances : inst[i] = "serving" => Registered(i)

\* The host is registered once, while no database call fails: is_host_exist and
\* insert are two calls, pulld removes in between, pulls come and go, and the
\* record of a crashed one may still be there.
HostOnce == NoDbFault => \A d, e \in hosts : d.host = e.host => d = e

\* A server that crashed, was stopped or did not get its port serves again, through
\* the lock, the stale host record and the duplicate check, as long as pulld runs.
ServerComesBack ==
    (\A i \in Instances : inst[i] # "serving") ~>
        (~is_running \/ pulld = "done" \/ \E i \in Instances : inst[i] = "serving")

\* Once a handler has cleared the flag of the loop, pulld ends, whatever step it is
\* at, unless a handler hangs: nothing sets the flag again.  A signal before the loop
\* and a SIGINT during system() clear nothing.
PulldStops ==
    pulld \notin {"boot", "ready"} /\ ~is_running ~> pulld \in {"done", "hung"}
===============================================================================
