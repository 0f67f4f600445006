------------------------------ MODULE ProcessCtl ------------------------------
(***************************************************************************)
(* The pull server's process control: the HTTP thread queues events with   *)
(* ServerBiz::put_data, a pool of worker threads consumes one queue each   *)
(* (ServerBiz::worker_loop) and runs the handlers of ProcessCtlModule, and *)
(* the schedule thread respawns the ffmpegs that exited                    *)
(* (ServerBiz::process_alive_detect).  They meet in the collection process *)
(* of one MongoDB, in the pid tables of the operating systems, and nowhere *)
(* else: no handler holds a lock over its steps.                           *)
(*                                                                         *)
(* One action is one call that another thread, another process or MongoDB  *)
(* can see: a query, a write, a fork, a kill.  What a thread does to its   *)
(* own locals, and the final pop of the handled event, belong to the call  *)
(* before.                                                                 *)
(***************************************************************************)
EXTENDS MongoCache, Sequences

CONSTANTS
    Hosts,       \* machines that run a pull server on the same MongoDB
    NumWorkers,  \* "worker" of the configuration file
    Sids,        \* stream ids
    NoSid,       \* the empty string: no sid
    Pids,        \* process ids of one machine
    NoPid,
    Foreign,     \* the owner of a process that is no ffmpeg of ours
    PidReuse,    \* may the kernel hand out a pid a second time?
    Budget       \* how often each request and each fault may happen

EventTypes == {"create", "reload", "remove", "terminate"}

\* exit: an ffmpeg ends by itself; crash: the server dies; db: one MongoDB call
\* fails; fork: fork() fails; foreign: another program starts a process.
Faults == {"exit", "crash", "db", "fork", "foreign"}

ASSUME NumWorkersAssumption == NumWorkers \in Nat \ {0}
ASSUME SidsAssumption == NoSid \notin Sids /\ Foreign \notin Sids /\ NoSid # Foreign
ASSUME PidsAssumption == NoPid \notin Pids
ASSUME PidReuseAssumption == PidReuse \in BOOLEAN
ASSUME BudgetAssumption == Budget \in [EventTypes \cup Faults -> Nat]

VARIABLES
    cache,    \* collection process, shared by all hosts
    nextId,   \* the next document id
    owner,    \* owner[h][p]: what pid p of h was last forked for
    alive,    \* alive[h]: the pids that exist on h
    up,       \* up[h]: the server of h is running
    index,    \* index[h]: worker_index, the worker that gets the next event
    queue,    \* queue[h][w]: the events of worker w; the head is in work
    worker,   \* worker[h][w]: where worker w is, and the pid it holds
    sched,    \* sched[h]: where the schedule thread is, and its locals
    budget    \* what is left of Budget

vars == <<cache, nextId, owner, alive, up, index, queue, worker, sched, budget>>

-------------------------------------------------------------------------------
(* Types and initial state *)

Workers == 0 .. NumWorkers - 1

\* What the four REST handlers build.  Only start and stop reject an empty sid;
\* stop_i carries a pid and no sid.
Events == [type : {"create", "remove"}, sid : Sids]
            \cup [type : {"reload"}, sid : Sids \cup {NoSid}]
            \cup [type : {"terminate"}, sid : {NoSid}]

Docs == [id : Nat, sid : Sids, pid : Pids, host : Hosts]

WorkerPcs == {"idle", "fork", "insert", "delete", "kill", "refork", "update"}
SchedPcs == {"sleep", "probe", "lookup", "fork", "update"}

IdleWorker == [pc |-> "idle", pid |-> NoPid]

\* todo is what is left of find_all_process's vector; sid, pid and host are the
\* fields of the local info.
Asleep(h) == [pc |-> "sleep", todo |-> {}, sid |-> NoSid, pid |-> NoPid, host |-> h]

TypeOK ==
    /\ cache \in SUBSET Docs
    /\ nextId \in Nat
    /\ owner \in [Hosts -> [Pids -> Sids \cup {NoSid, Foreign}]]
    /\ alive \in [Hosts -> SUBSET Pids]
    /\ up \in [Hosts -> BOOLEAN]
    /\ index \in [Hosts -> Workers]
    /\ queue \in [Hosts -> [Workers -> Seq(Events)]]
    /\ worker \in [Hosts -> [Workers -> [pc : WorkerPcs, pid : Pids \cup {NoPid}]]]
    /\ sched \in [Hosts -> [pc : SchedPcs, todo : SUBSET Docs, sid : Sids \cup {NoSid},
                            pid : Pids \cup {NoPid}, host : Hosts]]
    /\ budget \in [EventTypes \cup Faults -> Nat]

Init ==
    /\ cache = {}
    /\ nextId = 0
    /\ owner = [h \in Hosts |-> [p \in Pids |-> NoSid]]
    /\ alive = [h \in Hosts |-> {}]
    /\ up = [h \in Hosts |-> TRUE]
    /\ index = [h \in Hosts |-> 0]
    /\ queue = [h \in Hosts |-> [w \in Workers |-> <<>>]]
    /\ worker = [h \in Hosts |-> [w \in Workers |-> IdleWorker]]
    /\ sched = [h \in Hosts |-> Asleep(h)]
    /\ budget = Budget

-------------------------------------------------------------------------------
(* The environment of a handler: budget, MongoDB, kernel *)

Spend(k) == budget[k] > 0 /\ budget' = [budget EXCEPT ![k] = @ - 1]

\* A query: a failed one is reported as one that found nothing.
DbFind(matching, found) ==
    \/ found = FindOne(matching) /\ UNCHANGED budget
    \/ found = {} /\ FindOne(matching) # {} /\ Spend("db")

\* A write: every caller goes on as if a failed one had been done.
DbWrite(new) ==
    \/ cache' = new /\ UNCHANGED budget
    \/ cache' = cache /\ Spend("db")

FreePid(h, p) == p \notin alive[h] /\ (PidReuse \/ owner[h][p] = NoSid)

\* fork() in the parent: a new process p, for stream (or program) s.
NewProcess(h, p, s) ==
    /\ FreePid(h, p)
    /\ owner' = [owner EXCEPT ![h][p] = s]
    /\ alive' = [alive EXCEPT ![h] = @ \cup {p}]

ForkFails(h) ==
    /\ \/ (\A p \in Pids : ~FreePid(h, p)) /\ UNCHANGED budget
       \/ Spend("fork")
    /\ UNCHANGED <<owner, alive>>

\* kill(pid, SIGKILL), on the host of the caller; SIGCHLD is ignored, so the
\* pid is gone at once.
KillProcess(h, p) == alive' = [alive EXCEPT ![h] = @ \ {p}]

\* kill(pid, 0) == 0.
check_system_process_exist(h, p) == p \in alive[h]

-------------------------------------------------------------------------------
(* The queues *)

\* Mutant: no wrap-around.
NextWorkerUnbounded(w) == w + 1

NextWorker(w) == (w + 1) % NumWorkers

\* put_data: the event goes to the workers in turn, whatever its sid.
put_data(h, ev) ==
    /\ up[h]
    /\ Spend(ev.type)
    /\ queue' = [queue EXCEPT ![h][index[h]] = Append(@, ev)]
    /\ index' = [index EXCEPT ![h] = NextWorker(@)]
    /\ UNCHANGED <<cache, nextId, owner, alive, up, worker, sched>>

\* Mutant: queue::back for queue::front.
NewestEvent(h, w) == queue[h][w][Len(queue[h][w])]

InWork(h, w) == Head(queue[h][w])

\* Worker w of h is at pc, and the event it handles is of that type.
At(h, w, pc, type) ==
    /\ up[h]
    /\ worker[h][w].pc = pc
    /\ queue[h][w] # <<>>
    /\ InWork(h, w).type = type

Goto(h, w, pc, p) ==
    /\ worker' = [worker EXCEPT ![h][w] = [pc |-> pc, pid |-> p]]
    /\ UNCHANGED queue

\* The handler returns; its result is only logged, and the event is popped.
Done(h, w) ==
    /\ worker' = [worker EXCEPT ![h][w] = IdleWorker]
    /\ queue' = [queue EXCEPT ![h][w] = Tail(@)]

-------------------------------------------------------------------------------
(* EV_CREATE_PROCESS: spawn_process, add_process_to_cache *)

\* Mutant: no check for an existing record.
SpawnUnchecked(h, w) ==
    /\ At(h, w, "idle", "create")
    /\ Goto(h, w, "fork", NoPid)
    /\ UNCHANGED <<cache, nextId, owner, alive, up, index, sched, budget>>

\* The stream is refused when it has a record.
SpawnCheck(h, w) ==
    /\ At(h, w, "idle", "create")
    /\ \E found \in SUBSET cache :
          /\ DbFind(BySid(cache, InWork(h, w).sid), found)
          /\ IF found = {} THEN Goto(h, w, "fork", NoPid) ELSE Done(h, w)
    /\ UNCHANGED <<cache, nextId, owner, alive, up, index, sched>>

SpawnFork(h, w) ==
    /\ At(h, w, "fork", "create")
    /\ \/ \E p \in Pids :
             /\ NewProcess(h, p, InWork(h, w).sid)
             /\ Goto(h, w, "insert", p)
             /\ UNCHANGED budget
       \/ ForkFails(h) /\ Done(h, w)
    /\ UNCHANGED <<cache, nextId, up, index, sched>>

\* The document add_process_to_cache builds.
NewRecord(h, w) ==
    [id |-> nextId, sid |-> InWork(h, w).sid, pid |-> worker[h][w].pid, host |-> h]

SpawnInsert(h, w) ==
    /\ At(h, w, "insert", "create")
    /\ DbWrite(Insert(cache, NewRecord(h, w)))
    /\ nextId' = nextId + 1
    /\ Done(h, w)
    /\ UNCHANGED <<owner, alive, up, index, sched>>

-------------------------------------------------------------------------------
(* EV_REMOVE_PROCESS: remove_process *)

\* get_process_info: p->pid is read here, and used two steps later.
RemoveFind(h, w) ==
    /\ At(h, w, "idle", "remove")
    /\ \E found \in SUBSET cache :
          /\ DbFind(BySid(cache, InWork(h, w).sid), found)
          /\ \/ found = {} /\ Done(h, w)
             \/ \E d \in found : Goto(h, w, "delete", d.pid)
    /\ UNCHANGED <<cache, nextId, owner, alive, up, index, sched>>

\* Mutant: the record is removed by the pid read before.
RemoveQueryByPid(h, w) == ByPid(cache, worker[h][w].pid)

\* remove_process_by_stream: by sid, not by the document found.
RemoveQuery(h, w) == BySid(cache, InWork(h, w).sid)

RemoveDelete(h, w) ==
    /\ At(h, w, "delete", "remove")
    /\ DbWrite(RemoveSingle(cache, RemoveQuery(h, w)))
    /\ Goto(h, w, "kill", worker[h][w].pid)
    /\ UNCHANGED <<nextId, owner, alive, up, index, sched>>

RemoveKill(h, w) ==
    /\ At(h, w, "kill", "remove")
    /\ KillProcess(h, worker[h][w].pid)
    /\ Done(h, w)
    /\ UNCHANGED <<cache, nextId, owner, up, index, sched, budget>>

-------------------------------------------------------------------------------
(* EV_RELOAD_PROCESS: process_reload, spawn_process_i, update_process_info *)

ReloadFind(h, w) ==
    /\ At(h, w, "idle", "reload")
    /\ \E found \in SUBSET cache :
          /\ DbFind(BySid(cache, InWork(h, w).sid), found)
          /\ IF found = {} THEN Done(h, w) ELSE Goto(h, w, "refork", NoPid)
    /\ UNCHANGED <<cache, nextId, owner, alive, up, index, sched>>

\* spawn_process_i: the ffmpeg the record names is not killed.
ReloadFork(h, w) ==
    /\ At(h, w, "refork", "reload")
    /\ \/ \E p \in Pids :
             /\ NewProcess(h, p, InWork(h, w).sid)
             /\ Goto(h, w, "update", p)
             /\ UNCHANGED budget
       \/ ForkFails(h) /\ Done(h, w)
    /\ UNCHANGED <<cache, nextId, up, index, sched>>

\* Mutants: the query without its sid; the query by the new pid.
UpdatePidOfFirst(s, p) == SetPid(cache, cache, p)
UpdatePidByPid(s, p) == SetPid(cache, ByPid(cache, p), p)

\* update_process_info: the pid of the first record of the sid.
UpdatePid(s, p) == SetPid(cache, BySid(cache, s), p)

ReloadUpdate(h, w) ==
    /\ At(h, w, "update", "reload")
    /\ DbWrite(UpdatePid(InWork(h, w).sid, worker[h][w].pid))
    /\ Done(h, w)
    /\ UNCHANGED <<nextId, owner, alive, up, index, sched>>

-------------------------------------------------------------------------------
(* The schedule thread: process_alive_detect *)

SchedAt(h, pc) == up[h] /\ sched[h].pc = pc

\* The element the iterator stands at: the vector is in document order.
Current(h) == FindOne(sched[h].todo)

\* iter++ with what is left of the vector; at its end, sleep(10).
NextProbe(h, todo) ==
    sched' = [sched EXCEPT ![h] =
                 IF todo = {} THEN Asleep(h)
                              ELSE [Asleep(h) EXCEPT !.pc = "probe", !.todo = todo]]

\* What a cursor has returned when it breaks off.
FirstPart(docs) == \A d \in docs, e \in cache \ docs : d.id < e.id

\* find_all_process: a snapshot of the records of every host, or of the first of
\* them when the query or its cursor fails, which nobody notices.
SchedScan(h) ==
    /\ SchedAt(h, "sleep")
    /\ \/ NextProbe(h, cache) /\ UNCHANGED budget
       \/ \E docs \in SUBSET cache :
             FirstPart(docs) /\ NextProbe(h, docs) /\ Spend("db")
    /\ UNCHANGED <<cache, nextId, owner, alive, up, index, queue, worker>>

\* kill(iter->pid, 0) on this host, whatever the host of the record.
SchedProbe(h) ==
    /\ SchedAt(h, "probe")
    /\ \E d \in Current(h) :
          IF check_system_process_exist(h, d.pid)
          THEN NextProbe(h, sched[h].todo \ {d})
          ELSE sched' = [sched EXCEPT ![h] = [@ EXCEPT !.pc = "lookup", !.pid = d.pid]]
    /\ UNCHANGED <<cache, nextId, owner, alive, up, index, queue, worker, budget>>

Skip(h) == NextProbe(h, sched[h].todo \ Current(h))

\* Mutant: the record is looked up again by the sid of the snapshot.
RecheckBySid(h) == UNION {BySid(cache, d.sid) : d \in Current(h)}

\* is_process_exist(iter->pid, info): the record is looked up again, by pid.
Recheck(h) == ByPid(cache, sched[h].pid)

SchedLookup(h) ==
    /\ SchedAt(h, "lookup")
    /\ \E found \in SUBSET cache :
          /\ DbFind(Recheck(h), found)
          /\ \/ found = {} /\ Skip(h)
             \/ \E d \in found :
                   sched' = [sched EXCEPT ![h] =
                        [@ EXCEPT !.pc = "fork", !.sid = d.sid, !.pid = d.pid,
                                  !.host = d.host]]
    /\ UNCHANGED <<cache, nextId, owner, alive, up, index, queue, worker>>

SchedFork(h) ==
    /\ SchedAt(h, "fork")
    /\ \/ \E p \in Pids :
             /\ NewProcess(h, p, sched[h].sid)
             /\ sched' = [sched EXCEPT ![h] = [@ EXCEPT !.pc = "update", !.pid = p]]
             /\ UNCHANGED budget
       \/ ForkFails(h) /\ Skip(h)
    /\ UNCHANGED <<cache, nextId, up, index, queue, worker>>

SchedUpdate(h) ==
    /\ SchedAt(h, "update")
    /\ DbWrite(UpdatePid(sched[h].sid, sched[h].pid))
    /\ Skip(h)
    /\ UNCHANGED <<nextId, owner, alive, up, index, queue, worker>>

-------------------------------------------------------------------------------
(* Processes that end or start by themselves; the server's own end *)

\* An ffmpeg that cannot pull its source, or crashes; or a foreign process ends.
ProcessExit(h, p) ==
    /\ p \in alive[h]
    /\ Spend("exit")
    /\ alive' = [alive EXCEPT ![h] = @ \ {p}]
    /\ UNCHANGED <<cache, nextId, owner, up, index, queue, worker, sched>>

ForeignStart(h, p) ==
    /\ Spend("foreign")
    /\ NewProcess(h, p, Foreign)
    /\ UNCHANGED <<cache, nextId, up, index, queue, worker, sched>>

\* The server's memory is lost; the ffmpegs, which are processes of their own,
\* and the cache stay.
Die(h) ==
    /\ up' = [up EXCEPT ![h] = FALSE]
    /\ index' = [index EXCEPT ![h] = 0]
    /\ queue' = [queue EXCEPT ![h] = [w \in Workers |-> <<>>]]
    /\ worker' = [worker EXCEPT ![h] = [w \in Workers |-> IdleWorker]]
    /\ sched' = [sched EXCEPT ![h] = Asleep(h)]
    /\ UNCHANGED <<cache, nextId, owner, alive>>

\* The default case of worker_loop's switch is assert(0), and EV_TERMINATE_PROCESS
\* has no case of its own.
WorkerAbort(h, w) ==
    /\ At(h, w, "idle", "terminate")
    /\ Die(h)
    /\ UNCHANGED budget

\* A signal or a segmentation fault; the unlocked pop can be its cause.
Crash(h) ==
    /\ up[h]
    /\ Spend("crash")
    /\ Die(h)

\* main: empty queues, a new schedule thread, the cache as it was left.
Restart(h) ==
    /\ ~up[h]
    /\ up' = [up EXCEPT ![h] = TRUE]
    /\ UNCHANGED <<cache, nextId, owner, alive, index, queue, worker, sched, budget>>

-------------------------------------------------------------------------------
(* Specification *)

WorkerStep(h, w) ==
    \/ SpawnCheck(h, w) \/ SpawnFork(h, w) \/ SpawnInsert(h, w)
    \/ RemoveFind(h, w) \/ RemoveDelete(h, w) \/ RemoveKill(h, w)
    \/ ReloadFind(h, w) \/ ReloadFork(h, w) \/ ReloadUpdate(h, w)
    \/ WorkerAbort(h, w)

SchedStep(h) ==
    \/ SchedScan(h) \/ SchedProbe(h) \/ SchedLookup(h)
    \/ SchedFork(h) \/ SchedUpdate(h)

HostStep(h) ==
    \/ \E ev \in Events : put_data(h, ev)
    \/ \E w \in Workers : WorkerStep(h, w)
    \/ SchedStep(h)
    \/ \E p \in Pids : ProcessExit(h, p) \/ ForeignStart(h, p)
    \/ Crash(h)
    \/ Restart(h)

Next == \E h \in Hosts : HostStep(h)

Spec == Init /\ [][Next]_vars

\* The threads are scheduled by the operating system, and a server that died is
\* started again (by pulld).  Nothing obliges a client, an ffmpeg, or a fault.
Fairness ==
    \A h \in Hosts :
        /\ \A w \in Workers : WF_vars(WorkerStep(h, w))
        /\ WF_vars(SchedStep(h))
        /\ WF_vars(Restart(h))

FairSpec == Spec /\ Fairness

-------------------------------------------------------------------------------
(* Safety *)

\* The pid a record holds was forked for the stream the record names: no
\* handler's insert or update pairs a stream with another stream's process,
\* however the workers and the scheduler interleave
\* (add_process_to_cache, update_process_info).
RecordsNameOwnStream ==
    \A d \in cache : owner[d.host][d.pid] = d.sid

\* The pid remove_process is about to kill, read before the record was removed
\* and not read again, belongs to the stream the client wants stopped.
StopKillsOwnStream ==
    \A h \in Hosts, w \in Workers :
        worker[h][w].pc \in {"delete", "kill"} =>
            owner[h][worker[h][w].pid] = InWork(h, w).sid

\* When process_alive_detect forks a new ffmpeg for a record, the process the
\* record named is gone from the machine the record is of: a stale snapshot or a
\* stale probe never doubles a healthy ffmpeg.
RespawnOnlyExited ==
    \A h \in Hosts :
        sched[h].pc = "fork" => sched[h].pid \notin alive[sched[h].host]

\* A stream has one record (the check of spawn_process, "stream %s exist").
UniqueRecord == \A d, e \in cache : d.sid = e.sid => d = e

\* Every running ffmpeg can be stopped: a record names it, or a handler that
\* holds its pid is about to record or to kill it.  An ffmpeg outside this set
\* runs until the machine is restarted.
Recorded(h, p) == \E d \in cache : d.host = h /\ d.pid = p
InFlight(h, p) == sched[h].pid = p \/ \E w \in Workers : worker[h][w].pid = p

NoLeak ==
    \A h \in Hosts, p \in Pids :
        p \in alive[h] /\ owner[h][p] \in Sids => Recorded(h, p) \/ InFlight(h, p)

\* Starts, failing forks and one stop leave no ffmpeg that nothing can stop, however
\* the workers interleave and however often the stream is started twice
\* (spawn_process, remove_process).  Two stops at a time can: with two records of a
\* stream both read the first one's pid, each removes a record, and both kill the
\* same ffmpeg.  So can a reload, a respawn, a crash or a failed database call.
Untouched(ks) == \A k \in ks : budget[k] = Budget[k]
NoLeakByRequests ==
    /\ Untouched({"reload", "terminate", "exit", "crash", "db"})
    /\ budget["remove"] + 1 >= Budget["remove"]
    => NoLeak

\* "undefined message type": worker_loop asserts that it never meets an event it
\* has no case for.
NoUndefinedMessage ==
    \A h \in Hosts, w \in Workers :
        queue[h][w] # <<>> => InWork(h, w).type # "terminate"

-------------------------------------------------------------------------------
(* Liveness *)

RunsAsRecorded(d) == d.pid \in alive[d.host] /\ owner[d.host][d.pid] = d.sid
Broken(s) == \E d \in BySid(cache, s) : ~RunsAsRecorded(d)

\* A recorded stream whose ffmpeg ended runs again, or is no longer wanted
\* (schedule, process_alive_detect).
StreamRevived == \A s \in Sids : Broken(s) ~> ~Broken(s)

\* Once the ffmpegs stop exiting, the schedule thread stops forking: a respawn
\* mends the record it was made for (spawn_process_i, update_process_info).
RespawnsSettle == \A h \in Hosts : <>[](sched[h].pc # "fork")

\* The last start or stop of s that worker w of h still has to finish.
IsLast(h, w, s, type) ==
    \E i \in DOMAIN queue[h][w] :
        /\ queue[h][w][i] = [type |-> type, sid |-> s]
        /\ \A j \in i + 1 .. Len(queue[h][w]) :
              queue[h][w][j] \notin [type : {"create", "remove"}, sid : {s}]
Pending(h, w, s) == \E type \in {"create", "remove"} : IsLast(h, w, s, type)
HasRecord(s) == BySid(cache, s) # {}

\* A stop that no start follows takes effect: the queue gets to it and the stream
\* has no record afterwards, whatever the scheduler and the reloads do meanwhile
\* (remove_process against spawn_process_i).  For one host with one worker.
StopTakesEffect ==
    \A h \in Hosts, s \in Sids, w \in Workers :
        IsLast(h, w, s, "remove") ~>
            \/ ~Pending(h, w, s) /\ ~HasRecord(s)
            \/ IsLast(h, w, s, "create")
            \/ ~up[h]
===============================================================================
