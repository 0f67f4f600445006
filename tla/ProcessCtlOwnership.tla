--------------------------- MODULE ProcessCtlOwnership --------------------------
(***************************************************************************)
(* Whose process a pid is, and that no process is out of reach, on one     *)
(* machine whose kernel does not hand out a pid twice, for any number of   *)
(* workers, streams and pids: records, stops and respawns never mix up the *)
(* streams, whatever the requests and faults; and starts, failing forks,   *)
(* foreign processes and one stop leave every running ffmpeg in a record   *)
(* or in the hands of a worker.                                            *)
(*                                                                         *)
(* The argument: owner[h][p], once it is a stream, never changes, and a    *)
(* process that ended stays ended (Kept).  So a pid that a handler read    *)
(* from the cache may be out of date when it is used, but it still names a *)
(* process of the same stream.                                             *)
(*                                                                         *)
(* While nothing but starts and one stop happens, every record names a     *)
(* running process of its own, so the schedule thread never finds a record *)
(* for a pid that does not answer, and never respawns.  A worker between   *)
(* its fork and its insert, or between its delete and its kill, holds a    *)
(* process that no record and no other worker has.  A single stop removes  *)
(* the very record whose pid it has read, since nothing goes before it in  *)
(* the collection.                                                         *)
(***************************************************************************)
EXTENDS ProcessCtlProofs, Integers

SingleHost == \A g, h \in Hosts : g = h

\* A step gives no used pid to another owner, and wakes no dead process.
Kept ==
    \A h \in Hosts, p \in Pids :
        owner[h][p] # NoSid =>
            owner'[h][p] = owner[h][p] /\ (p \notin alive[h] => p \notin alive'[h])

\* What worker w of h holds in its locals.
WorkerOwned(h, w) ==
    /\ worker[h][w].pc # "idle" => queue[h][w] # <<>>
    /\ worker[h][w].pc = "refork" => InWork(h, w).sid \in Sids
    /\ worker[h][w].pc \in {"insert", "update", "delete", "kill"} =>
          /\ worker[h][w].pid \in Pids
          /\ InWork(h, w).sid \in Sids
          /\ owner[h][worker[h][w].pid] = InWork(h, w).sid

\* What the schedule thread of h holds: the records of its snapshot, the pid that
\* did not answer, the record it found for it, the process it forked for that.
SchedOwned(h) ==
    /\ \A d \in sched[h].todo : owner[d.host][d.pid] = d.sid
    /\ sched[h].pc \in {"lookup", "fork"} =>
          /\ sched[h].pid \in Pids
          /\ owner[h][sched[h].pid] \in Sids
          /\ sched[h].pid \notin alive[h]
    /\ sched[h].pc \in {"fork", "update"} => sched[h].sid \in Sids
    /\ sched[h].pc = "update" =>
          sched[h].pid \in Pids /\ owner[h][sched[h].pid] = sched[h].sid

WorkersOwned == \A h \in Hosts, w \in Workers : WorkerOwned(h, w)
SchedsOwned == \A h \in Hosts : SchedOwned(h)

OwnedInv == TypeInv /\ RecordsNameOwnStream /\ WorkersOwned /\ SchedsOwned

-------------------------------------------------------------------------------
(* Pids are never given away *)

LEMMA NewProcessKeeps ==
    ASSUME TypeInv, ~PidReuse, NEW h \in Hosts, NEW p \in Pids, NEW s, NewProcess(h, p, s)
    PROVE  Kept
  BY DEF TypeInv, TypeOK, NewProcess, FreePid, Kept

LEMMA ShrinkKeeps ==
    ASSUME TypeInv, UNCHANGED owner, \A h \in Hosts : alive'[h] \subseteq alive[h]
    PROVE  Kept
  BY DEF Kept

\* No step of the system gives a pid away or wakes a dead process.
LEMMA NextKeeps ==
    ASSUME TypeInv, ~PidReuse, [Next]_vars
    PROVE  Kept
  <1>1. CASE UNCHANGED <<owner, alive>>
    BY <1>1, ShrinkKeeps
  <1>2. ASSUME NEW h \in Hosts, NEW w \in Workers, WorkerStep(h, w)
        PROVE  Kept
    <2>1. CASE SpawnFork(h, w)
      BY <2>1, <1>1, NewProcessKeeps DEF SpawnFork, ForkFails
    <2>2. CASE ReloadFork(h, w)
      BY <2>2, <1>1, NewProcessKeeps DEF ReloadFork, ForkFails
    <2>3. CASE RemoveKill(h, w)
      <3>1. \A g \in Hosts : alive'[g] \subseteq alive[g]
        BY <2>3 DEF RemoveKill, KillProcess, TypeInv, TypeOK
      <3> QED BY <2>3, <3>1, ShrinkKeeps DEF RemoveKill
    <2>4. CASE \/ SpawnCheck(h, w) \/ SpawnInsert(h, w) \/ RemoveFind(h, w)
               \/ RemoveDelete(h, w) \/ ReloadFind(h, w) \/ ReloadUpdate(h, w)
               \/ WorkerAbort(h, w)
      BY <2>4, <1>1 DEF SpawnCheck, SpawnInsert, RemoveFind, RemoveDelete,
                        ReloadFind, ReloadUpdate, WorkerAbort, Die
    <2> QED BY <1>2, <2>1, <2>2, <2>3, <2>4 DEF WorkerStep
  <1>3. ASSUME NEW h \in Hosts, SchedStep(h)
        PROVE  Kept
    <2>1. CASE SchedFork(h)
      BY <2>1, <1>1, NewProcessKeeps DEF SchedFork, ForkFails
    <2>2. CASE SchedScan(h) \/ SchedProbe(h) \/ SchedLookup(h) \/ SchedUpdate(h)
      BY <2>2, <1>1 DEF SchedScan, SchedProbe, SchedLookup, SchedUpdate
    <2> QED BY <1>3, <2>1, <2>2 DEF SchedStep
  <1>4. ASSUME NEW h \in Hosts, NEW p \in Pids, ProcessExit(h, p) \/ ForeignStart(h, p)
        PROVE  Kept
    <2>1. CASE ProcessExit(h, p)
      <3>1. \A g \in Hosts : alive'[g] \subseteq alive[g]
        BY <2>1 DEF ProcessExit, TypeInv, TypeOK
      <3> QED BY <2>1, <3>1, ShrinkKeeps DEF ProcessExit
    <2>2. CASE ForeignStart(h, p)
      BY <2>2, NewProcessKeeps DEF ForeignStart
    <2> QED BY <1>4, <2>1, <2>2
  <1>5. ASSUME NEW h \in Hosts,
               (\E ev \in Events : put_data(h, ev)) \/ Crash(h) \/ Restart(h)
        PROVE  Kept
    BY <1>5, <1>1 DEF put_data, Crash, Restart, Die
  <1>6. CASE UNCHANGED vars
    BY <1>6, <1>1 DEF vars
  <1> QED BY <1>2, <1>3, <1>4, <1>5, <1>6 DEF Next, HostStep

-------------------------------------------------------------------------------
(* What a step leaves as it was *)

\* A worker that does not move keeps what it holds; its queue may grow.
LEMMA WorkerStays ==
    ASSUME TypeInv, Kept, NEW h \in Hosts, NEW w \in Workers, WorkerOwned(h, w),
           worker'[h][w] = worker[h][w],
           queue[h][w] # <<>> => queue'[h][w] # <<>> /\ InWork(h, w)' = InWork(h, w)
    PROVE  WorkerOwned(h, w)'
  <1>1. worker[h][w].pc # "idle" => InWork(h, w)' = InWork(h, w)
    BY DEF WorkerOwned
  <1>2. CASE worker[h][w].pc = "idle"
    BY <1>2 DEF WorkerOwned
  <1>3. CASE worker[h][w].pc # "idle"
    <2>1. worker[h][w].pc \in {"insert", "update", "delete", "kill"} =>
              owner'[h][worker[h][w].pid] = owner[h][worker[h][w].pid]
      BY SidsAssumption DEF WorkerOwned, Kept
    <2> QED BY <1>1, <1>3, <2>1 DEF WorkerOwned
  <1> QED BY <1>2, <1>3

LEMMA WorkersStay ==
    ASSUME OwnedInv, Kept, UNCHANGED <<worker, queue>>
    PROVE  WorkersOwned'
  <1>1. ASSUME NEW h \in Hosts, NEW w \in Workers
        PROVE  WorkerOwned(h, w)'
    BY WorkerStays DEF OwnedInv, WorkersOwned, InWork
  <1> QED BY <1>1 DEF WorkersOwned

\* The schedule thread that does not move keeps what it holds.
LEMMA SchedStays ==
    ASSUME TypeInv, Kept, NEW h \in Hosts, SchedOwned(h), sched'[h] = sched[h]
    PROVE  SchedOwned(h)'
  <1>1. \A d \in sched[h].todo : owner'[d.host][d.pid] = d.sid
    <2>1. SUFFICES ASSUME NEW d \in sched[h].todo
                   PROVE  owner'[d.host][d.pid] = d.sid
      OBVIOUS
    <2>2. sched[h].todo \in SUBSET Docs BY DEF TypeInv, TypeOK
    <2>3. d.host \in Hosts /\ d.pid \in Pids /\ d.sid \in Sids BY <2>2 DEF Docs
    <2>4. owner[d.host][d.pid] = d.sid BY DEF SchedOwned
    <2> QED BY <2>3, <2>4, SidsAssumption DEF Kept
  <1> QED BY <1>1, SidsAssumption DEF SchedOwned, Kept

LEMMA SchedsStay ==
    ASSUME OwnedInv, Kept, UNCHANGED sched
    PROVE  SchedsOwned'
  BY SchedStays DEF OwnedInv, SchedsOwned

\* The records that stay in the cache keep their owner.
LEMMA RecordsStay ==
    ASSUME TypeInv, RecordsNameOwnStream, Kept, cache' \subseteq cache
    PROVE  RecordsNameOwnStream'
  <1>1. SUFFICES ASSUME NEW d \in cache'
                 PROVE  owner'[d.host][d.pid] = d.sid
    BY DEF RecordsNameOwnStream
  <1>2. d \in cache /\ d \in Docs BY DEF TypeInv, TypeOK
  <1>3. d.host \in Hosts /\ d.pid \in Pids /\ d.sid \in Sids BY <1>2 DEF Docs
  <1> QED BY <1>2, <1>3, SidsAssumption DEF Kept, RecordsNameOwnStream

-------------------------------------------------------------------------------
(* What a step changes *)

\* A new record names the process that was forked for its stream.
LEMMA RecordsAfterInsert ==
    ASSUME TypeInv, RecordsNameOwnStream, Kept, NEW r \in Docs,
           owner[r.host][r.pid] = r.sid, cache' \subseteq cache \cup {r}
    PROVE  RecordsNameOwnStream'
  <1>1. SUFFICES ASSUME NEW d \in cache'
                 PROVE  owner'[d.host][d.pid] = d.sid
    BY DEF RecordsNameOwnStream
  <1>2. d \in Docs /\ owner[d.host][d.pid] = d.sid
    BY DEF TypeInv, TypeOK, RecordsNameOwnStream
  <1>3. d.host \in Hosts /\ d.pid \in Pids /\ d.sid \in Sids BY <1>2 DEF Docs
  <1> QED BY <1>2, <1>3, SidsAssumption DEF Kept

\* update_process_info writes a pid of the stream into records of the stream.
\* This is where two machines on one cache would break the invariant.
LEMMA RecordsAfterUpdate ==
    ASSUME TypeInv, SingleHost, RecordsNameOwnStream, Kept, NEW h \in Hosts,
           NEW s \in Sids, NEW p \in Pids, owner[h][p] = s,
           cache' = UpdatePid(s, p) \/ cache' = cache
    PROVE  RecordsNameOwnStream'
  <1>1. CASE cache' = cache BY <1>1, RecordsStay
  <1>2. CASE cache' = UpdatePid(s, p)
    <2>1. SUFFICES ASSUME NEW d \in cache'
                   PROVE  owner'[d.host][d.pid] = d.sid
      BY DEF RecordsNameOwnStream
    <2>2. CASE d \in cache
      <3>1. d \in Docs BY <2>2 DEF TypeInv, TypeOK
      <3>2. d.host \in Hosts /\ d.pid \in Pids /\ d.sid \in Sids BY <3>1 DEF Docs
      <3> QED BY <2>2, <3>2, SidsAssumption DEF Kept, RecordsNameOwnStream
    <2>3. CASE d \notin cache
      <3>1. PICK e \in FindOne(BySid(cache, s)) : d = [e EXCEPT !.pid = p]
        BY <1>2, <2>3 DEF UpdatePid, SetPid
      <3>2. e \in cache /\ e.sid = s BY FindOneFromMatches DEF BySid
      <3>3. e \in Docs BY <3>2 DEF TypeInv, TypeOK
      <3>4. d.pid = p /\ d.sid = s /\ d.host = e.host /\ e.host \in Hosts
        BY <3>1, <3>2, <3>3 DEF Docs
      <3>5. d.host = h BY <3>4 DEF SingleHost
      <3> QED BY <3>4, <3>5, SidsAssumption DEF Kept
    <2> QED BY <2>2, <2>3
  <1> QED BY <1>1, <1>2

\* A handler that goes on holds a pid of the stream of its event.
LEMMA WorkersAfterGoto ==
    ASSUME OwnedInv, Kept, NEW h \in Hosts, NEW w \in Workers, NEW pc \in WorkerPcs,
           NEW p \in Pids \cup {NoPid}, Goto(h, w, pc, p), queue[h][w] # <<>>,
           pc = "refork" => InWork(h, w).sid \in Sids,
           pc \in {"insert", "update", "delete", "kill"} =>
               p \in Pids /\ InWork(h, w).sid \in Sids /\ owner'[h][p] = InWork(h, w).sid
    PROVE  WorkersOwned'
  <1>1. ASSUME NEW g \in Hosts, NEW v \in Workers
        PROVE  WorkerOwned(g, v)'
    <2>1. CASE g = h /\ v = w
      <3>1. worker'[g][v] = [pc |-> pc, pid |-> p]
        BY <2>1 DEF Goto, OwnedInv, TypeInv, TypeOK
      <3>2. queue' = queue /\ InWork(g, v)' = InWork(h, w) BY <2>1 DEF Goto, InWork
      <3> QED BY <2>1, <3>1, <3>2 DEF WorkerOwned
    <2>2. CASE ~(g = h /\ v = w)
      <3>1. worker'[g][v] = worker[g][v] BY <2>2 DEF Goto, OwnedInv, TypeInv, TypeOK
      <3>2. queue' = queue BY DEF Goto
      <3> QED BY <3>1, <3>2, WorkerStays DEF OwnedInv, WorkersOwned, InWork
    <2> QED BY <2>1, <2>2
  <1> QED BY <1>1 DEF WorkersOwned

LEMMA WorkersAfterDone ==
    ASSUME OwnedInv, Kept, NEW h \in Hosts, NEW w \in Workers, Done(h, w)
    PROVE  WorkersOwned'
  <1>1. ASSUME NEW g \in Hosts, NEW v \in Workers
        PROVE  WorkerOwned(g, v)'
    <2>1. CASE g = h /\ v = w
      <3>1. worker'[g][v] = IdleWorker BY <2>1 DEF Done, OwnedInv, TypeInv, TypeOK
      <3> QED BY <3>1 DEF WorkerOwned, IdleWorker
    <2>2. CASE ~(g = h /\ v = w)
      <3>1. worker'[g][v] = worker[g][v] BY <2>2 DEF Done, OwnedInv, TypeInv, TypeOK
      <3>2. queue'[g][v] = queue[g][v] BY <2>2 DEF Done, OwnedInv, TypeInv, TypeOK
      <3> QED BY <3>1, <3>2, WorkerStays DEF OwnedInv, WorkersOwned, InWork
    <2> QED BY <2>1, <2>2
  <1> QED BY <1>1 DEF WorkersOwned

\* The schedule thread goes on with records whose pids are of their streams.
LEMMA SchedsAfterProbe ==
    ASSUME OwnedInv, Kept, NEW h \in Hosts, NEW todo \in SUBSET Docs,
           NextProbe(h, todo),
           \A d \in todo : owner[d.host][d.pid] = d.sid
    PROVE  SchedsOwned'
  <1>1. ASSUME NEW g \in Hosts
        PROVE  SchedOwned(g)'
    <2>1. CASE g = h
      <3>1. sched'[g] = IF todo = {} THEN Asleep(h)
                        ELSE [Asleep(h) EXCEPT !.pc = "probe", !.todo = todo]
        BY <2>1 DEF NextProbe, OwnedInv, TypeInv, TypeOK
      <3>2. sched'[g].pc \in {"sleep", "probe"} /\ sched'[g].todo = todo
        BY <3>1 DEF Asleep
      <3>3. \A d \in todo : owner'[d.host][d.pid] = d.sid
        BY SidsAssumption DEF Kept, Docs
      <3> QED BY <3>2, <3>3 DEF SchedOwned
    <2>2. CASE g # h
      <3>1. sched'[g] = sched[g] BY <2>2 DEF NextProbe, OwnedInv, TypeInv, TypeOK
      <3> QED BY <3>1, SchedStays DEF OwnedInv, SchedsOwned
    <2> QED BY <2>1, <2>2
  <1> QED BY <1>1 DEF SchedsOwned

LEMMA SchedsAfterSkip ==
    ASSUME OwnedInv, Kept, NEW h \in Hosts, Skip(h)
    PROVE  SchedsOwned'
  <1>1. sched[h].todo \ Current(h) \in SUBSET Docs BY DEF OwnedInv, TypeInv, TypeOK
  <1>2. \A d \in sched[h].todo \ Current(h) : owner[d.host][d.pid] = d.sid
    BY DEF OwnedInv, SchedsOwned, SchedOwned
  <1> QED BY <1>1, <1>2, SchedsAfterProbe DEF Skip

\* The schedule thread updates its locals.
LEMMA SchedsAfterMove ==
    ASSUME OwnedInv, Kept, NEW h \in Hosts, NEW r \in SchedLocals,
           sched' = [sched EXCEPT ![h] = r],
           r.todo = sched[h].todo,
           r.pc \in {"lookup", "fork"} =>
               r.pid \in Pids /\ owner'[h][r.pid] \in Sids /\ r.pid \notin alive'[h],
           r.pc \in {"fork", "update"} => r.sid \in Sids,
           r.pc = "update" => r.pid \in Pids /\ owner'[h][r.pid] = r.sid
    PROVE  SchedsOwned'
  <1>1. ASSUME NEW g \in Hosts
        PROVE  SchedOwned(g)'
    <2>1. CASE g = h
      <3>1. sched'[g] = r BY <2>1 DEF OwnedInv, TypeInv, TypeOK
      <3>2. \A d \in r.todo : owner[d.host][d.pid] = d.sid
        BY DEF OwnedInv, SchedsOwned, SchedOwned
      <3>3. \A d \in r.todo : owner'[d.host][d.pid] = d.sid
        BY <3>2, SidsAssumption DEF Kept, Docs, SchedLocals
      <3> QED BY <2>1, <3>1, <3>3 DEF SchedOwned
    <2>2. CASE g # h
      <3>1. sched'[g] = sched[g] BY <2>2 DEF OwnedInv, TypeInv, TypeOK
      <3> QED BY <3>1, SchedStays DEF OwnedInv, SchedsOwned
    <2> QED BY <2>1, <2>2
  <1> QED BY <1>1 DEF SchedsOwned
-------------------------------------------------------------------------------
(* The invariant is inductive *)

LEMMA InitOwned == Init => OwnedInv
  <1> SUFFICES ASSUME Init PROVE OwnedInv
    OBVIOUS
  <1>1. TypeInv BY InitType
  <1>2. RecordsNameOwnStream BY DEF Init, RecordsNameOwnStream
  <1>3. WorkersOwned BY DEF Init, WorkersOwned, WorkerOwned, IdleWorker
  <1>4. SchedsOwned BY DEF Init, SchedsOwned, SchedOwned, Asleep
  <1> QED BY <1>1, <1>2, <1>3, <1>4 DEF OwnedInv

\* A server that dies forgets what it held.
LEMMA DieOwned ==
    ASSUME OwnedInv, Kept, NEW h \in Hosts, Die(h)
    PROVE  RecordsNameOwnStream' /\ WorkersOwned' /\ SchedsOwned'
  <1>1. RecordsNameOwnStream' BY RecordsStay DEF OwnedInv, Die
  <1>2. ASSUME NEW g \in Hosts, NEW w \in Workers
        PROVE  WorkerOwned(g, w)'
    <2>1. CASE g = h
      <3>1. worker'[g][w] = IdleWorker BY <2>1 DEF Die, OwnedInv, TypeInv, TypeOK
      <3> QED BY <3>1 DEF WorkerOwned, IdleWorker
    <2>2. CASE g # h
      <3>1. worker'[g] = worker[g] /\ queue'[g] = queue[g]
        BY <2>2 DEF Die, OwnedInv, TypeInv, TypeOK
      <3> QED BY <3>1, WorkerStays DEF OwnedInv, WorkersOwned, InWork
    <2> QED BY <2>1, <2>2
  <1>3. ASSUME NEW g \in Hosts
        PROVE  SchedOwned(g)'
    <2>1. CASE g = h
      <3>1. sched'[g] = Asleep(h) BY <2>1 DEF Die, OwnedInv, TypeInv, TypeOK
      <3> QED BY <3>1 DEF SchedOwned, Asleep
    <2>2. CASE g # h
      <3>1. sched'[g] = sched[g] BY <2>2 DEF Die, OwnedInv, TypeInv, TypeOK
      <3> QED BY <3>1, SchedStays DEF OwnedInv, SchedsOwned
    <2> QED BY <2>1, <2>2
  <1> QED BY <1>1, <1>2, <1>3 DEF WorkersOwned, SchedsOwned

\* spawn_process.
LEMMA CreateOwned ==
    ASSUME SingleHost, OwnedInv, Kept, NEW h \in Hosts, NEW w \in Workers,
           SpawnCheck(h, w) \/ SpawnFork(h, w) \/ SpawnInsert(h, w)
    PROVE  RecordsNameOwnStream' /\ WorkersOwned' /\ SchedsOwned'
  <1>t. TypeInv /\ RecordsNameOwnStream BY DEF OwnedInv
  <1>q. queue[h][w] # <<>> /\ InWork(h, w).type = "create"
    BY DEF SpawnCheck, SpawnFork, SpawnInsert, At
  <1>s. InWork(h, w).sid \in Sids BY <1>t, <1>q, InWorkType DEF Events
  <1>1. CASE SpawnCheck(h, w)
    <2>1. Goto(h, w, "fork", NoPid) \/ Done(h, w) BY <1>1 DEF SpawnCheck
    <2>2. WorkersOwned' BY <2>1, <1>q, WorkersAfterGoto, WorkersAfterDone DEF WorkerPcs
    <2> QED BY <2>2, <1>1, <1>t, RecordsStay, SchedsStay DEF SpawnCheck
  <1>2. CASE SpawnFork(h, w)
    <2>1. CASE \E p \in Pids : NewProcess(h, p, InWork(h, w).sid)
                               /\ Goto(h, w, "insert", p)
      <3>1. PICK p \in Pids : NewProcess(h, p, InWork(h, w).sid) /\ Goto(h, w, "insert", p)
        BY <2>1
      <3>2. owner'[h][p] = InWork(h, w).sid
        BY <3>1, <1>t DEF NewProcess, TypeInv, TypeOK
      <3> QED BY <3>1, <3>2, <1>q, <1>s, WorkersAfterGoto, <1>2, <1>t, RecordsStay, SchedsStay
              DEF SpawnFork, WorkerPcs
    <2>2. CASE Done(h, w)
      BY <2>2, WorkersAfterDone, <1>2, <1>t, RecordsStay, SchedsStay DEF SpawnFork
    <2> QED BY <1>2, <2>1, <2>2 DEF SpawnFork
  <1>3. CASE SpawnInsert(h, w)
    <2>1. worker[h][w].pc = "insert" BY <1>3 DEF SpawnInsert, At
    <2>2. worker[h][w].pid \in Pids /\ owner[h][worker[h][w].pid] = InWork(h, w).sid
      BY <2>1 DEF OwnedInv, WorkersOwned, WorkerOwned
    <2>3. nextId \in Nat BY <1>t DEF TypeInv, TypeOK
    <2>4. NewRecord(h, w) \in Docs BY <1>s, <2>2, <2>3 DEF NewRecord, Docs
    <2>5. owner[NewRecord(h, w).host][NewRecord(h, w).pid] = NewRecord(h, w).sid
      BY <2>2 DEF NewRecord
    <2>6. cache' \subseteq cache \cup {NewRecord(h, w)}
      BY <1>3 DEF SpawnInsert, DbWrite, Insert
    <2>7. RecordsNameOwnStream' BY <1>t, <2>4, <2>5, <2>6, RecordsAfterInsert
    <2> QED BY <2>7, <1>3, WorkersAfterDone, SchedsStay DEF SpawnInsert
  <1> QED BY <1>1, <1>2, <1>3

\* remove_process.
LEMMA RemoveOwned ==
    ASSUME SingleHost, OwnedInv, Kept, NEW h \in Hosts, NEW w \in Workers,
           RemoveFind(h, w) \/ RemoveDelete(h, w) \/ RemoveKill(h, w)
    PROVE  RecordsNameOwnStream' /\ WorkersOwned' /\ SchedsOwned'
  <1>t. TypeInv /\ RecordsNameOwnStream BY DEF OwnedInv
  <1>q. queue[h][w] # <<>> /\ InWork(h, w).type = "remove"
    BY DEF RemoveFind, RemoveDelete, RemoveKill, At
  <1>s. InWork(h, w).sid \in Sids BY <1>t, <1>q, InWorkType DEF Events
  <1>1. CASE RemoveFind(h, w)
    <2>1. PICK found \in SUBSET cache :
             /\ DbFind(BySid(cache, InWork(h, w).sid), found)
             /\ \/ found = {} /\ Done(h, w)
                \/ \E d \in found : Goto(h, w, "delete", d.pid)
      BY <1>1 DEF RemoveFind
    <2>2. ASSUME NEW d \in found, Goto(h, w, "delete", d.pid)
          PROVE  WorkersOwned'
      <3>1. d \in cache /\ d.sid = InWork(h, w).sid
        BY <2>1, FoundFromMatches DEF BySid
      <3>2. d \in Docs BY <3>1, <1>t DEF TypeInv, TypeOK
      <3>3. d.pid \in Pids /\ d.host = h BY <3>2 DEF Docs, SingleHost
      <3>4. owner[h][d.pid] = InWork(h, w).sid BY <3>1, <3>3, <1>t DEF RecordsNameOwnStream
      <3>5. owner'[h][d.pid] = InWork(h, w).sid
        BY <3>3, <3>4, <1>s, SidsAssumption DEF Kept
      <3> QED BY <2>2, <3>3, <3>5, <1>q, <1>s, WorkersAfterGoto DEF WorkerPcs
    <2>3. WorkersOwned' BY <2>1, <2>2, WorkersAfterDone
    <2> QED BY <2>3, <1>1, <1>t, RecordsStay, SchedsStay DEF RemoveFind
  <1>2. CASE RemoveDelete(h, w)
    <2>1. worker[h][w].pc = "delete" BY <1>2 DEF RemoveDelete, At
    <2>2. worker[h][w].pid \in Pids /\ owner[h][worker[h][w].pid] = InWork(h, w).sid
      BY <2>1 DEF OwnedInv, WorkersOwned, WorkerOwned
    <2>3. owner' = owner /\ Goto(h, w, "kill", worker[h][w].pid) BY <1>2 DEF RemoveDelete
    <2>4. WorkersOwned' BY <2>2, <2>3, <1>q, <1>s, WorkersAfterGoto DEF WorkerPcs
    <2>5. cache' \subseteq cache BY <1>2, RemoveSingleSubset DEF RemoveDelete, DbWrite
    <2> QED BY <2>4, <2>5, <1>2, <1>t, RecordsStay, SchedsStay DEF RemoveDelete
  <1>3. CASE RemoveKill(h, w)
    BY <1>3, <1>t, WorkersAfterDone, RecordsStay, SchedsStay DEF RemoveKill
  <1> QED BY <1>1, <1>2, <1>3

\* process_reload.
LEMMA ReloadOwned ==
    ASSUME SingleHost, OwnedInv, Kept, NEW h \in Hosts, NEW w \in Workers,
           ReloadFind(h, w) \/ ReloadFork(h, w) \/ ReloadUpdate(h, w)
    PROVE  RecordsNameOwnStream' /\ WorkersOwned' /\ SchedsOwned'
  <1>t. TypeInv /\ RecordsNameOwnStream BY DEF OwnedInv
  <1>q. queue[h][w] # <<>> BY DEF ReloadFind, ReloadFork, ReloadUpdate, At
  <1>1. CASE ReloadFind(h, w)
    <2>1. PICK found \in SUBSET cache :
             /\ DbFind(BySid(cache, InWork(h, w).sid), found)
             /\ IF found = {} THEN Done(h, w) ELSE Goto(h, w, "refork", NoPid)
      BY <1>1 DEF ReloadFind
    <2>2. CASE found # {}
      <3>1. PICK d \in found : TRUE BY <2>2
      <3>2. d \in cache /\ d.sid = InWork(h, w).sid BY <2>1, FoundFromMatches DEF BySid
      <3>3. InWork(h, w).sid \in Sids BY <3>2, <1>t DEF TypeInv, TypeOK, Docs
      <3> QED BY <2>1, <2>2, <3>3, <1>q, WorkersAfterGoto, <1>1, <1>t, RecordsStay, SchedsStay
              DEF ReloadFind, WorkerPcs
    <2>3. CASE found = {}
      BY <2>1, <2>3, WorkersAfterDone, <1>1, <1>t, RecordsStay, SchedsStay DEF ReloadFind
    <2> QED BY <2>2, <2>3
  <1>2. CASE ReloadFork(h, w)
    <2>s. InWork(h, w).sid \in Sids
      BY <1>2 DEF ReloadFork, At, OwnedInv, WorkersOwned, WorkerOwned
    <2>1. CASE \E p \in Pids : NewProcess(h, p, InWork(h, w).sid)
                               /\ Goto(h, w, "update", p)
      <3>1. PICK p \in Pids : NewProcess(h, p, InWork(h, w).sid) /\ Goto(h, w, "update", p)
        BY <2>1
      <3>2. owner'[h][p] = InWork(h, w).sid
        BY <3>1, <1>t DEF NewProcess, TypeInv, TypeOK
      <3> QED BY <3>1, <3>2, <1>q, <2>s, WorkersAfterGoto, <1>2, <1>t, RecordsStay, SchedsStay
              DEF ReloadFork, WorkerPcs
    <2>2. CASE Done(h, w)
      BY <2>2, WorkersAfterDone, <1>2, <1>t, RecordsStay, SchedsStay DEF ReloadFork
    <2> QED BY <1>2, <2>1, <2>2 DEF ReloadFork
  <1>3. CASE ReloadUpdate(h, w)
    <2>1. worker[h][w].pc = "update" BY <1>3 DEF ReloadUpdate, At
    <2>2. /\ worker[h][w].pid \in Pids
          /\ InWork(h, w).sid \in Sids
          /\ owner[h][worker[h][w].pid] = InWork(h, w).sid
      BY <2>1 DEF OwnedInv, WorkersOwned, WorkerOwned
    <2>3. RecordsNameOwnStream'
      BY <2>2, <1>3, <1>t, RecordsAfterUpdate DEF ReloadUpdate, DbWrite
    <2> QED BY <2>3, <1>3, WorkersAfterDone, SchedsStay DEF ReloadUpdate
  <1> QED BY <1>1, <1>2, <1>3

\* process_alive_detect.  Between the probe and the fork nobody can revive the
\* process that did not answer, so the answer is as good as new.
LEMMA SchedOwnedStep ==
    ASSUME SingleHost, OwnedInv, Kept, NEW h \in Hosts, SchedStep(h)
    PROVE  RecordsNameOwnStream' /\ WorkersOwned' /\ SchedsOwned'
  <1>t. TypeInv /\ RecordsNameOwnStream BY DEF OwnedInv
  <1>r. sched[h] \in SchedLocals BY <1>t DEF TypeInv, TypeOK, SchedLocals
  <1>o. SchedOwned(h) BY DEF OwnedInv, SchedsOwned
  <1>1. CASE SchedScan(h)
    <2>1. PICK docs \in SUBSET cache : NextProbe(h, docs) BY <1>1 DEF SchedScan
    <2>2. /\ docs \in SUBSET Docs
          /\ \A d \in docs : owner[d.host][d.pid] = d.sid
      BY <1>t DEF TypeInv, TypeOK, RecordsNameOwnStream
    <2> QED
      BY <2>1, <2>2, SchedsAfterProbe, <1>1, <1>t, RecordsStay, WorkersStay DEF SchedScan
  <1>2. CASE SchedProbe(h)
    <2>0. UNCHANGED <<cache, owner, alive, queue, worker>> BY <1>2 DEF SchedProbe
    <2>1. PICK d \in Current(h) :
             IF check_system_process_exist(h, d.pid)
             THEN NextProbe(h, sched[h].todo \ {d})
             ELSE sched' = [sched EXCEPT ![h] = [@ EXCEPT !.pc = "lookup", !.pid = d.pid]]
      BY <1>2 DEF SchedProbe
    <2>2. d \in sched[h].todo BY FindOneFromMatches DEF Current
    <2>3. d \in Docs BY <2>2, <1>r DEF SchedLocals
    <2>4. d.pid \in Pids /\ d.sid \in Sids /\ d.host = h BY <2>3 DEF Docs, SingleHost
    <2>5. owner[h][d.pid] = d.sid BY <2>2, <2>4, <1>o DEF SchedOwned
    <2>6. CASE check_system_process_exist(h, d.pid)
      <3>1. sched[h].todo \ {d} \in SUBSET Docs BY <1>r DEF SchedLocals
      <3>2. \A e \in sched[h].todo \ {d} : owner[e.host][e.pid] = e.sid
        BY <1>o DEF SchedOwned
      <3>3. SchedsOwned' BY <2>1, <2>6, <3>1, <3>2, SchedsAfterProbe
      <3> QED BY <3>3, <2>0, <1>t, RecordsStay, WorkersStay
    <2>7. CASE ~check_system_process_exist(h, d.pid)
      <3> DEFINE r == [sched[h] EXCEPT !.pc = "lookup", !.pid = d.pid]
      <3>1. "lookup" \in SchedPcs BY DEF SchedPcs
      <3>2. r \in SchedLocals /\ r.pc = "lookup" /\ r.pid = d.pid /\ r.todo = sched[h].todo
        BY <1>r, <2>4, <3>1 DEF SchedLocals
      <3>3. sched' = [sched EXCEPT ![h] = r] BY <2>1, <2>7
      <3>4. d.pid \notin alive'[h] BY <2>0, <2>7 DEF check_system_process_exist
      <3>5. owner'[h][d.pid] \in Sids BY <2>0, <2>4, <2>5
      <3> HIDE DEF r
      <3>6. SchedsOwned' BY <2>4, <3>2, <3>3, <3>4, <3>5, SchedsAfterMove
      <3> QED BY <3>6, <2>0, <1>t, RecordsStay, WorkersStay
    <2> QED BY <2>6, <2>7
  <1>3. CASE SchedLookup(h)
    <2>0. UNCHANGED <<cache, owner, alive, queue, worker>> BY <1>3 DEF SchedLookup
    <2>1. PICK found \in SUBSET cache :
             /\ DbFind(Recheck(h), found)
             /\ \/ found = {} /\ Skip(h)
                \/ \E d \in found :
                      sched' = [sched EXCEPT ![h] =
                        [@ EXCEPT !.pc = "fork", !.sid = d.sid, !.pid = d.pid,
                                  !.host = d.host]]
      BY <1>3 DEF SchedLookup
    <2>2. CASE Skip(h)
      BY <2>2, <2>0, <1>t, SchedsAfterSkip, RecordsStay, WorkersStay
    <2>3. ASSUME NEW d \in found,
                 sched' = [sched EXCEPT ![h] =
                    [@ EXCEPT !.pc = "fork", !.sid = d.sid, !.pid = d.pid, !.host = d.host]]
          PROVE  SchedsOwned'
      <3>1. d \in cache /\ d.pid = sched[h].pid
        BY <2>1, FoundFromMatches DEF Recheck, ByPid
      <3>2. d \in Docs BY <3>1, <1>t DEF TypeInv, TypeOK
      <3>3. d.pid \in Pids /\ d.sid \in Sids /\ d.host \in Hosts BY <3>2 DEF Docs
      <3>4. sched[h].pc = "lookup" BY <1>3 DEF SchedLookup, SchedAt
      <3>5. owner'[h][d.pid] \in Sids /\ d.pid \notin alive'[h]
        BY <3>1, <3>4, <1>o, <2>0 DEF SchedOwned
      <3> DEFINE r == [sched[h] EXCEPT !.pc = "fork", !.sid = d.sid, !.pid = d.pid,
                                       !.host = d.host]
      <3>6. "fork" \in SchedPcs BY DEF SchedPcs
      <3>7. /\ r \in SchedLocals /\ r.pc = "fork" /\ r.pid = d.pid /\ r.sid = d.sid
            /\ r.todo = sched[h].todo
        BY <1>r, <3>3, <3>6 DEF SchedLocals
      <3>8. sched' = [sched EXCEPT ![h] = r] BY <2>3
      <3> HIDE DEF r
      <3> QED BY <3>3, <3>5, <3>7, <3>8, SchedsAfterMove
    <2> QED BY <2>0, <2>1, <2>2, <2>3, <1>t, RecordsStay, WorkersStay
  <1>4. CASE SchedFork(h)
    <2>0. UNCHANGED <<cache, queue, worker>> BY <1>4 DEF SchedFork
    <2>1. sched[h].sid \in Sids BY <1>4, <1>o DEF SchedFork, SchedAt, SchedOwned
    <2>2. ASSUME NEW p \in Pids, NewProcess(h, p, sched[h].sid),
                 sched' = [sched EXCEPT ![h] = [@ EXCEPT !.pc = "update", !.pid = p]]
          PROVE  SchedsOwned'
      <3>1. owner'[h][p] = sched[h].sid BY <2>2, <1>t DEF NewProcess, TypeInv, TypeOK
      <3> DEFINE r == [sched[h] EXCEPT !.pc = "update", !.pid = p]
      <3>2. "update" \in SchedPcs BY DEF SchedPcs
      <3>3. /\ r \in SchedLocals /\ r.pc = "update" /\ r.pid = p /\ r.sid = sched[h].sid
            /\ r.todo = sched[h].todo
        BY <1>r, <3>2 DEF SchedLocals
      <3>4. sched' = [sched EXCEPT ![h] = r] BY <2>2
      <3> HIDE DEF r
      <3> QED BY <2>1, <3>1, <3>3, <3>4, SchedsAfterMove
    <2>3. ASSUME Skip(h) PROVE SchedsOwned' BY <2>3, SchedsAfterSkip
    <2>4. SchedsOwned' BY <1>4, <2>2, <2>3 DEF SchedFork
    <2> QED BY <2>0, <2>4, <1>t, RecordsStay, WorkersStay
  <1>5. CASE SchedUpdate(h)
    <2>1. sched[h].pc = "update" BY <1>5 DEF SchedUpdate, SchedAt
    <2>2. sched[h].pid \in Pids /\ sched[h].sid \in Sids /\ owner[h][sched[h].pid] = sched[h].sid
      BY <2>1, <1>o DEF SchedOwned
    <2>3. RecordsNameOwnStream'
      BY <2>2, <1>5, <1>t, RecordsAfterUpdate DEF SchedUpdate, DbWrite
    <2> QED BY <2>3, <1>5, SchedsAfterSkip, WorkersStay DEF SchedUpdate
  <1> QED BY <1>1, <1>2, <1>3, <1>4, <1>5 DEF SchedStep

LEMMA NextOwned ==
    ASSUME SingleHost, ~PidReuse
    PROVE  OwnedInv /\ [Next]_vars => OwnedInv'
  <1> SUFFICES ASSUME OwnedInv, [Next]_vars PROVE OwnedInv'
    OBVIOUS
  <1>t. TypeInv /\ RecordsNameOwnStream BY DEF OwnedInv
  <1>k. TypeInv' /\ Kept BY <1>t, NextType, NextKeeps
  <1>1. CASE UNCHANGED vars
    BY <1>1, <1>k, <1>t, RecordsStay, WorkersStay, SchedsStay DEF vars, OwnedInv
  <1>2. ASSUME NEW h \in Hosts, HostStep(h)
        PROVE  RecordsNameOwnStream' /\ WorkersOwned' /\ SchedsOwned'
    <2>1. ASSUME NEW ev \in Events, put_data(h, ev)
          PROVE  WorkersOwned'
      <3>1. ASSUME NEW g \in Hosts, NEW w \in Workers
            PROVE  WorkerOwned(g, w)'
        <4>1. index[h] \in Workers /\ queue[g][w] \in Seq(Events)
          BY <1>t DEF TypeInv, TypeOK
        <4>2. queue'[g][w] = queue[g][w] \/ queue'[g][w] = Append(queue[g][w], ev)
          BY <2>1, <4>1, <1>t DEF put_data, TypeInv, TypeOK
        <4>3. queue[g][w] # <<>> => queue'[g][w] # <<>> /\ InWork(g, w)' = InWork(g, w)
          BY <4>1, <4>2 DEF InWork
        <4>4. worker'[g][w] = worker[g][w] BY <2>1 DEF put_data
        <4> QED BY <4>3, <4>4, <1>k, <1>t, WorkerStays DEF OwnedInv, WorkersOwned
      <3> QED BY <3>1 DEF WorkersOwned
    <2>2. CASE \E ev \in Events : put_data(h, ev)
      BY <2>1, <2>2, <1>k, <1>t, RecordsStay, SchedsStay DEF put_data
    <2>3. ASSUME NEW w \in Workers, WorkerStep(h, w)
          PROVE  RecordsNameOwnStream' /\ WorkersOwned' /\ SchedsOwned'
      BY <2>3, <1>k, CreateOwned, RemoveOwned, ReloadOwned, DieOwned
         DEF WorkerStep, WorkerAbort
    <2>4. CASE SchedStep(h) BY <2>4, <1>k, SchedOwnedStep
    <2>5. ASSUME NEW p \in Pids, ProcessExit(h, p) \/ ForeignStart(h, p)
          PROVE  RecordsNameOwnStream' /\ WorkersOwned' /\ SchedsOwned'
      BY <2>5, <1>k, <1>t, RecordsStay, WorkersStay, SchedsStay DEF ProcessExit, ForeignStart
    <2>6. CASE Crash(h) BY <2>6, <1>k, DieOwned DEF Crash
    <2>7. CASE Restart(h)
      BY <2>7, <1>k, <1>t, RecordsStay, WorkersStay, SchedsStay DEF Restart
    <2> QED BY <1>2, <2>2, <2>3, <2>4, <2>5, <2>6, <2>7 DEF HostStep
  <1> QED BY <1>1, <1>2, <1>k DEF Next, OwnedInv

-------------------------------------------------------------------------------
(* Theorems *)

\* The invariant holds in every reachable state.
LEMMA OwnedInvariant ==
    ASSUME SingleHost, ~PidReuse
    PROVE  Spec => []OwnedInv
  BY InitOwned, NextOwned, PTL DEF Spec

\* A record never names another stream's process, whatever the inserts and the
\* updates of workers and scheduler interleave with.
THEOREM RecordsCorrect ==
    ASSUME SingleHost, ~PidReuse
    PROVE  Spec => []RecordsNameOwnStream
  <1>1. OwnedInv => RecordsNameOwnStream BY DEF OwnedInv
  <1> QED BY <1>1, OwnedInvariant, PTL

\* remove_process kills a process of the stream it was asked to stop, although it
\* read the pid two calls before and the record may have changed since.
THEOREM StopCorrect ==
    ASSUME SingleHost, ~PidReuse
    PROVE  Spec => []StopKillsOwnStream
  <1>1. OwnedInv => StopKillsOwnStream
    BY DEF OwnedInv, WorkersOwned, WorkerOwned, StopKillsOwnStream
  <1> QED BY <1>1, OwnedInvariant, PTL

\* process_alive_detect forks for a record only when the process it named is gone,
\* although it looked at the process two calls before.
THEOREM RespawnCorrect ==
    ASSUME SingleHost, ~PidReuse
    PROVE  Spec => []RespawnOnlyExited
  <1>1. OwnedInv => RespawnOnlyExited
    <2>1. SUFFICES ASSUME OwnedInv, NEW h \in Hosts, sched[h].pc = "fork"
                   PROVE  sched[h].pid \notin alive[sched[h].host]
      BY DEF RespawnOnlyExited
    <2>2. sched[h].pid \notin alive[h] BY <2>1 DEF OwnedInv, SchedsOwned, SchedOwned
    <2>3. sched[h].host \in Hosts BY <2>1 DEF OwnedInv, TypeInv, TypeOK
    <2> QED BY <2>2, <2>3 DEF SingleHost
  <1> QED BY <1>1, OwnedInvariant, PTL
-------------------------------------------------------------------------------
(* Nothing is lost while nothing but starts and one stop happens *)

\* Nothing but starts, failing forks, foreign processes and one stop has happened.
Calm ==
    /\ Untouched({"reload", "terminate", "exit", "crash", "db"})
    /\ budget["remove"] + 1 >= Budget["remove"]

BudgetShrinks == \A k \in EventTypes \cup Faults : budget[k] <= Budget[k]

\* The events of such a run; one worker at most has a stop to handle, and none before
\* the first stop is sent.
HasStop(h, w) == \E i \in DOMAIN queue[h][w] : queue[h][w][i].type = "remove"
EventsTidy ==
    \A h \in Hosts, w \in Workers :
        /\ \A i \in DOMAIN queue[h][w] : queue[h][w][i].type \in {"create", "remove"}
        /\ HasStop(h, w) =>
              /\ budget["remove"] < Budget["remove"]
              /\ \A v \in Workers : HasStop(h, v) => v = w

\* Where its threads can be: no handler of a reload, no respawn.
PlacesTidy ==
    /\ \A h \in Hosts, w \in Workers :
          /\ worker[h][w].pc \in {"idle", "fork", "insert", "delete", "kill"}
          /\ worker[h][w].pc \in {"delete", "kill"} => InWork(h, w).type = "remove"
    /\ \A h \in Hosts : sched[h].pc \in {"sleep", "probe", "lookup"}

\* Records are told apart by their ids and by their pids, and name running processes.
RecordsTidy ==
    /\ \A d \in cache : d.id < nextId /\ d.pid \in alive[d.host]
    /\ \A d, e \in cache : d.id = e.id \/ d.pid = e.pid => d = e

\* A worker at its insert or its kill holds a running process that no record and no
\* other such worker has.
Holds(h, w, p) == worker[h][w].pc \in {"insert", "kill"} /\ worker[h][w].pid = p
HeldTidy ==
    \A h \in Hosts, w \in Workers, p \in Pids : Holds(h, w, p) =>
        /\ p \in alive[h]
        /\ \A d \in cache : d.pid # p
        /\ \A v \in Workers : Holds(h, v, p) => v = w

\* The record that a stop is about to remove is the one whose pid it has read: the
\* first of its stream.
IsFirst(d, matching) == d \in matching /\ \A e \in matching : d.id <= e.id
DeleteTidy ==
    \A h \in Hosts, w \in Workers : worker[h][w].pc = "delete" =>
        \E d \in cache : /\ d.pid = worker[h][w].pid
                         /\ IsFirst(d, BySid(cache, InWork(h, w).sid))

\* A running ffmpeg is in a record or in the hands of a worker.
NoneLost ==
    \A h \in Hosts, p \in Pids : p \in alive[h] /\ owner[h][p] \in Sids =>
        Recorded(h, p) \/ \E w \in Workers : Holds(h, w, p)

HandsTidy == RecordsTidy /\ HeldTidy /\ DeleteTidy /\ NoneLost
Tidy == EventsTidy /\ PlacesTidy /\ HandsTidy

CalmInv == BudgetShrinks /\ (Calm => Tidy)

-------------------------------------------------------------------------------
(* The budget *)

\* Every step draws on the budget once at most.
LEMMA NextSpends ==
    ASSUME [Next]_vars
    PROVE  UNCHANGED budget \/ \E k \in EventTypes \cup Faults : Spend(k)
  <1>1. CASE UNCHANGED vars BY <1>1 DEF vars
  <1>2. ASSUME NEW h \in Hosts, HostStep(h)
        PROVE  UNCHANGED budget \/ \E k \in EventTypes \cup Faults : Spend(k)
    <2>1. ASSUME NEW ev \in Events, put_data(h, ev)
          PROVE  \E k \in EventTypes \cup Faults : Spend(k)
      BY <2>1 DEF put_data, Events, EventTypes
    <2>2. {"db", "fork", "exit", "foreign", "crash"} \subseteq EventTypes \cup Faults
      BY DEF Faults
    <2>3. \A S, found : DbFind(S, found) => UNCHANGED budget \/ Spend("db") BY DEF DbFind
    <2>4. \A new : DbWrite(new) => UNCHANGED budget \/ Spend("db") BY DEF DbWrite
    <2>5. ASSUME NEW w \in Workers, WorkerStep(h, w)
          PROVE  UNCHANGED budget \/ Spend("db") \/ Spend("fork")
      <3>1. CASE SpawnCheck(h, w) BY <2>3, <3>1 DEF SpawnCheck
      <3>2. CASE SpawnFork(h, w) BY <3>2 DEF SpawnFork, ForkFails
      <3>3. CASE SpawnInsert(h, w) BY <2>4, <3>3 DEF SpawnInsert
      <3>4. CASE RemoveFind(h, w) BY <2>3, <3>4 DEF RemoveFind
      <3>5. CASE RemoveDelete(h, w) BY <2>4, <3>5 DEF RemoveDelete
      <3>6. CASE RemoveKill(h, w) \/ WorkerAbort(h, w) BY <3>6 DEF RemoveKill, WorkerAbort
      <3>7. CASE ReloadFind(h, w) BY <2>3, <3>7 DEF ReloadFind
      <3>8. CASE ReloadFork(h, w) BY <3>8 DEF ReloadFork, ForkFails
      <3>9. CASE ReloadUpdate(h, w) BY <2>4, <3>9 DEF ReloadUpdate
      <3> QED BY <2>5, <3>1, <3>2, <3>3, <3>4, <3>5, <3>6, <3>7, <3>8, <3>9 DEF WorkerStep
    <2>6. ASSUME SchedStep(h)
          PROVE  UNCHANGED budget \/ Spend("db") \/ Spend("fork")
      <3>1. CASE SchedScan(h) BY <3>1 DEF SchedScan
      <3>2. CASE SchedProbe(h) BY <3>2 DEF SchedProbe
      <3>3. CASE SchedLookup(h) BY <2>3, <3>3 DEF SchedLookup
      <3>4. CASE SchedFork(h) BY <3>4 DEF SchedFork, ForkFails
      <3>5. CASE SchedUpdate(h) BY <2>4, <3>5 DEF SchedUpdate
      <3> QED BY <2>6, <3>1, <3>2, <3>3, <3>4, <3>5 DEF SchedStep
    <2>7. ASSUME NEW p \in Pids, ProcessExit(h, p) \/ ForeignStart(h, p)
          PROVE  Spend("exit") \/ Spend("foreign")
      BY <2>7 DEF ProcessExit, ForeignStart
    <2>8. Crash(h) => Spend("crash") BY DEF Crash
    <2>9. Restart(h) => UNCHANGED budget BY DEF Restart
    <2> QED BY <1>2, <2>1, <2>2, <2>5, <2>6, <2>7, <2>8, <2>9 DEF HostStep
  <1> QED BY <1>1, <1>2 DEF Next

\* A run that is calm after a step was calm before it, and the step drew on nothing
\* that a calm run leaves alone.
LEMMA CalmBefore ==
    ASSUME TypeInv, BudgetShrinks, [Next]_vars
    PROVE  /\ BudgetShrinks'
           /\ budget["remove"] \in Int /\ Budget["remove"] \in Int
           /\ budget'["remove"] \in Int /\ budget'["remove"] <= budget["remove"]
           /\ Calm' => /\ Calm
                       /\ \A k \in {"reload", "terminate", "exit", "crash", "db"} : ~Spend(k)
                       /\ Spend("remove") => /\ budget["remove"] = Budget["remove"]
                                             /\ budget'["remove"] < Budget["remove"]
  <1> DEFINE K == EventTypes \cup Faults
             Quiet == {"reload", "terminate", "exit", "crash", "db"}
  <1>1. budget \in [K -> Nat] /\ Budget \in [K -> Nat]
    BY BudgetAssumption DEF TypeInv, TypeOK
  <1>2. Quiet \subseteq K /\ "remove" \in K BY DEF EventTypes, Faults
  <1>3. ASSUME NEW k \in K, Spend(k)
        PROVE  /\ budget'[k] = budget[k] - 1
               /\ \A j \in K : j # k => budget'[j] = budget[j]
    BY <1>1, <1>3 DEF Spend
  <1> HIDE DEF K
  <1>4. \A j \in K : budget[j] \in Int /\ Budget[j] \in Int BY <1>1
  <1>5. \A j \in K : budget'[j] \in Int /\ budget'[j] <= budget[j]
    <2>1. CASE UNCHANGED budget BY <1>4, <2>1
    <2>2. ASSUME NEW k \in K, Spend(k)
          PROVE  \A j \in K : budget'[j] \in Int /\ budget'[j] <= budget[j]
      <3>1. budget'[k] \in Int /\ budget'[k] <= budget[k] BY <1>3, <1>4, <2>2
      <3> QED BY <1>3, <1>4, <2>2, <3>1
    <2> QED BY <2>1, <2>2, NextSpends DEF K
  <1>6. \A j \in K : budget[j] <= Budget[j] BY DEF BudgetShrinks, K
  <1>7. BudgetShrinks' BY <1>4, <1>5, <1>6 DEF BudgetShrinks, K
  <1>8. ASSUME Calm'
        PROVE  /\ Calm
               /\ \A k \in Quiet : ~Spend(k)
               /\ Spend("remove") => /\ budget["remove"] = Budget["remove"]
                                     /\ budget'["remove"] < Budget["remove"]
    <2>1. \A k \in Quiet : budget'[k] = Budget[k] BY <1>8 DEF Calm, Untouched
    <2>2. \A k \in Quiet : budget[k] = Budget[k] BY <1>2, <1>4, <1>5, <1>6, <2>1
    <2>3. budget'["remove"] + 1 >= Budget["remove"] BY <1>8 DEF Calm
    <2>4. budget["remove"] + 1 >= Budget["remove"] BY <1>2, <1>4, <1>5, <2>3
    <2>5. Calm BY <2>2, <2>4 DEF Calm, Untouched
    <2>6. ASSUME NEW k \in Quiet, Spend(k) PROVE FALSE
      <3>1. k \in K /\ budget'[k] = budget[k] - 1 BY <1>2, <1>3, <2>6
      <3> QED BY <1>4, <2>1, <2>2, <3>1
    <2>7. ASSUME Spend("remove")
          PROVE  budget["remove"] = Budget["remove"] /\ budget'["remove"] < Budget["remove"]
      <3>1. budget'["remove"] = budget["remove"] - 1 BY <1>2, <1>3, <2>7
      <3> QED BY <1>2, <1>4, <1>6, <2>3, <3>1
    <2> QED BY <2>5, <2>6, <2>7
  <1> QED BY <1>2, <1>4, <1>5, <1>7, <1>8

-------------------------------------------------------------------------------
(* How a step changes the workers and their queues *)

\* Goto and Done leave the other workers and their queues as they were.
LEMMA GotoMoves ==
    ASSUME TypeInv, NEW h \in Hosts, NEW w \in Workers, NEW pc, NEW p, Goto(h, w, pc, p)
    PROVE  /\ queue' = queue
           /\ worker'[h][w].pc = pc /\ worker'[h][w].pid = p
           /\ \A g \in Hosts, v \in Workers :
                 ~(g = h /\ v = w) => worker'[g][v] = worker[g][v]
  BY DEF Goto, TypeInv, TypeOK

LEMMA DoneMoves ==
    ASSUME TypeInv, NEW h \in Hosts, NEW w \in Workers, Done(h, w)
    PROVE  /\ worker'[h][w].pc = "idle"
           /\ queue'[h][w] = Tail(queue[h][w])
           /\ \A g \in Hosts, v \in Workers : ~(g = h /\ v = w) =>
                 worker'[g][v] = worker[g][v] /\ queue'[g][v] = queue[g][v]
  BY DEF Done, TypeInv, TypeOK, IdleWorker

\* A queue that holds events it held before keeps EventsTidy.
LEMMA EventsKept ==
    ASSUME EventsTidy,
           budget["remove"] \in Int, Budget["remove"] \in Int, budget'["remove"] \in Int,
           budget'["remove"] <= budget["remove"],
           \A h \in Hosts, w \in Workers : \A i \in DOMAIN queue'[h][w] :
               \E j \in DOMAIN queue[h][w] : queue'[h][w][i] = queue[h][w][j]
    PROVE  EventsTidy'
  <1>1. \A h \in Hosts, w \in Workers : HasStop(h, w)' => HasStop(h, w) BY DEF HasStop
  <1>2. ASSUME NEW h \in Hosts, NEW w \in Workers
        PROVE  \A i \in DOMAIN queue'[h][w] : queue'[h][w][i].type \in {"create", "remove"}
    BY DEF EventsTidy
  <1>3. ASSUME NEW h \in Hosts, NEW w \in Workers, HasStop(h, w)'
        PROVE  /\ budget'["remove"] < Budget["remove"]
               /\ \A v \in Workers : HasStop(h, v)' => v = w
    <2>1. /\ budget["remove"] < Budget["remove"]
          /\ \A v \in Workers : HasStop(h, v) => v = w
      BY <1>1, <1>3 DEF EventsTidy
    <2> QED BY <1>1, <2>1
  <1> QED BY <1>2, <1>3 DEF EventsTidy

LEMMA EventsAfterMove ==
    ASSUME TypeInv, EventsTidy,
           budget["remove"] \in Int, Budget["remove"] \in Int, budget'["remove"] \in Int,
           budget'["remove"] <= budget["remove"],
           NEW h \in Hosts, NEW w \in Workers, queue[h][w] # <<>>,
           queue' = queue \/ Done(h, w)
    PROVE  EventsTidy'
  <1>1. ASSUME NEW g \in Hosts, NEW v \in Workers, NEW i \in DOMAIN queue'[g][v]
        PROVE  \E j \in DOMAIN queue[g][v] : queue'[g][v][i] = queue[g][v][j]
    <2>1. CASE queue'[g][v] = queue[g][v] BY <2>1
    <2>2. CASE g = h /\ v = w /\ queue'[h][w] = Tail(queue[h][w])
      <3>1. queue[h][w] \in Seq(Events) BY DEF TypeInv, TypeOK
      <3>2. /\ Len(queue[h][w]) \in Nat
            /\ DOMAIN queue[h][w] = 1 .. Len(queue[h][w])
            /\ DOMAIN Tail(queue[h][w]) = 1 .. Len(queue[h][w]) - 1
            /\ Tail(queue[h][w])[i] = queue[h][w][i + 1]
        BY <2>2, <3>1
      <3>3. i \in 1 .. Len(queue[h][w]) - 1 BY <2>2, <3>2
      <3>4. i + 1 \in DOMAIN queue[h][w] BY <3>2, <3>3
      <3> QED BY <2>2, <3>2, <3>4
    <2> QED BY <2>1, <2>2, DoneMoves
  <1> QED BY <1>1, EventsKept

\* A new stop is the first one.
LEMMA EventsAfterPut ==
    ASSUME TypeInv, EventsTidy,
           budget["remove"] \in Int, Budget["remove"] \in Int, budget'["remove"] \in Int,
           budget'["remove"] <= budget["remove"],
           NEW h \in Hosts, NEW ev \in Events, put_data(h, ev),
           ev.type \in {"create", "remove"},
           ev.type = "remove" => /\ budget["remove"] = Budget["remove"]
                                 /\ budget'["remove"] < Budget["remove"]
    PROVE  EventsTidy'
  <1>1. ASSUME NEW g \in Hosts, NEW v \in Workers
        PROVE  \/ queue'[g][v] = queue[g][v]
               \/ g = h /\ v = index[h] /\ queue'[g][v] = Append(queue[g][v], ev)
    BY DEF put_data, TypeInv, TypeOK
  <1>2. ASSUME NEW g \in Hosts, NEW v \in Workers, NEW i \in DOMAIN queue'[g][v]
        PROVE  \/ \E j \in DOMAIN queue[g][v] : queue'[g][v][i] = queue[g][v][j]
               \/ g = h /\ v = index[h] /\ queue'[g][v][i] = ev
    <2>1. queue[g][v] \in Seq(Events) BY DEF TypeInv, TypeOK
    <2>2. /\ Len(queue[g][v]) \in Nat
          /\ DOMAIN queue[g][v] = 1 .. Len(queue[g][v])
          /\ DOMAIN Append(queue[g][v], ev) = 1 .. Len(queue[g][v]) + 1
          /\ \A j \in DOMAIN queue[g][v] : Append(queue[g][v], ev)[j] = queue[g][v][j]
          /\ Append(queue[g][v], ev)[Len(queue[g][v]) + 1] = ev
      BY <2>1
    <2> QED BY <1>1, <2>2
  <1>3. CASE ev.type = "create"
    <2>1. ASSUME NEW g \in Hosts, NEW v \in Workers, HasStop(g, v)' PROVE HasStop(g, v)
      BY <1>2, <1>3, <2>1 DEF HasStop
    <2>2. ASSUME NEW g \in Hosts, NEW v \in Workers
          PROVE  \A i \in DOMAIN queue'[g][v] : queue'[g][v][i].type \in {"create", "remove"}
      BY <1>2 DEF EventsTidy
    <2>3. ASSUME NEW g \in Hosts, NEW v \in Workers, HasStop(g, v)'
          PROVE  /\ budget'["remove"] < Budget["remove"]
                 /\ \A u \in Workers : HasStop(g, u)' => u = v
      <3>1. /\ budget["remove"] < Budget["remove"]
            /\ \A u \in Workers : HasStop(g, u) => u = v
        BY <2>1, <2>3 DEF EventsTidy
      <3> QED BY <2>1, <3>1
    <2> QED BY <2>2, <2>3 DEF EventsTidy
  <1>4. CASE ev.type = "remove"
    <2>1. ASSUME NEW g \in Hosts, NEW v \in Workers PROVE ~HasStop(g, v)
      BY <1>4 DEF EventsTidy
    <2>2. ASSUME NEW g \in Hosts, NEW v \in Workers, HasStop(g, v)' PROVE v = index[h]
      BY <1>2, <2>1, <2>2 DEF HasStop
    <2>3. ASSUME NEW g \in Hosts, NEW v \in Workers
          PROVE  \A i \in DOMAIN queue'[g][v] : queue'[g][v][i].type \in {"create", "remove"}
      BY <1>2 DEF EventsTidy
    <2> QED BY <1>4, <2>2, <2>3 DEF EventsTidy
  <1> QED BY <1>3, <1>4

\* A worker that goes on, and one that is done.
LEMMA PlacesAfterGoto ==
    ASSUME TypeInv, PlacesTidy, UNCHANGED sched,
           NEW h \in Hosts, NEW w \in Workers, NEW pc, NEW p, Goto(h, w, pc, p),
           pc \in {"idle", "fork", "insert", "delete", "kill"},
           pc \in {"delete", "kill"} => InWork(h, w).type = "remove"
    PROVE  PlacesTidy'
  BY GotoMoves DEF PlacesTidy, InWork

LEMMA PlacesAfterDone ==
    ASSUME TypeInv, PlacesTidy, UNCHANGED sched,
           NEW h \in Hosts, NEW w \in Workers, Done(h, w)
    PROVE  PlacesTidy'
  BY DoneMoves DEF PlacesTidy, InWork

\* Queues that grow at their ends keep the events in work.
LEMMA PlacesKept ==
    ASSUME PlacesTidy, UNCHANGED worker,
           \A h \in Hosts : sched'[h].pc \in {"sleep", "probe", "lookup"},
           \A h \in Hosts, w \in Workers :
               worker[h][w].pc # "idle" => InWork(h, w)' = InWork(h, w)
    PROVE  PlacesTidy'
  BY DEF PlacesTidy

\* A step that leaves the cache and the processes alone, and takes nothing into a
\* worker's hands or out of them.
LEMMA HandsKept ==
    ASSUME HandsTidy, UNCHANGED <<cache, nextId, owner, alive>>,
           \A h \in Hosts, w \in Workers, p \in Pids : Holds(h, w, p)' <=> Holds(h, w, p),
           \A h \in Hosts, w \in Workers : worker'[h][w].pc = "delete" =>
               /\ worker[h][w].pc = "delete" /\ worker'[h][w].pid = worker[h][w].pid
               /\ InWork(h, w)' = InWork(h, w)
    PROVE  HandsTidy'
  <1>1. RecordsTidy' BY DEF HandsTidy, RecordsTidy
  <1>2. HeldTidy' BY DEF HandsTidy, HeldTidy
  <1>3. DeleteTidy' BY DEF HandsTidy, DeleteTidy
  <1>4. NoneLost' BY DEF HandsTidy, NoneLost, Recorded
  <1> QED BY <1>1, <1>2, <1>3, <1>4 DEF HandsTidy

\* So for a worker that holds nothing before and after.
LEMMA HandsAfterMove ==
    ASSUME TypeInv, HandsTidy, UNCHANGED <<cache, nextId, owner, alive>>,
           NEW h \in Hosts, NEW w \in Workers,
           worker[h][w].pc \notin {"insert", "kill"},
           worker'[h][w].pc \notin {"insert", "delete", "kill"},
           \A g \in Hosts, v \in Workers : ~(g = h /\ v = w) =>
               worker'[g][v] = worker[g][v] /\ queue'[g][v] = queue[g][v]
    PROVE  HandsTidy'
  <1>1. ASSUME NEW g \in Hosts, NEW v \in Workers, NEW p \in Pids
        PROVE  Holds(g, v, p)' <=> Holds(g, v, p)
    BY DEF Holds
  <1>2. ASSUME NEW g \in Hosts, NEW v \in Workers, worker'[g][v].pc = "delete"
        PROVE  /\ worker[g][v].pc = "delete" /\ worker'[g][v].pid = worker[g][v].pid
               /\ InWork(g, v)' = InWork(g, v)
    BY <1>2 DEF InWork
  <1> QED BY <1>1, <1>2, HandsKept

-------------------------------------------------------------------------------
(* The processes and the records *)

\* fork() for a stream: the new process is in the worker's hands.
LEMMA HandsAfterFork ==
    ASSUME SingleHost, OwnedInv, HandsTidy, NEW h \in Hosts, NEW w \in Workers,
           NEW p \in Pids, NEW s, NewProcess(h, p, s), Goto(h, w, "insert", p),
           worker[h][w].pc = "fork", UNCHANGED <<cache, nextId>>
    PROVE  HandsTidy'
  <1>t. TypeInv BY DEF OwnedInv
  <1>1. /\ p \notin alive[h] /\ alive'[h] = alive[h] \cup {p}
        /\ \A q \in Pids : q # p => owner'[h][q] = owner[h][q]
    BY <1>t DEF NewProcess, FreePid, TypeInv, TypeOK
  <1>2. \A d \in cache : d.host = h /\ d.pid \in alive[h] /\ d.pid # p
    <2>1. ASSUME NEW d \in cache PROVE d.host = h
      BY <1>t DEF TypeInv, TypeOK, Docs, SingleHost
    <2> QED BY <2>1, <1>1 DEF HandsTidy, RecordsTidy
  <1>3. /\ worker'[h][w].pc = "insert" /\ worker'[h][w].pid = p /\ queue' = queue
        /\ \A v \in Workers : v # w => worker'[h][v] = worker[h][v]
    BY <1>t, GotoMoves
  <1>4. \A v \in Workers, q \in Pids : Holds(h, v, q) => q \in alive[h] /\ v # w
    BY DEF HandsTidy, HeldTidy, Holds
  <1>5. \A v \in Workers, q \in Pids :
            Holds(h, v, q)' <=> Holds(h, v, q) \/ (v = w /\ q = p)
    <2>1. ASSUME NEW v \in Workers, NEW q \in Pids, v # w
          PROVE  Holds(h, v, q)' <=> Holds(h, v, q)
      BY <1>3, <2>1 DEF Holds
    <2>2. ASSUME NEW q \in Pids
          PROVE  /\ Holds(h, w, q)' <=> q = p
                 /\ ~Holds(h, w, q)
      BY <1>3 DEF Holds
    <2> QED BY <2>1, <2>2
  <1>6. RecordsTidy'
    <2>1. ASSUME NEW d \in cache PROVE d.id < nextId /\ d.pid \in alive'[d.host]
      BY <1>1, <1>2 DEF HandsTidy, RecordsTidy
    <2> QED BY <2>1 DEF HandsTidy, RecordsTidy
  <1>7. HeldTidy'
    <2>1. ASSUME NEW v \in Workers, NEW q \in Pids, Holds(h, v, q)'
          PROVE  /\ q \in alive'[h]
                 /\ \A d \in cache' : d.pid # q
                 /\ \A u \in Workers : Holds(h, u, q)' => u = v
      <3>1. CASE v = w /\ q = p BY <3>1, <1>1, <1>2, <1>4, <1>5
      <3>2. CASE Holds(h, v, q)
        <4>1. /\ q \in alive[h] /\ \A d \in cache : d.pid # q
              /\ \A u \in Workers : Holds(h, u, q) => u = v
          BY <3>2 DEF HandsTidy, HeldTidy
        <4>2. q # p BY <4>1, <1>1
        <4> QED BY <4>1, <4>2, <1>1, <1>5
      <3> QED BY <2>1, <3>1, <3>2, <1>5
    <2> QED BY <2>1 DEF HeldTidy, SingleHost
  <1>8. DeleteTidy'
    <2>1. ASSUME NEW v \in Workers, worker'[h][v].pc = "delete"
          PROVE  /\ worker[h][v].pc = "delete" /\ worker'[h][v].pid = worker[h][v].pid
                 /\ InWork(h, v)' = InWork(h, v)
      BY <2>1, <1>3 DEF InWork
    <2>2. ASSUME NEW g \in Hosts, NEW v \in Workers, worker'[g][v].pc = "delete"
          PROVE  /\ worker[g][v].pc = "delete" /\ worker'[g][v].pid = worker[g][v].pid
                 /\ InWork(g, v)' = InWork(g, v)
      <3>1. g = h BY DEF SingleHost
      <3> QED BY <3>1, <2>1, <2>2
    <2> QED BY <2>2 DEF HandsTidy, DeleteTidy
  <1>9. NoneLost'
    <2>1. ASSUME NEW q \in Pids, q \in alive'[h], owner'[h][q] \in Sids
          PROVE  Recorded(h, q)' \/ \E v \in Workers : Holds(h, v, q)'
      <3>1. CASE q = p BY <3>1, <1>5
      <3>2. CASE q # p
        <4>1. q \in alive[h] /\ owner[h][q] \in Sids BY <2>1, <3>2, <1>1
        <4>2. Recorded(h, q) \/ \E v \in Workers : Holds(h, v, q)
          BY <4>1 DEF HandsTidy, NoneLost
        <4> QED BY <4>2, <1>5 DEF Recorded
      <3> QED BY <3>1, <3>2
    <2> QED BY <2>1 DEF NoneLost, SingleHost
  <1> QED BY <1>6, <1>7, <1>8, <1>9 DEF HandsTidy

\* add_process_to_cache: the process goes from the worker's hands into a record, which
\* is the last of its stream.
LEMMA HandsAfterInsert ==
    ASSUME SingleHost, OwnedInv, HandsTidy, NEW h \in Hosts, NEW w \in Workers,
           worker[h][w].pc = "insert", queue[h][w] # <<>>,
           InWork(h, w).type = "create", Done(h, w),
           cache' = Insert(cache, NewRecord(h, w)), nextId' = nextId + 1,
           UNCHANGED <<owner, alive>>
    PROVE  HandsTidy'
  <1>t. TypeInv BY DEF OwnedInv
  <1> DEFINE p == worker[h][w].pid
             r == NewRecord(h, w)
  <1>1. p \in Pids /\ Holds(h, w, p)
    BY DEF OwnedInv, WorkersOwned, WorkerOwned, Holds
  <1>2. r.id = nextId /\ r.pid = p /\ r.host = h /\ cache' = cache \cup {r}
    BY DEF NewRecord, Insert
  <1>3. /\ p \in alive[h] /\ \A d \in cache : d.pid # p
        /\ \A v \in Workers : Holds(h, v, p) => v = w
    BY <1>1 DEF HandsTidy, HeldTidy
  <1>4. nextId \in Nat /\ \A d \in cache : d.id \in Nat /\ d.id < nextId
    BY <1>t DEF TypeInv, TypeOK, Docs, HandsTidy, RecordsTidy
  <1>5. /\ worker'[h][w].pc = "idle"
        /\ \A v \in Workers : v # w =>
              worker'[h][v] = worker[h][v] /\ queue'[h][v] = queue[h][v]
    BY <1>t, DoneMoves
  <1>6. \A v \in Workers, q \in Pids : Holds(h, v, q)' <=> Holds(h, v, q) /\ v # w
    BY <1>5 DEF Holds
  <1> HIDE DEF p, r
  <1>7. RecordsTidy'
    <2>1. \A d \in cache : d.id < nextId + 1 /\ d.pid \in alive[d.host]
      BY <1>4 DEF HandsTidy, RecordsTidy
    <2>2. r.id < nextId + 1 /\ r.pid \in alive[r.host] BY <1>2, <1>3, <1>4
    <2>3. \A d \in cache : d.id # r.id /\ d.pid # r.pid BY <1>2, <1>3, <1>4
    <2>4. \A d, e \in cache : d.id = e.id \/ d.pid = e.pid => d = e
      BY DEF HandsTidy, RecordsTidy
    <2> QED BY <1>2, <2>1, <2>2, <2>3, <2>4 DEF RecordsTidy
  <1>8. HeldTidy'
    <2>1. ASSUME NEW v \in Workers, NEW q \in Pids, Holds(h, v, q)'
          PROVE  /\ q \in alive'[h]
                 /\ \A d \in cache' : d.pid # q
                 /\ \A u \in Workers : Holds(h, u, q)' => u = v
      <3>1. /\ v # w /\ q \in alive[h] /\ \A d \in cache : d.pid # q
            /\ \A u \in Workers : Holds(h, u, q) => u = v
        BY <2>1, <1>6 DEF HandsTidy, HeldTidy
      <3>2. q # p BY <1>1, <3>1
      <3> QED BY <3>1, <3>2, <1>2, <1>6
    <2> QED BY <2>1 DEF HeldTidy, SingleHost
  <1>9. DeleteTidy'
    <2>1. ASSUME NEW v \in Workers, worker'[h][v].pc = "delete"
          PROVE  \E d \in cache' : /\ d.pid = worker'[h][v].pid
                                   /\ IsFirst(d, BySid(cache', InWork(h, v)'.sid))
      <3>1. v # w BY <2>1, <1>5
      <3>2. worker'[h][v] = worker[h][v] /\ InWork(h, v)' = InWork(h, v)
        BY <3>1, <1>5 DEF InWork
      <3>3. PICK d \in cache : /\ d.pid = worker[h][v].pid
                               /\ IsFirst(d, BySid(cache, InWork(h, v).sid))
        BY <2>1, <3>2 DEF HandsTidy, DeleteTidy
      <3>4. d.id <= r.id BY <1>2, <1>4
      <3>5. IsFirst(d, BySid(cache', InWork(h, v).sid))
        BY <1>2, <3>3, <3>4 DEF IsFirst, BySid
      <3> QED BY <1>2, <3>2, <3>3, <3>5
    <2> QED BY <2>1 DEF DeleteTidy, SingleHost
  <1>10. NoneLost'
    <2>1. ASSUME NEW q \in Pids, q \in alive'[h], owner'[h][q] \in Sids
          PROVE  Recorded(h, q)' \/ \E v \in Workers : Holds(h, v, q)'
      <3>1. Recorded(h, q) \/ \E v \in Workers : Holds(h, v, q)
        BY <2>1 DEF HandsTidy, NoneLost
      <3>2. CASE Recorded(h, q) BY <3>2, <1>2 DEF Recorded
      <3>3. ASSUME NEW v \in Workers, Holds(h, v, q), v # w PROVE Holds(h, v, q)'
        BY <3>3, <1>6
      <3>4. CASE Holds(h, w, q)
        <4>1. q = p BY <3>4 DEF Holds, p
        <4> QED BY <4>1, <1>2 DEF Recorded
      <3> QED BY <3>1, <3>2, <3>3, <3>4
    <2> QED BY <2>1 DEF NoneLost, SingleHost
  <1> QED BY <1>7, <1>8, <1>9, <1>10 DEF HandsTidy

\* get_process_info of a stop: the pid is that of the first record of the stream.
LEMMA HandsAfterStopFind ==
    ASSUME SingleHost, OwnedInv, HandsTidy, NEW h \in Hosts, NEW w \in Workers,
           worker[h][w].pc = "idle",
           NEW d \in FindOne(BySid(cache, InWork(h, w).sid)),
           Goto(h, w, "delete", d.pid), UNCHANGED <<cache, nextId, owner, alive>>
    PROVE  HandsTidy'
  <1>t. TypeInv BY DEF OwnedInv
  <1>1. /\ worker'[h][w].pc = "delete" /\ worker'[h][w].pid = d.pid /\ queue' = queue
        /\ \A g \in Hosts, v \in Workers :
              ~(g = h /\ v = w) => worker'[g][v] = worker[g][v]
    BY <1>t, GotoMoves
  <1>2. ASSUME NEW g \in Hosts, NEW v \in Workers, NEW p \in Pids
        PROVE  Holds(g, v, p)' <=> Holds(g, v, p)
    BY <1>1 DEF Holds
  <1>3. RecordsTidy' BY DEF HandsTidy, RecordsTidy
  <1>4. HeldTidy' BY <1>2 DEF HandsTidy, HeldTidy
  <1>5. NoneLost' BY <1>2 DEF HandsTidy, NoneLost, Recorded
  <1>6. d \in cache /\ IsFirst(d, BySid(cache, InWork(h, w).sid))
    BY DEF FindOne, IsFirst, BySid
  <1>7. ASSUME NEW g \in Hosts, NEW v \in Workers, worker'[g][v].pc = "delete"
        PROVE  \E e \in cache : /\ e.pid = worker'[g][v].pid
                                /\ IsFirst(e, BySid(cache, InWork(g, v).sid))
    BY <1>1, <1>6, <1>7 DEF HandsTidy, DeleteTidy
  <1>8. \A g \in Hosts, v \in Workers : InWork(g, v)' = InWork(g, v) BY <1>1 DEF InWork
  <1>9. DeleteTidy' BY <1>7, <1>8 DEF DeleteTidy
  <1> QED BY <1>3, <1>4, <1>5, <1>9 DEF HandsTidy

\* remove_process_by_stream: the record whose pid was read goes, and the worker holds
\* its process.
LEMMA HandsAfterStopDelete ==
    ASSUME SingleHost, OwnedInv, HandsTidy, NEW h \in Hosts, NEW w \in Workers,
           worker[h][w].pc = "delete",
           \A v \in Workers : worker[h][v].pc = "delete" => v = w,
           Goto(h, w, "kill", worker[h][w].pid),
           cache' = RemoveSingle(cache, RemoveQuery(h, w)),
           UNCHANGED <<nextId, owner, alive>>
    PROVE  HandsTidy'
  <1>t. TypeInv BY DEF OwnedInv
  <1>1. PICK d \in cache : /\ d.pid = worker[h][w].pid
                           /\ IsFirst(d, BySid(cache, InWork(h, w).sid))
    BY DEF HandsTidy, DeleteTidy
  <1>2. \A e \in cache : e.id \in Nat BY <1>t DEF TypeInv, TypeOK, Docs
  <1>3. \A e, f \in cache : e.id = f.id \/ e.pid = f.pid => e = f
    BY DEF HandsTidy, RecordsTidy
  <1>4. FindOne(RemoveQuery(h, w)) = {d}
    <2>1. d \in FindOne(RemoveQuery(h, w)) BY <1>1 DEF RemoveQuery, FindOne, IsFirst
    <2>2. ASSUME NEW e \in FindOne(RemoveQuery(h, w)) PROVE e = d
      <3>1. e \in cache /\ e.id <= d.id /\ d.id <= e.id
        BY <1>1, <2>2 DEF RemoveQuery, FindOne, IsFirst, BySid
      <3>2. e.id = d.id BY <3>1, <1>2
      <3> QED BY <3>1, <3>2, <1>3
    <2> QED BY <2>1, <2>2
  <1>5. cache' = cache \ {d} BY <1>4 DEF RemoveSingle
  <1>6. d.host = h /\ d.pid \in Pids BY <1>t DEF TypeInv, TypeOK, Docs, SingleHost
  <1>7. /\ worker'[h][w].pc = "kill" /\ worker'[h][w].pid = d.pid /\ queue' = queue
        /\ \A v \in Workers : v # w => worker'[h][v] = worker[h][v]
    BY <1>1, <1>t, GotoMoves
  <1>8. \A v \in Workers, q \in Pids :
            Holds(h, v, q)' <=> Holds(h, v, q) \/ (v = w /\ q = d.pid)
    <2>1. ASSUME NEW v \in Workers, NEW q \in Pids, v # w
          PROVE  Holds(h, v, q)' <=> Holds(h, v, q)
      BY <1>7, <2>1 DEF Holds
    <2>2. ASSUME NEW q \in Pids
          PROVE  (Holds(h, w, q)' <=> q = d.pid) /\ ~Holds(h, w, q)
      BY <1>7 DEF Holds
    <2> QED BY <2>1, <2>2
  <1>9. RecordsTidy' BY <1>5 DEF HandsTidy, RecordsTidy
  <1>10. HeldTidy'
    <2>1. ASSUME NEW v \in Workers, NEW q \in Pids, Holds(h, v, q)'
          PROVE  /\ q \in alive'[h]
                 /\ \A e \in cache' : e.pid # q
                 /\ \A u \in Workers : Holds(h, u, q)' => u = v
      <3>1. \A u \in Workers : ~Holds(h, u, d.pid) BY <1>6 DEF HandsTidy, HeldTidy
      <3>2. CASE v = w /\ q = d.pid
        <4>1. d.pid \in alive[h] BY <1>6 DEF HandsTidy, RecordsTidy
        <4>2. \A e \in cache' : e.pid # d.pid BY <1>3, <1>5
        <4> QED BY <3>1, <3>2, <4>1, <4>2, <1>8
      <3>3. CASE Holds(h, v, q)
        <4>1. /\ q \in alive[h] /\ \A e \in cache : e.pid # q
              /\ \A u \in Workers : Holds(h, u, q) => u = v
          BY <3>3 DEF HandsTidy, HeldTidy
        <4> QED BY <3>1, <3>3, <4>1, <1>5, <1>8
      <3> QED BY <2>1, <3>2, <3>3, <1>8
    <2> QED BY <2>1 DEF HeldTidy, SingleHost
  <1>11. DeleteTidy'
    <2>1. ASSUME NEW g \in Hosts, NEW v \in Workers PROVE worker'[g][v].pc # "delete"
      <3>1. g = h BY DEF SingleHost
      <3> QED BY <3>1, <1>7
    <2> QED BY <2>1 DEF DeleteTidy
  <1>12. NoneLost'
    <2>1. ASSUME NEW q \in Pids, q \in alive'[h], owner'[h][q] \in Sids
          PROVE  Recorded(h, q)' \/ \E v \in Workers : Holds(h, v, q)'
      <3>1. Recorded(h, q) \/ \E v \in Workers : Holds(h, v, q)
        BY <2>1 DEF HandsTidy, NoneLost
      <3>2. CASE q = d.pid BY <3>2, <1>8
      <3>3. CASE q # d.pid BY <3>1, <3>3, <1>5, <1>8 DEF Recorded
      <3> QED BY <3>2, <3>3
    <2> QED BY <2>1 DEF NoneLost, SingleHost
  <1> QED BY <1>9, <1>10, <1>11, <1>12 DEF HandsTidy

\* kill(p->pid, SIGKILL): what was in the worker's hands is gone.
LEMMA HandsAfterStopKill ==
    ASSUME SingleHost, OwnedInv, HandsTidy, NEW h \in Hosts, NEW w \in Workers,
           worker[h][w].pc = "kill", Done(h, w), KillProcess(h, worker[h][w].pid),
           UNCHANGED <<cache, nextId, owner>>
    PROVE  HandsTidy'
  <1>t. TypeInv BY DEF OwnedInv
  <1> DEFINE p == worker[h][w].pid
  <1>1. p \in Pids /\ Holds(h, w, p)
    BY DEF OwnedInv, WorkersOwned, WorkerOwned, Holds
  <1>2. /\ \A d \in cache : d.pid # p
        /\ \A v \in Workers : Holds(h, v, p) => v = w
    BY <1>1 DEF HandsTidy, HeldTidy
  <1>3. alive'[h] = alive[h] \ {p} BY <1>t DEF KillProcess, TypeInv, TypeOK
  <1>4. /\ worker'[h][w].pc = "idle"
        /\ \A v \in Workers : v # w =>
              worker'[h][v] = worker[h][v] /\ queue'[h][v] = queue[h][v]
    BY <1>t, DoneMoves
  <1>5. \A v \in Workers, q \in Pids : Holds(h, v, q)' <=> Holds(h, v, q) /\ v # w
    BY <1>4 DEF Holds
  <1>6. \A q \in Pids : Holds(h, w, q) => q = p BY DEF Holds
  <1> HIDE DEF p
  <1>7. RecordsTidy'
    <2>1. ASSUME NEW d \in cache PROVE d.pid \in alive'[d.host]
      <3>1. d.host = h BY <1>t DEF TypeInv, TypeOK, Docs, SingleHost
      <3> QED BY <3>1, <1>2, <1>3 DEF HandsTidy, RecordsTidy
    <2> QED BY <2>1 DEF HandsTidy, RecordsTidy
  <1>8. HeldTidy'
    <2>1. ASSUME NEW v \in Workers, NEW q \in Pids, Holds(h, v, q)'
          PROVE  /\ q \in alive'[h]
                 /\ \A d \in cache' : d.pid # q
                 /\ \A u \in Workers : Holds(h, u, q)' => u = v
      <3>1. /\ v # w /\ q \in alive[h] /\ \A d \in cache : d.pid # q
            /\ \A u \in Workers : Holds(h, u, q) => u = v
        BY <2>1, <1>5 DEF HandsTidy, HeldTidy
      <3>2. q # p BY <1>1, <3>1
      <3> QED BY <3>1, <3>2, <1>3, <1>5
    <2> QED BY <2>1 DEF HeldTidy, SingleHost
  <1>9. DeleteTidy'
    <2>1. ASSUME NEW v \in Workers, worker'[h][v].pc = "delete"
          PROVE  /\ worker[h][v].pc = "delete" /\ worker'[h][v].pid = worker[h][v].pid
                 /\ InWork(h, v)' = InWork(h, v)
      BY <2>1, <1>4 DEF InWork
    <2>2. ASSUME NEW g \in Hosts, NEW v \in Workers, worker'[g][v].pc = "delete"
          PROVE  /\ worker[g][v].pc = "delete" /\ worker'[g][v].pid = worker[g][v].pid
                 /\ InWork(g, v)' = InWork(g, v)
      <3>1. g = h BY DEF SingleHost
      <3> QED BY <3>1, <2>1, <2>2
    <2> QED BY <2>2 DEF HandsTidy, DeleteTidy
  <1>10. NoneLost'
    <2>1. ASSUME NEW q \in Pids, q \in alive'[h], owner'[h][q] \in Sids
          PROVE  Recorded(h, q)' \/ \E v \in Workers : Holds(h, v, q)'
      <3>1. q \in alive[h] /\ q # p BY <2>1, <1>3
      <3>2. Recorded(h, q) \/ \E v \in Workers : Holds(h, v, q)
        BY <2>1, <3>1 DEF HandsTidy, NoneLost
      <3> QED BY <3>1, <3>2, <1>5, <1>6 DEF Recorded
    <2> QED BY <2>1 DEF NoneLost, SingleHost
  <1> QED BY <1>7, <1>8, <1>9, <1>10 DEF HandsTidy

\* Another program starts a process, whose pid nobody has.
LEMMA HandsAfterForeign ==
    ASSUME SingleHost, OwnedInv, HandsTidy, NEW h \in Hosts, NEW p \in Pids,
           ForeignStart(h, p)
    PROVE  HandsTidy'
  <1>t. TypeInv BY DEF OwnedInv
  <1>1. UNCHANGED <<cache, nextId, worker, queue>> BY DEF ForeignStart
  <1>2. /\ alive'[h] = alive[h] \cup {p} /\ owner'[h][p] = Foreign
        /\ \A q \in Pids : q # p => owner'[h][q] = owner[h][q]
    BY <1>t DEF ForeignStart, NewProcess, TypeInv, TypeOK
  <1>3. \A g \in Hosts : alive[g] \subseteq alive'[g] BY <1>2 DEF SingleHost
  <1>4. \A g \in Hosts, v \in Workers, q \in Pids : Holds(g, v, q)' <=> Holds(g, v, q)
    BY <1>1 DEF Holds
  <1>5. RecordsTidy'
    <2>1. ASSUME NEW d \in cache PROVE d.pid \in alive'[d.host]
      <3>1. d.host \in Hosts BY <1>t DEF TypeInv, TypeOK, Docs
      <3> QED BY <3>1, <1>3 DEF HandsTidy, RecordsTidy
    <2> QED BY <2>1, <1>1 DEF HandsTidy, RecordsTidy
  <1>6. HeldTidy' BY <1>1, <1>3, <1>4 DEF HandsTidy, HeldTidy
  <1>7. DeleteTidy' BY <1>1 DEF HandsTidy, DeleteTidy, InWork
  <1>8. NoneLost'
    <2>1. ASSUME NEW q \in Pids, q \in alive'[h], owner'[h][q] \in Sids
          PROVE  Recorded(h, q)' \/ \E v \in Workers : Holds(h, v, q)'
      <3>1. q # p BY <2>1, <1>2, SidsAssumption
      <3>2. q \in alive[h] /\ owner[h][q] \in Sids BY <2>1, <3>1, <1>2
      <3>3. Recorded(h, q) \/ \E v \in Workers : Holds(h, v, q)
        BY <3>2 DEF HandsTidy, NoneLost
      <3> QED BY <3>3, <1>1, <1>4 DEF Recorded
    <2> QED BY <2>1 DEF NoneLost, SingleHost
  <1> QED BY <1>5, <1>6, <1>7, <1>8 DEF HandsTidy

-------------------------------------------------------------------------------
(* The steps of a calm run *)

\* A call of MongoDB that does not fail.
LEMMA FoundFirst ==
    ASSUME ~Spend("db"), NEW S, NEW found, DbFind(S, found)
    PROVE  found = FindOne(S)
  BY DEF DbFind

LEMMA Written ==
    ASSUME ~Spend("db"), NEW new, DbWrite(new)
    PROVE  cache' = new
  BY DEF DbWrite

\* A step leaves the stops of the queues within the budget.
StopsCounted ==
    /\ budget["remove"] \in Int /\ Budget["remove"] \in Int /\ budget'["remove"] \in Int
    /\ budget'["remove"] <= budget["remove"]

\* A handler that ends without a process or a record to show for it.
LEMMA TidyAfterDone ==
    ASSUME OwnedInv, Tidy, StopsCounted, NEW h \in Hosts, NEW w \in Workers,
           queue[h][w] # <<>>, Done(h, w), worker[h][w].pc \notin {"insert", "kill"},
           UNCHANGED <<cache, nextId, owner, alive, sched>>
    PROVE  Tidy'
  <1>t. TypeInv BY DEF OwnedInv
  <1>1. EventsTidy' BY <1>t, EventsAfterMove DEF StopsCounted, Tidy
  <1>2. PlacesTidy' BY <1>t, PlacesAfterDone DEF Tidy
  <1>3. worker'[h][w].pc = "idle"
        /\ \A g \in Hosts, v \in Workers : ~(g = h /\ v = w) =>
              worker'[g][v] = worker[g][v] /\ queue'[g][v] = queue[g][v]
    BY <1>t, DoneMoves
  <1>4. HandsTidy' BY <1>t, <1>3, HandsAfterMove DEF Tidy
  <1> QED BY <1>1, <1>2, <1>4 DEF Tidy

\* spawn_process.
LEMMA CreateTidy ==
    ASSUME SingleHost, OwnedInv, Tidy, StopsCounted, ~Spend("db"),
           NEW h \in Hosts, NEW w \in Workers,
           SpawnCheck(h, w) \/ SpawnFork(h, w) \/ SpawnInsert(h, w)
    PROVE  Tidy'
  <1>t. TypeInv /\ EventsTidy /\ PlacesTidy /\ HandsTidy BY DEF OwnedInv, Tidy
  <1>q. queue[h][w] # <<>> /\ InWork(h, w).type = "create"
    BY DEF SpawnCheck, SpawnFork, SpawnInsert, At
  <1>1. CASE SpawnCheck(h, w)
    <2>1. worker[h][w].pc = "idle" /\ UNCHANGED <<cache, nextId, owner, alive, sched>>
      BY <1>1 DEF SpawnCheck, At
    <2>2. Goto(h, w, "fork", NoPid) \/ Done(h, w) BY <1>1 DEF SpawnCheck
    <2>3. CASE Goto(h, w, "fork", NoPid)
      <3>1. /\ queue' = queue /\ worker'[h][w].pc = "fork"
            /\ \A g \in Hosts, v \in Workers :
                  ~(g = h /\ v = w) => worker'[g][v] = worker[g][v]
        BY <1>t, <2>3, GotoMoves
      <3>2. EventsTidy' BY <1>t, <1>q, <3>1, EventsAfterMove DEF StopsCounted
      <3>3. PlacesTidy' BY <1>t, <2>1, <2>3, PlacesAfterGoto
      <3>4. HandsTidy' BY <1>t, <2>1, <3>1, HandsAfterMove
      <3> QED BY <3>2, <3>3, <3>4 DEF Tidy
    <2>4. CASE Done(h, w) BY <1>q, <2>1, <2>4, TidyAfterDone
    <2> QED BY <2>2, <2>3, <2>4
  <1>2. CASE SpawnFork(h, w)
    <2>1. worker[h][w].pc = "fork" /\ UNCHANGED <<cache, nextId, sched>>
      BY <1>2 DEF SpawnFork, At
    <2>2. ASSUME NEW p \in Pids, NewProcess(h, p, InWork(h, w).sid), Goto(h, w, "insert", p)
          PROVE  Tidy'
      <3>1. queue' = queue BY <2>2 DEF Goto
      <3>2. EventsTidy' BY <1>t, <1>q, <3>1, EventsAfterMove DEF StopsCounted
      <3>3. PlacesTidy' BY <1>t, <2>1, <2>2, PlacesAfterGoto
      <3>4. HandsTidy' BY <1>t, <2>1, <2>2, HandsAfterFork
      <3> QED BY <3>2, <3>3, <3>4 DEF Tidy
    <2>3. ASSUME ForkFails(h), Done(h, w) PROVE Tidy'
      <3>1. UNCHANGED <<owner, alive>> BY <2>3 DEF ForkFails
      <3> QED BY <1>q, <2>1, <2>3, <3>1, TidyAfterDone
    <2> QED BY <1>2, <2>2, <2>3 DEF SpawnFork
  <1>3. CASE SpawnInsert(h, w)
    <2>1. /\ worker[h][w].pc = "insert" /\ UNCHANGED <<owner, alive, sched>>
          /\ Done(h, w) /\ nextId' = nextId + 1
          /\ DbWrite(Insert(cache, NewRecord(h, w)))
      BY <1>3 DEF SpawnInsert, At
    <2>2. cache' = Insert(cache, NewRecord(h, w)) BY <2>1, Written
    <2>3. EventsTidy' BY <1>t, <1>q, <2>1, EventsAfterMove DEF StopsCounted
    <2>4. PlacesTidy' BY <1>t, <2>1, PlacesAfterDone
    <2>5. HandsTidy' BY <1>t, <1>q, <2>1, <2>2, HandsAfterInsert
    <2> QED BY <2>3, <2>4, <2>5 DEF Tidy
  <1> QED BY <1>1, <1>2, <1>3

\* remove_process.  No other worker is at the removal of a record, since one worker
\* at most has a stop.
LEMMA RemoveTidy ==
    ASSUME SingleHost, OwnedInv, Tidy, StopsCounted, ~Spend("db"),
           NEW h \in Hosts, NEW w \in Workers,
           RemoveFind(h, w) \/ RemoveDelete(h, w) \/ RemoveKill(h, w)
    PROVE  Tidy'
  <1>t. TypeInv /\ EventsTidy /\ PlacesTidy /\ HandsTidy BY DEF OwnedInv, Tidy
  <1>q. queue[h][w] # <<>> /\ InWork(h, w).type = "remove"
    BY DEF RemoveFind, RemoveDelete, RemoveKill, At
  <1>1. CASE RemoveFind(h, w)
    <2>1. worker[h][w].pc = "idle" /\ UNCHANGED <<cache, nextId, owner, alive, sched>>
      BY <1>1 DEF RemoveFind, At
    <2>2. PICK found \in SUBSET cache :
             /\ DbFind(BySid(cache, InWork(h, w).sid), found)
             /\ \/ found = {} /\ Done(h, w)
                \/ \E d \in found : Goto(h, w, "delete", d.pid)
      BY <1>1 DEF RemoveFind
    <2>3. found = FindOne(BySid(cache, InWork(h, w).sid)) BY <2>2, FoundFirst
    <2>4. ASSUME NEW d \in found, Goto(h, w, "delete", d.pid) PROVE Tidy'
      <3>1. queue' = queue BY <2>4 DEF Goto
      <3>2. EventsTidy' BY <1>t, <1>q, <3>1, EventsAfterMove DEF StopsCounted
      <3>3. PlacesTidy' BY <1>t, <1>q, <2>1, <2>4, PlacesAfterGoto
      <3>4. HandsTidy' BY <1>t, <2>1, <2>3, <2>4, HandsAfterStopFind
      <3> QED BY <3>2, <3>3, <3>4 DEF Tidy
    <2>5. CASE Done(h, w) BY <1>q, <2>1, <2>5, TidyAfterDone
    <2> QED BY <2>2, <2>4, <2>5
  <1>2. CASE RemoveDelete(h, w)
    <2>1. /\ worker[h][w].pc = "delete" /\ UNCHANGED <<nextId, owner, alive, sched>>
          /\ Goto(h, w, "kill", worker[h][w].pid)
          /\ DbWrite(RemoveSingle(cache, RemoveQuery(h, w)))
      BY <1>2 DEF RemoveDelete, At
    <2>2. cache' = RemoveSingle(cache, RemoveQuery(h, w)) BY <2>1, Written
    <2>3. ASSUME NEW v \in Workers, queue[h][v] # <<>>, InWork(h, v).type = "remove"
          PROVE  HasStop(h, v)
      <3>1. queue[h][v] \in Seq(Events) BY <1>t DEF TypeInv, TypeOK
      <3>2. 1 \in DOMAIN queue[h][v] /\ InWork(h, v) = queue[h][v][1]
        BY <2>3, <3>1 DEF InWork
      <3> QED BY <2>3, <3>2 DEF HasStop
    <2>4. ASSUME NEW v \in Workers, worker[h][v].pc = "delete" PROVE v = w
      <3>1. queue[h][v] # <<>> BY <2>4 DEF OwnedInv, WorkersOwned, WorkerOwned
      <3>2. InWork(h, v).type = "remove" BY <1>t, <2>4 DEF PlacesTidy
      <3>3. HasStop(h, v) /\ HasStop(h, w) BY <1>q, <2>3, <3>1, <3>2
      <3> QED BY <1>t, <3>3 DEF EventsTidy
    <2>5. queue' = queue BY <2>1 DEF Goto
    <2>6. EventsTidy' BY <1>t, <1>q, <2>5, EventsAfterMove DEF StopsCounted
    <2>7. PlacesTidy' BY <1>t, <1>q, <2>1, PlacesAfterGoto
    <2>8. HandsTidy' BY <1>t, <2>1, <2>2, <2>4, HandsAfterStopDelete
    <2> QED BY <2>6, <2>7, <2>8 DEF Tidy
  <1>3. CASE RemoveKill(h, w)
    <2>1. /\ worker[h][w].pc = "kill" /\ UNCHANGED <<cache, nextId, owner, sched>>
          /\ KillProcess(h, worker[h][w].pid) /\ Done(h, w)
      BY <1>3 DEF RemoveKill, At
    <2>2. EventsTidy' BY <1>t, <1>q, <2>1, EventsAfterMove DEF StopsCounted
    <2>3. PlacesTidy' BY <1>t, <2>1, PlacesAfterDone
    <2>4. HandsTidy' BY <1>t, <2>1, HandsAfterStopKill
    <2> QED BY <2>2, <2>3, <2>4 DEF Tidy
  <1> QED BY <1>1, <1>2, <1>3

\* No worker has a reload or a terminate to handle.
LEMMA OtherEventsIdle ==
    ASSUME OwnedInv, Tidy, NEW h \in Hosts, NEW w \in Workers,
           \/ ReloadFind(h, w) \/ ReloadFork(h, w) \/ ReloadUpdate(h, w)
           \/ WorkerAbort(h, w)
    PROVE  FALSE
  <1>1. queue[h][w] # <<>> /\ InWork(h, w).type \in {"reload", "terminate"}
    BY DEF ReloadFind, ReloadFork, ReloadUpdate, WorkerAbort, At
  <1>2. queue[h][w] \in Seq(Events) BY DEF OwnedInv, TypeInv, TypeOK
  <1>3. 1 \in DOMAIN queue[h][w] /\ InWork(h, w) = queue[h][w][1] BY <1>1, <1>2 DEF InWork
  <1>4. queue[h][w][1].type \in {"create", "remove"} BY <1>3 DEF Tidy, EventsTidy
  <1> QED BY <1>1, <1>3, <1>4

\* A step that leaves the cache, the processes and the workers alone.
LEMMA TidyKept ==
    ASSUME OwnedInv, Tidy, StopsCounted,
           UNCHANGED <<cache, nextId, owner, alive, worker, queue>>,
           \A h \in Hosts : sched'[h].pc \in {"sleep", "probe", "lookup"}
    PROVE  Tidy'
  <1>1. EventsTidy' BY EventsKept DEF StopsCounted, Tidy
  <1>2. PlacesTidy' BY PlacesKept DEF Tidy, InWork
  <1>3. HandsTidy' BY HandsKept DEF Tidy, Holds, InWork
  <1> QED BY <1>1, <1>2, <1>3 DEF Tidy

\* process_alive_detect.  The pid it looks up did not answer, so no record has it.
LEMMA SchedTidy ==
    ASSUME SingleHost, OwnedInv, Tidy, StopsCounted, ~Spend("db"),
           NEW h \in Hosts, SchedStep(h)
    PROVE  Tidy'
  <1>t. TypeInv /\ PlacesTidy /\ HandsTidy BY DEF OwnedInv, Tidy
  <1>s. \A g \in Hosts : g = h BY DEF SingleHost
  <1>n. ASSUME NEW todo, NextProbe(h, todo)
        PROVE  \A g \in Hosts : sched'[g].pc \in {"sleep", "probe", "lookup"}
    <2>1. sched'[h] = IF todo = {} THEN Asleep(h)
                      ELSE [Asleep(h) EXCEPT !.pc = "probe", !.todo = todo]
      BY <1>n, <1>t DEF NextProbe, TypeInv, TypeOK
    <2>2. sched'[h].pc \in {"sleep", "probe"} BY <2>1 DEF Asleep
    <2> QED BY <1>s, <2>2
  <1>1. CASE SchedScan(h)
    <2>1. PICK docs \in SUBSET cache : NextProbe(h, docs) BY <1>1 DEF SchedScan
    <2>2. UNCHANGED <<cache, nextId, owner, alive, worker, queue>> BY <1>1 DEF SchedScan
    <2> QED BY <1>n, <2>1, <2>2, TidyKept
  <1>2. CASE SchedProbe(h)
    <2>1. UNCHANGED <<cache, nextId, owner, alive, worker, queue>> BY <1>2 DEF SchedProbe
    <2>2. PICK d \in Current(h) :
             IF check_system_process_exist(h, d.pid)
             THEN NextProbe(h, sched[h].todo \ {d})
             ELSE sched' = [sched EXCEPT ![h] = [@ EXCEPT !.pc = "lookup", !.pid = d.pid]]
      BY <1>2 DEF SchedProbe
    <2>3. CASE NextProbe(h, sched[h].todo \ {d}) BY <1>n, <2>1, <2>3, TidyKept
    <2>4. CASE sched' = [sched EXCEPT ![h] = [@ EXCEPT !.pc = "lookup", !.pid = d.pid]]
      <3>1. sched[h] \in SchedLocals BY <1>t DEF TypeInv, TypeOK, SchedLocals
      <3> DEFINE r == [sched[h] EXCEPT !.pc = "lookup", !.pid = d.pid]
      <3>2. r.pc = "lookup" BY <3>1 DEF SchedLocals
      <3>3. sched'[h] = r BY <1>t, <2>4 DEF TypeInv, TypeOK
      <3> HIDE DEF r
      <3>4. \A g \in Hosts : sched'[g].pc \in {"sleep", "probe", "lookup"}
        BY <1>s, <3>2, <3>3
      <3> QED BY <2>1, <3>4, TidyKept
    <2> QED BY <2>2, <2>3, <2>4
  <1>3. CASE SchedLookup(h)
    <2>1. UNCHANGED <<cache, nextId, owner, alive, worker, queue>> BY <1>3 DEF SchedLookup
    <2>2. PICK found \in SUBSET cache :
             DbFind(Recheck(h), found) /\ (found = {} => Skip(h))
      BY <1>3 DEF SchedLookup
    <2>3. sched[h].pid \notin alive[h]
      BY <1>3 DEF SchedLookup, SchedAt, OwnedInv, SchedsOwned, SchedOwned
    <2>4. ASSUME NEW d \in found PROVE FALSE
      <3>1. d \in cache /\ d.pid = sched[h].pid BY <2>2, FoundFromMatches DEF Recheck, ByPid
      <3>2. d.host = h BY <1>t, <3>1, <1>s DEF TypeInv, TypeOK, Docs
      <3> QED BY <1>t, <2>3, <3>1, <3>2 DEF HandsTidy, RecordsTidy
    <2>5. Skip(h) BY <2>2, <2>4
    <2> QED BY <1>n, <2>1, <2>5, TidyKept DEF Skip
  <1>4. CASE SchedFork(h) \/ SchedUpdate(h)
    BY <1>4, <1>t DEF SchedFork, SchedUpdate, SchedAt, PlacesTidy
  <1> QED BY <1>1, <1>2, <1>3, <1>4 DEF SchedStep

\* No step of a calm run loses a process.
LEMMA NextTidy ==
    ASSUME SingleHost, OwnedInv, BudgetShrinks, Tidy, Calm', [Next]_vars
    PROVE  Tidy'
  <1>t. TypeInv /\ EventsTidy /\ PlacesTidy /\ HandsTidy BY DEF OwnedInv, Tidy
  <1>b. /\ StopsCounted
        /\ \A k \in {"reload", "terminate", "exit", "crash", "db"} : ~Spend(k)
        /\ Spend("remove") => /\ budget["remove"] = Budget["remove"]
                              /\ budget'["remove"] < Budget["remove"]
    BY <1>t, CalmBefore DEF StopsCounted
  <1>p. \A h \in Hosts : sched[h].pc \in {"sleep", "probe", "lookup"}
    BY <1>t DEF PlacesTidy
  <1>1. CASE UNCHANGED vars BY <1>1, <1>b, <1>p, TidyKept DEF vars
  <1>2. ASSUME NEW h \in Hosts, HostStep(h)
        PROVE  Tidy'
    <2>1. ASSUME NEW ev \in Events, put_data(h, ev)
          PROVE  Tidy'
      <3>1. Spend(ev.type) /\ UNCHANGED <<cache, nextId, owner, alive, worker, sched>>
        BY <2>1 DEF put_data
      <3>2. ev.type \in {"create", "remove"}
        <4>1. ev.type \in EventTypes BY DEF Events, EventTypes
        <4> QED BY <1>b, <3>1, <4>1 DEF EventTypes
      <3>3. EventsTidy' BY <1>b, <1>t, <2>1, <3>1, <3>2, EventsAfterPut DEF StopsCounted
      <3>4. ASSUME NEW g \in Hosts, NEW v \in Workers, worker[g][v].pc # "idle"
            PROVE  InWork(g, v)' = InWork(g, v)
        <4>1. queue[g][v] # <<>> BY <3>4 DEF OwnedInv, WorkersOwned, WorkerOwned
        <4>2. queue[g][v] \in Seq(Events) BY <1>t DEF TypeInv, TypeOK
        <4>3. queue'[g][v] = queue[g][v] \/ queue'[g][v] = Append(queue[g][v], ev)
          BY <2>1, <1>t DEF put_data, TypeInv, TypeOK
        <4> QED BY <4>1, <4>2, <4>3 DEF InWork
      <3>5. PlacesTidy' BY <1>t, <1>p, <3>1, <3>4, PlacesKept
      <3>6. \A g \in Hosts, v \in Workers, p \in Pids : Holds(g, v, p)' <=> Holds(g, v, p)
        BY <3>1 DEF Holds
      <3>7. HandsTidy' BY <1>t, <3>1, <3>4, <3>6, HandsKept
      <3> QED BY <3>3, <3>5, <3>7 DEF Tidy
    <2>2. ASSUME NEW w \in Workers, WorkerStep(h, w)
          PROVE  Tidy'
      BY <1>b, <2>2, CreateTidy, RemoveTidy, OtherEventsIdle DEF WorkerStep
    <2>3. CASE SchedStep(h) BY <1>b, <2>3, SchedTidy
    <2>4. ASSUME NEW p \in Pids, ForeignStart(h, p)
          PROVE  Tidy'
      <3>1. UNCHANGED <<worker, queue, sched>> BY <2>4 DEF ForeignStart
      <3>2. EventsTidy' BY <1>b, <1>t, <3>1, EventsKept DEF StopsCounted
      <3>3. PlacesTidy' BY <1>t, <1>p, <3>1, PlacesKept DEF InWork
      <3>4. HandsTidy' BY <1>t, <2>4, HandsAfterForeign
      <3> QED BY <3>2, <3>3, <3>4 DEF Tidy
    <2>5. ASSUME Crash(h) \/ \E p \in Pids : ProcessExit(h, p)
          PROVE  FALSE
      BY <1>b, <2>5 DEF Crash, ProcessExit
    <2>6. CASE Restart(h)
      BY <1>b, <1>p, <2>6, TidyKept DEF Restart
    <2> QED BY <1>2, <2>1, <2>2, <2>3, <2>4, <2>5, <2>6 DEF HostStep
  <1> QED BY <1>1, <1>2 DEF Next

-------------------------------------------------------------------------------
(* Theorem *)

LEMMA InitCalm == Init => CalmInv
  <1> SUFFICES ASSUME Init PROVE CalmInv
    OBVIOUS
  <1>1. \A k \in EventTypes \cup Faults : budget[k] <= Budget[k]
    BY BudgetAssumption DEF Init
  <1>2. EventsTidy /\ PlacesTidy
    BY DEF Init, EventsTidy, PlacesTidy, HasStop, IdleWorker, Asleep
  <1>3. HandsTidy
    BY DEF Init, HandsTidy, RecordsTidy, HeldTidy, DeleteTidy, NoneLost, Holds, IdleWorker
  <1> QED BY <1>1, <1>2, <1>3 DEF CalmInv, BudgetShrinks, Tidy

LEMMA NextCalm ==
    ASSUME SingleHost
    PROVE  OwnedInv /\ CalmInv /\ [Next]_vars => CalmInv'
  <1> SUFFICES ASSUME OwnedInv, CalmInv, [Next]_vars PROVE CalmInv'
    OBVIOUS
  <1>1. TypeInv /\ BudgetShrinks BY DEF OwnedInv, CalmInv
  <1>2. BudgetShrinks' /\ (Calm' => Calm) BY <1>1, CalmBefore
  <1>3. ASSUME Calm' PROVE Tidy' BY <1>1, <1>2, <1>3, NextTidy DEF CalmInv
  <1> QED BY <1>2, <1>3 DEF CalmInv

\* Starts, failing forks, foreign processes and one stop leave no running ffmpeg that
\* no record and no handler has, however the workers interleave and however often the
\* stream is started twice (spawn_process, remove_process).
THEOREM LeakCorrect ==
    ASSUME SingleHost, ~PidReuse
    PROVE  Spec => []NoLeakByRequests
  <1>1. CalmInv => NoLeakByRequests
    BY DEF CalmInv, Calm, Tidy, HandsTidy, NoneLost, Holds, NoLeakByRequests, NoLeak, InFlight
  <1> QED BY <1>1, InitCalm, NextCalm, OwnedInvariant, PTL DEF Spec
===============================================================================
