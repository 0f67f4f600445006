----------------------------- MODULE ServiceProofs -----------------------------
(***************************************************************************)
(* One machine with one worker and a MongoDB that does not fail: a stream  *)
(* has one record, and the server implements StreamService, for any number *)
(* of streams, pids, requests, exits and crashes, and whatever the kernel  *)
(* does with pids.                                                         *)
(*                                                                         *)
(* The argument: between the query of spawn_process and its insert nobody  *)
(* else inserts, because there is one worker, and the writes of the        *)
(* scheduler and of a reload never make a record.                          *)
(***************************************************************************)
EXTENDS ServiceRefinement, ProcessCtlProofs

SingleServer ==
    /\ \E h \in Hosts : Hosts = {h}
    /\ NumWorkers = 1
    /\ Budget["db"] = 0

LEMMA TheServer ==
    ASSUME SingleServer
    PROVE  Hosts = {Server} /\ Workers = {0}
  <1>1. Server \in Hosts BY DEF SingleServer, Server
  <1>2. Hosts = {Server} BY <1>1 DEF SingleServer
  <1>3. Workers = {0} BY DEF SingleServer, Workers
  <1> QED BY <1>2, <1>3

ThePc == worker[Server][0].pc
TheQueue == queue[Server][0]

\* No database call can fail.
Reliable == budget["db"] = 0

\* A worker handles an event of its queue.
Busy == ThePc # "idle" => TheQueue # <<>>

\* UniqueRecord alone is not inductive: the worker must also be right, until it
\* inserts, about the stream having no record.
NoneBeforeCreate ==
    ThePc \in {"fork", "insert"} => BySid(cache, InWork(Server, 0).sid) = {}

UniqueInv == TypeInv /\ Reliable /\ Busy /\ NoneBeforeCreate /\ UniqueRecord

-------------------------------------------------------------------------------
(* A database that does not fail *)

LEMMA SpendReliable ==
    ASSUME TypeInv, Reliable, NEW k \in EventTypes \cup Faults, Spend(k)
    PROVE  k # "db" /\ Reliable'
  <1>1. budget \in [EventTypes \cup Faults -> Nat] BY DEF TypeInv, TypeOK
  <1>2. budget[k] > 0 /\ budget' = [budget EXCEPT ![k] = @ - 1] BY DEF Spend
  <1>3. k # "db" BY <1>2 DEF Reliable
  <1> QED BY <1>1, <1>2, <1>3 DEF Reliable, Faults

LEMMA NoDbSpent == Reliable => ~Spend("db")
  BY DEF Reliable, Spend

LEMMA FindWorks ==
    ASSUME Reliable, NEW S, NEW found, DbFind(S, found)
    PROVE  found = FindOne(S) /\ UNCHANGED budget
  BY NoDbSpent DEF DbFind

LEMMA WriteWorks ==
    ASSUME Reliable, NEW new, DbWrite(new)
    PROVE  cache' = new /\ UNCHANGED budget
  BY NoDbSpent DEF DbWrite

\* The budget of the database is spent by nobody.
LEMMA NextReliable ==
    ASSUME TypeInv, Reliable, [Next]_vars
    PROVE  Reliable'
  <1>1. EventTypes \cup Faults =
            {"create", "reload", "remove", "terminate",
             "exit", "crash", "db", "fork", "foreign"}
    BY DEF EventTypes, Faults
  <1>2. CASE UNCHANGED budget BY <1>2 DEF Reliable
  <1>3. ASSUME NEW k \in EventTypes \cup Faults, Spend(k) PROVE Reliable'
    BY <1>3, SpendReliable
  <1>4. ASSUME NEW h \in Hosts, ForkFails(h) PROVE Reliable'
    BY <1>1, <1>2, <1>3, <1>4 DEF ForkFails
  <1>5. ASSUME NEW S, NEW found, DbFind(S, found) PROVE Reliable'
    BY <1>2, <1>5, FindWorks
  <1>6. ASSUME NEW new, DbWrite(new) PROVE Reliable'
    BY <1>2, <1>6, WriteWorks
  <1>7. ASSUME NEW h \in Hosts, NEW w \in Workers, WorkerStep(h, w) PROVE Reliable'
    BY <1>2, <1>4, <1>5, <1>6, <1>7
    DEF WorkerStep, SpawnCheck, SpawnFork, SpawnInsert, RemoveFind, RemoveDelete,
        RemoveKill, ReloadFind, ReloadFork, ReloadUpdate, WorkerAbort
  <1>8. ASSUME NEW h \in Hosts, SchedStep(h) PROVE Reliable'
    BY <1>1, <1>2, <1>3, <1>4, <1>5, <1>6, <1>8
    DEF SchedStep, SchedScan, SchedProbe, SchedLookup, SchedFork, SchedUpdate
  <1>9. ASSUME NEW h \in Hosts, NEW ev \in Events, put_data(h, ev) PROVE Reliable'
    <2>1. ev.type \in EventTypes BY DEF Events, EventTypes
    <2> QED BY <1>3, <1>9, <2>1 DEF put_data
  <1>10. ASSUME NEW h \in Hosts, NEW p \in Pids, ProcessExit(h, p) \/ ForeignStart(h, p)
         PROVE  Reliable'
    BY <1>1, <1>3, <1>10 DEF ProcessExit, ForeignStart
  <1>11. ASSUME NEW h \in Hosts, Crash(h) \/ Restart(h) PROVE Reliable'
    BY <1>1, <1>2, <1>3, <1>11 DEF Crash, Restart
  <1> QED BY <1>2, <1>7, <1>8, <1>9, <1>10, <1>11 DEF Next, HostStep, vars

-------------------------------------------------------------------------------
(* The records of a stream *)

\* The only record of a stream is the first one.
LEMMA FindOneUnique ==
    ASSUME TypeInv, UniqueRecord, NEW s
    PROVE  FindOne(BySid(cache, s)) = BySid(cache, s)
  <1>1. ASSUME NEW d \in BySid(cache, s), NEW e \in BySid(cache, s)
        PROVE  d.id <= e.id
    <2>1. d = e BY DEF UniqueRecord, BySid
    <2>2. d.id \in Nat BY DEF BySid, TypeInv, TypeOK, Docs
    <2> QED BY <2>1, <2>2
  <1> QED BY <1>1 DEF FindOne

LEMMA RemoveUnique ==
    ASSUME TypeInv, UniqueRecord, NEW s
    PROVE  RemoveSingle(cache, BySid(cache, s)) = {d \in cache : d.sid # s}
  BY FindOneUnique DEF RemoveSingle, BySid

\* update_process_info replaces the pid of the stream's record, if it has one.
LEMMA UpdateUnique ==
    ASSUME TypeInv, UniqueRecord, NEW s, NEW p
    PROVE  UpdatePid(s, p) =
               {d \in cache : d.sid # s}
                   \cup {[d EXCEPT !.pid = p] : d \in BySid(cache, s)}
  <1>1. cache \ BySid(cache, s) = {d \in cache : d.sid # s} BY DEF BySid
  <1> QED BY <1>1, FindOneUnique DEF UpdatePid, SetPid

\* What an update means for a record: d was there, or is the new form of the only e.
LEMMA AfterUpdate ==
    ASSUME TypeInv, UniqueRecord, NEW s, NEW p, cache' = UpdatePid(s, p)
    PROVE  /\ \A d \in cache' :
                 \/ d \in cache /\ d.sid # s
                 \/ \E e \in BySid(cache, s) :
                       d = [e EXCEPT !.pid = p] /\ d.sid = s /\ d.pid = p /\ d.host = e.host
           /\ \A d \in cache : d.sid # s => d \in cache'
           /\ \A e \in BySid(cache, s) :
                 /\ [e EXCEPT !.pid = p] \in cache'
                 /\ [e EXCEPT !.pid = p].sid = s
  <1>1. ASSUME NEW e \in BySid(cache, s)
        PROVE  LET d == [e EXCEPT !.pid = p]
               IN  d.sid = s /\ d.pid = p /\ d.host = e.host
    <2>1. e \in Docs /\ e.sid = s BY DEF BySid, TypeInv, TypeOK
    <2> QED BY <2>1 DEF Docs
  <1>2. cache' = {d \in cache : d.sid # s}
                     \cup {[d EXCEPT !.pid = p] : d \in BySid(cache, s)}
    BY UpdateUnique
  <1> QED BY <1>1, <1>2

\* What a write to the cache that makes no record keeps.
NothingNew ==
    /\ UniqueRecord'
    /\ \A s : BySid(cache, s) = {} => BySid(cache, s)' = {}

LEMMA ShrinkKeepsUnique ==
    ASSUME UniqueRecord, cache' \subseteq cache
    PROVE  NothingNew
  BY DEF NothingNew, UniqueRecord, BySid

LEMMA UpdateKeepsUnique ==
    ASSUME TypeInv, UniqueRecord, NEW s, NEW p, cache' = UpdatePid(s, p)
    PROVE  NothingNew
  <1>1. ASSUME NEW d \in cache', NEW e \in cache', d.sid = e.sid PROVE d = e
    BY <1>1, AfterUpdate DEF UniqueRecord, BySid
  <1>2. ASSUME NEW t, BySid(cache, t) = {} PROVE BySid(cache', t) = {}
    <2>1. SUFFICES ASSUME NEW d \in cache', d.sid = t PROVE FALSE
      BY DEF BySid
    <2>2. CASE d \in cache BY <1>2, <2>1, <2>2 DEF BySid
    <2>3. CASE d \notin cache
      <3>1. PICK e \in BySid(cache, s) : d.sid = s BY <2>1, <2>3, AfterUpdate
      <3> QED BY <1>2, <2>1, <3>1 DEF BySid
    <2> QED BY <2>2, <2>3
  <1> QED BY <1>1, <1>2 DEF NothingNew, UniqueRecord, BySid

-------------------------------------------------------------------------------
(* UniqueRecord is kept *)

HandlerInv == Busy /\ NoneBeforeCreate

LEMMA ThereIsTheWorker ==
    ASSUME SingleServer, TypeInv
    PROVE  /\ Server \in Hosts /\ 0 \in Workers
           /\ TheQueue \in Seq(Events)
           /\ worker \in [Hosts -> [Workers -> [pc : WorkerPcs, pid : Pids \cup {NoPid}]]]
           /\ queue \in [Hosts -> [Workers -> Seq(Events)]]
  BY TheServer DEF TypeInv, TypeOK, TheQueue

LEMMA StayKeepsHandler ==
    ASSUME UniqueInv, NothingNew, UNCHANGED <<worker, queue>>
    PROVE  HandlerInv'
  BY DEF UniqueInv, NothingNew, HandlerInv, Busy, NoneBeforeCreate,
         ThePc, TheQueue, InWork

LEMMA GotoKeepsHandler ==
    ASSUME SingleServer, UniqueInv, NEW pc, NEW p, Goto(Server, 0, pc, p),
           TheQueue # <<>>,
           pc \in {"fork", "insert"} => BySid(cache, InWork(Server, 0).sid)' = {}
    PROVE  HandlerInv'
  <1>1. ThePc' = pc /\ queue' = queue
    BY ThereIsTheWorker DEF Goto, ThePc, UniqueInv
  <1> QED BY <1>1 DEF HandlerInv, Busy, NoneBeforeCreate, TheQueue, InWork

LEMMA DoneKeepsHandler ==
    ASSUME SingleServer, UniqueInv, Done(Server, 0)
    PROVE  HandlerInv'
  <1>1. ThePc' = "idle"
    BY ThereIsTheWorker DEF Done, ThePc, IdleWorker, UniqueInv
  <1> QED BY <1>1 DEF HandlerInv, Busy, NoneBeforeCreate

LEMMA DieKeepsHandler ==
    ASSUME SingleServer, UniqueInv, Die(Server)
    PROVE  HandlerInv' /\ UniqueRecord'
  <1>1. ThePc' = "idle" /\ TheQueue' = <<>>
    BY ThereIsTheWorker DEF Die, ThePc, TheQueue, IdleWorker, UniqueInv
  <1>2. UniqueRecord' BY DEF Die, UniqueInv, UniqueRecord
  <1> QED BY <1>1, <1>2 DEF HandlerInv, Busy, NoneBeforeCreate

\* A handler that is at work is up and has an event.
LEMMA AtWork ==
    ASSUME NEW pc, NEW type, At(Server, 0, pc, type)
    PROVE  up[Server] /\ TheQueue # <<>> /\ ThePc = pc
  BY DEF At, TheQueue, ThePc

LEMMA WorkerKeepsUnique ==
    ASSUME SingleServer, UniqueInv, WorkerStep(Server, 0)
    PROVE  HandlerInv' /\ UniqueRecord'
  <1> USE DEF UniqueInv
  <1> DEFINE Same == UNCHANGED cache
             s == InWork(Server, 0).sid
  <1>s. Same => NothingNew BY ShrinkKeepsUnique
  <1>n. NothingNew => UniqueRecord' BY DEF NothingNew
  <1>1. CASE SpawnCheck(Server, 0)
    <2>1. PICK found \in SUBSET cache :
              /\ DbFind(BySid(cache, s), found)
              /\ IF found = {} THEN Goto(Server, 0, "fork", NoPid) ELSE Done(Server, 0)
      BY <1>1 DEF SpawnCheck
    <2>2. up[Server] /\ TheQueue # <<>> /\ UNCHANGED <<up, cache>>
      BY <1>1, AtWork DEF SpawnCheck
    <2>3. found = BySid(cache, s) BY <2>1, FindWorks, FindOneUnique
    <2>4. CASE found = {} /\ Goto(Server, 0, "fork", NoPid)
      <3>1. BySid(cache, InWork(Server, 0).sid)' = {}
        BY <2>2, <2>3, <2>4 DEF Goto, InWork
      <3> QED BY <1>s, <1>n, <2>2, <2>4, <3>1, GotoKeepsHandler
    <2>5. CASE Done(Server, 0) BY <1>s, <1>n, <2>2, <2>5, DoneKeepsHandler
    <2> QED BY <2>1, <2>4, <2>5
  <1>2. CASE SpawnFork(Server, 0)
    <2>1. up[Server] /\ TheQueue # <<>> /\ ThePc = "fork" /\ UNCHANGED <<up, cache>>
      BY <1>2, AtWork DEF SpawnFork
    <2>2. ASSUME NEW p \in Pids, Goto(Server, 0, "insert", p) PROVE HandlerInv'
      <3>1. BySid(cache, InWork(Server, 0).sid)' = {}
        BY <2>1, <2>2 DEF NoneBeforeCreate, Goto, InWork
      <3> QED BY <2>1, <2>2, <3>1, GotoKeepsHandler
    <2>3. ASSUME Done(Server, 0) PROVE HandlerInv' BY <2>1, <2>3, DoneKeepsHandler
    <2> QED BY <1>2, <1>s, <1>n, <2>1, <2>2, <2>3 DEF SpawnFork
  <1>3. CASE SpawnInsert(Server, 0)
    <2>1. up[Server] /\ ThePc = "insert" /\ UNCHANGED up /\ Done(Server, 0)
      BY <1>3, AtWork DEF SpawnInsert
    <2>2. cache' = cache \cup {NewRecord(Server, 0)}
      BY <1>3, WriteWorks DEF SpawnInsert, Insert
    <2>3. BySid(cache, s) = {} /\ NewRecord(Server, 0).sid = s
      BY <2>1 DEF NoneBeforeCreate, NewRecord
    <2>4. UniqueRecord' BY <2>2, <2>3 DEF UniqueRecord, BySid
    <2> QED BY <2>1, <2>4, DoneKeepsHandler
  <1>4. CASE RemoveFind(Server, 0)
    <2>1. up[Server] /\ TheQueue # <<>> /\ UNCHANGED <<up, cache>>
      BY <1>4, AtWork DEF RemoveFind
    <2>2. Done(Server, 0) \/ \E p : Goto(Server, 0, "delete", p) BY <1>4 DEF RemoveFind
    <2> QED BY <1>s, <1>n, <2>1, <2>2, DoneKeepsHandler, GotoKeepsHandler
  <1>5. CASE RemoveDelete(Server, 0)
    <2>1. up[Server] /\ TheQueue # <<>> /\ UNCHANGED up
      BY <1>5, AtWork DEF RemoveDelete
    <2>2. cache' \subseteq cache
      BY <1>5, WriteWorks, RemoveSingleSubset DEF RemoveDelete
    <2>3. \E p : Goto(Server, 0, "kill", p) BY <1>5 DEF RemoveDelete
    <2> QED BY <1>n, <2>1, <2>2, <2>3, ShrinkKeepsUnique, GotoKeepsHandler
  <1>6. CASE RemoveKill(Server, 0)
    BY <1>6, <1>s, <1>n, AtWork, DoneKeepsHandler DEF RemoveKill
  <1>7. CASE ReloadFind(Server, 0)
    <2>1. up[Server] /\ TheQueue # <<>> /\ UNCHANGED <<up, cache>>
      BY <1>7, AtWork DEF ReloadFind
    <2>2. Done(Server, 0) \/ Goto(Server, 0, "refork", NoPid) BY <1>7 DEF ReloadFind
    <2> QED BY <1>s, <1>n, <2>1, <2>2, DoneKeepsHandler, GotoKeepsHandler
  <1>8. CASE ReloadFork(Server, 0)
    <2>1. up[Server] /\ TheQueue # <<>> /\ UNCHANGED <<up, cache>>
      BY <1>8, AtWork DEF ReloadFork
    <2>2. Done(Server, 0) \/ \E p : Goto(Server, 0, "update", p) BY <1>8 DEF ReloadFork
    <2> QED BY <1>s, <1>n, <2>1, <2>2, DoneKeepsHandler, GotoKeepsHandler
  <1>9. CASE ReloadUpdate(Server, 0)
    <2>1. up[Server] /\ UNCHANGED up /\ Done(Server, 0) BY <1>9, AtWork DEF ReloadUpdate
    <2>2. NothingNew BY <1>9, WriteWorks, UpdateKeepsUnique DEF ReloadUpdate
    <2> QED BY <1>n, <2>1, <2>2, DoneKeepsHandler
  <1>10. CASE WorkerAbort(Server, 0) BY <1>10, DieKeepsHandler DEF WorkerAbort
  <1> QED BY <1>1, <1>2, <1>3, <1>4, <1>5, <1>6, <1>7, <1>8, <1>9, <1>10 DEF WorkerStep

LEMMA NextUnique ==
    ASSUME SingleServer
    PROVE  UniqueInv /\ [Next]_vars => UniqueInv'
  <1> SUFFICES ASSUME UniqueInv, [Next]_vars PROVE HandlerInv' /\ UniqueRecord'
    BY NextType, NextReliable DEF UniqueInv, HandlerInv
  <1> USE DEF UniqueInv
  <1>n. NothingNew => UniqueRecord' BY DEF NothingNew
  <1>s. UNCHANGED <<cache, worker, queue>> => HandlerInv' /\ UniqueRecord'
    BY <1>n, ShrinkKeepsUnique, StayKeepsHandler
  <1>1. CASE UNCHANGED vars BY <1>1, <1>s DEF vars
  <1>2. CASE HostStep(Server)
    <2>1. ASSUME NEW ev \in Events, put_data(Server, ev)
          PROVE  HandlerInv' /\ UniqueRecord'
      <3>1. index[Server] = 0
        BY TheServer, ThereIsTheWorker DEF TypeInv, TypeOK
      <3>2. TheQueue' = Append(TheQueue, ev)
        BY <2>1, <3>1, ThereIsTheWorker DEF put_data, TheQueue
      <3>3. TheQueue' # <<>> /\ (TheQueue # <<>> => Head(TheQueue') = Head(TheQueue))
        BY <3>2, ThereIsTheWorker
      <3>4. UNCHANGED <<cache, up, worker>> /\ up[Server] BY <2>1 DEF put_data
      <3> QED
        BY <1>n, <3>3, <3>4, ShrinkKeepsUnique
        DEF HandlerInv, Busy, NoneBeforeCreate, ThePc, TheQueue, InWork
    <2>2. ASSUME NEW w \in Workers, WorkerStep(Server, w)
          PROVE  HandlerInv' /\ UniqueRecord'
      BY <2>2, TheServer, WorkerKeepsUnique
    <2>3. CASE SchedStep(Server)
      <3>1. CASE SchedUpdate(Server)
        BY <3>1, <1>n, WriteWorks, UpdateKeepsUnique, StayKeepsHandler DEF SchedUpdate
      <3>2. CASE \/ SchedScan(Server) \/ SchedProbe(Server) \/ SchedLookup(Server)
                 \/ SchedFork(Server)
        BY <3>2, <1>s DEF SchedScan, SchedProbe, SchedLookup, SchedFork
      <3> QED BY <2>3, <3>1, <3>2 DEF SchedStep
    <2>4. ASSUME NEW p \in Pids, ProcessExit(Server, p) \/ ForeignStart(Server, p)
          PROVE  HandlerInv' /\ UniqueRecord'
      BY <2>4, <1>s DEF ProcessExit, ForeignStart
    <2>5. CASE Crash(Server) BY <2>5, DieKeepsHandler DEF Crash
    <2>6. CASE Restart(Server) BY <2>6, <1>s DEF Restart
    <2> QED BY <1>2, <2>1, <2>2, <2>3, <2>4, <2>5, <2>6 DEF HostStep
  <1> QED BY <1>1, <1>2, TheServer DEF Next

LEMMA InitUnique ==
    ASSUME SingleServer
    PROVE  Init => UniqueInv
  <1> SUFFICES ASSUME Init PROVE UniqueInv
    OBVIOUS
  <1>1. TypeInv BY InitType
  <1>2. ThePc = "idle" /\ TheQueue = <<>>
    BY TheServer DEF Init, ThePc, TheQueue, IdleWorker
  <1>3. Reliable BY DEF Init, Reliable, SingleServer
  <1> QED
    BY <1>1, <1>2, <1>3
    DEF Init, UniqueInv, Busy, NoneBeforeCreate, UniqueRecord

LEMMA UniqueInvariant ==
    ASSUME SingleServer
    PROVE  Spec => []UniqueInv
  BY InitUnique, NextUnique, PTL DEF Spec

\* The query and the insert of spawn_process are two calls, and still a stream has
\* one record on a server with one worker.
THEOREM UniqueRecordCorrect ==
    ASSUME SingleServer
    PROVE  Spec => []UniqueRecord
  <1>1. UniqueInv => UniqueRecord BY DEF UniqueInv
  <1> QED BY <1>1, UniqueInvariant, PTL

-------------------------------------------------------------------------------
(* What the streams do in a step *)

\* Stream s runs under the pid of one of its records.
Runs(s) == \E d \in cache : d.sid = s /\ RunsAsRecorded(d)

LEMMA StreamSets ==
    /\ \A s : s \in WantedStreams <=> BySid(cache, s) # {}
    /\ \A s : s \in RunningStreams <=> Runs(s)
    /\ \A s : s \in WantedStreams' <=> BySid(cache', s) # {}
    /\ \A s : s \in RunningStreams' <=> Runs(s)'
  <1>1. ASSUME NEW s PROVE s \in WantedStreams <=> BySid(cache, s) # {}
    BY DEF WantedStreams, BySid
  <1>2. ASSUME NEW s PROVE s \in WantedStreams' <=> BySid(cache', s) # {}
    BY DEF WantedStreams, BySid
  <1>3. ASSUME NEW s PROVE s \in RunningStreams <=> Runs(s)
    BY DEF RunningStreams, Runs
  <1>4. ASSUME NEW s PROVE s \in RunningStreams' <=> Runs(s)'
    <2>1. DEFINE R(d) == RunsAsRecorded(d)'
    <2>2. RunningStreams' = {d.sid : d \in {c \in cache' : R(c)}} BY DEF RunningStreams
    <2>3. Runs(s)' <=> \E d \in cache' : d.sid = s /\ R(d) BY DEF Runs
    <2> HIDE DEF R
    <2> QED BY <2>2, <2>3
  <1> QED BY <1>1, <1>2, <1>3, <1>4

LEMMA RunningIsWanted == \A s : Runs(s) => BySid(cache, s) # {}
  BY DEF Runs, BySid

\* Of all streams, only s may have changed.
OnlyRuns(s) == \A t : t # s => (Runs(t)' <=> Runs(t))

LEMMA RunningBut ==
    ASSUME NEW s, OnlyRuns(s)
    PROVE  RunningStreams' \in
               {RunningStreams, RunningStreams \cup {s}, RunningStreams \ {s}}
  <1>1. \A t : t # s => (t \in RunningStreams' <=> t \in RunningStreams)
    BY StreamSets DEF OnlyRuns
  <1>2. CASE s \in RunningStreams' /\ s \notin RunningStreams
    <2>1. RunningStreams' = RunningStreams \cup {s} BY <1>1, <1>2
    <2> QED BY <2>1
  <1>3. CASE s \notin RunningStreams' /\ s \in RunningStreams
    <2>1. RunningStreams' = RunningStreams \ {s} BY <1>1, <1>3
    <2> QED BY <2>1
  <1>4. CASE s \in RunningStreams' <=> s \in RunningStreams
    <2>1. RunningStreams' = RunningStreams BY <1>1, <1>4
    <2> QED BY <2>1
  <1> QED BY <1>2, <1>3, <1>4

\* A new process, whatever pid it gets, makes no stream run but its own.
LEMMA ForkRuns ==
    ASSUME SingleServer, UniqueInv, NEW p \in Pids, NEW s, NewProcess(Server, p, s),
           UNCHANGED cache
    PROVE  OnlyRuns(s) /\ (Runs(s) => Runs(s)')
  <1>1. ASSUME NEW d \in cache, d.sid # s \/ RunsAsRecorded(d)
        PROVE  RunsAsRecorded(d)' <=> RunsAsRecorded(d)
    <2>1. d.host = Server /\ d.pid \in Pids
      BY TheServer DEF UniqueInv, TypeInv, TypeOK, Docs
    <2>2. p \notin alive[Server] BY DEF NewProcess, FreePid
    <2>3. /\ owner'[Server] = [owner[Server] EXCEPT ![p] = s]
          /\ alive'[Server] = alive[Server] \cup {p}
      BY ThereIsTheWorker DEF NewProcess, UniqueInv, TypeInv, TypeOK
    <2>4. owner[Server] \in [Pids -> Sids \cup {NoSid, Foreign}]
      BY ThereIsTheWorker DEF UniqueInv, TypeInv, TypeOK
    <2>5. CASE d.pid = p BY <1>1, <2>1, <2>2, <2>3, <2>4, <2>5 DEF RunsAsRecorded
    <2>6. CASE d.pid # p BY <2>1, <2>3, <2>4, <2>6 DEF RunsAsRecorded
    <2> QED BY <2>5, <2>6
  <1> QED BY <1>1 DEF OnlyRuns, Runs

\* The end of a process ends at most the stream it belonged to.
LEMMA EndRuns ==
    ASSUME SingleServer, UniqueInv, NEW p, UNCHANGED <<cache, owner>>,
           alive' = [alive EXCEPT ![Server] = @ \ {p}]
    PROVE  OnlyRuns(owner[Server][p]) /\ \A t : Runs(t)' => Runs(t)
  <1>1. alive'[Server] = alive[Server] \ {p}
    BY ThereIsTheWorker DEF UniqueInv, TypeInv, TypeOK
  <1>2. ASSUME NEW d \in cache
        PROVE  /\ RunsAsRecorded(d)' => RunsAsRecorded(d)
               /\ d.sid # owner[Server][p] /\ RunsAsRecorded(d) => RunsAsRecorded(d)'
    <2>1. d.host = Server BY TheServer DEF UniqueInv, TypeInv, TypeOK, Docs
    <2> QED BY <1>1, <2>1 DEF RunsAsRecorded
  <1> QED BY <1>2 DEF OnlyRuns, Runs

\* Writes of a stream's record concern that stream only.
LEMMA UpdateRuns ==
    ASSUME UniqueInv, NEW s, NEW p, cache' = UpdatePid(s, p), UNCHANGED <<owner, alive>>
    PROVE  OnlyRuns(s) /\ WantedStreams' = WantedStreams
  <1> USE DEF UniqueInv
  <1>1. ASSUME NEW d PROVE RunsAsRecorded(d)' <=> RunsAsRecorded(d)
    BY DEF RunsAsRecorded
  <1>2. ASSUME NEW t, t # s PROVE Runs(t)' <=> Runs(t)
    <2>1. ASSUME NEW d \in cache', d.sid = t PROVE d \in cache
      BY <1>2, <2>1, AfterUpdate
    <2>2. ASSUME NEW d \in cache, d.sid = t PROVE d \in cache'
      BY <1>2, <2>2, AfterUpdate
    <2> QED BY <1>1, <2>1, <2>2 DEF Runs
  <1>3. ASSUME NEW t, BySid(cache, t) # {} PROVE BySid(cache', t) # {}
    <2>1. PICK e \in BySid(cache, t) : TRUE BY <1>3
    <2>2. CASE t = s
      <3>1. PICK d \in cache' : d.sid = s BY <2>1, <2>2, AfterUpdate
      <3> QED BY <2>2, <3>1 DEF BySid
    <2>3. CASE t # s
      <3>1. e \in cache /\ e.sid = t BY <2>1 DEF BySid
      <3>2. e \in cache' BY <2>3, <3>1, AfterUpdate
      <3> QED BY <3>1, <3>2 DEF BySid
    <2> QED BY <2>2, <2>3
  <1>4. ASSUME NEW t, BySid(cache, t) = {} PROVE BySid(cache', t) = {}
    BY <1>4, UpdateKeepsUnique DEF NothingNew, BySid
  <1>5. \A t : t \in WantedStreams' <=> t \in WantedStreams
    BY <1>3, <1>4, StreamSets DEF BySid
  <1> QED BY <1>2, <1>5 DEF OnlyRuns

LEMMA RemoveRuns ==
    ASSUME UniqueInv, NEW s, cache' = {d \in cache : d.sid # s}, UNCHANGED <<owner, alive>>
    PROVE  /\ RunningStreams' = RunningStreams \ {s}
           /\ WantedStreams' = WantedStreams \ {s}
  <1>1. ASSUME NEW d PROVE RunsAsRecorded(d)' <=> RunsAsRecorded(d)
    BY DEF RunsAsRecorded
  <1> QED BY <1>1 DEF RunningStreams, WantedStreams

LEMMA NothingRuns ==
    ASSUME UNCHANGED <<cache, owner, alive>>
    PROVE  UNCHANGED <<WantedStreams, RunningStreams>>
  BY DEF WantedStreams, RunningStreams, RunsAsRecorded

-------------------------------------------------------------------------------
(* The requests that are pending *)

LEMMA PendingAt ==
    ASSUME NEW pc, NEW type, At(Server, 0, pc, type), pc # "kill"
    PROVE  /\ PendingRequests = TheQueue /\ PendingRequests # <<>>
           /\ Head(PendingRequests) = InWork(Server, 0)
           /\ Head(PendingRequests).type = type
           /\ up[Server]
  BY DEF At, PendingRequests, TheQueue, InWork

LEMMA PendingGoto ==
    ASSUME SingleServer, UniqueInv, NEW pc, NEW p, Goto(Server, 0, pc, p), ThePc # "kill"
    PROVE  PendingRequests' = IF pc = "kill" THEN Tail(PendingRequests) ELSE PendingRequests
  <1>1. ThePc' = pc /\ queue' = queue
    BY ThereIsTheWorker DEF Goto, ThePc, UniqueInv
  <1> QED BY <1>1 DEF PendingRequests, ThePc

LEMMA PendingDone ==
    ASSUME SingleServer, UniqueInv, Done(Server, 0)
    PROVE  PendingRequests' =
               IF ThePc = "kill" THEN PendingRequests ELSE Tail(PendingRequests)
  <1>1. ThePc' = "idle" /\ TheQueue' = Tail(TheQueue)
    BY ThereIsTheWorker DEF Done, ThePc, TheQueue, IdleWorker, UniqueInv
  <1> QED BY <1>1 DEF PendingRequests, ThePc, TheQueue

LEMMA PendingStays ==
    ASSUME UNCHANGED <<worker, queue>>
    PROVE  UNCHANGED PendingRequests
  BY DEF PendingRequests

-------------------------------------------------------------------------------
(* Steps of StreamService *)

ServiceStep == Service!ServiceNext \/ UNCHANGED Service!ServiceVars

LEMMA Stutter ==
    ASSUME UNCHANGED <<up, PendingRequests, WantedStreams, RunningStreams>>
    PROVE  ServiceStep
  BY DEF ServiceStep, Service!ServiceVars

\* An ffmpeg of s ends or starts, and nothing else happens.
LEMMA StreamMoves ==
    ASSUME TypeInv, NEW s, OnlyRuns(s),
           UNCHANGED <<up, PendingRequests, WantedStreams>>
    PROVE  ServiceStep
  <1>1. RunningStreams' \in
            {RunningStreams, RunningStreams \cup {s}, RunningStreams \ {s}}
    BY RunningBut
  <1>2. CASE RunningStreams' = RunningStreams BY <1>2, Stutter
  <1>3. CASE RunningStreams' # RunningStreams
    <2>1. s \in WantedStreams
      <3>1. s \in RunningStreams \/ s \in RunningStreams' BY <1>1, <1>3
      <3>2. RunningStreams \subseteq WantedStreams BY DEF RunningStreams, WantedStreams
      <3>3. RunningStreams' \subseteq WantedStreams' BY DEF RunningStreams, WantedStreams
      <3> QED BY <3>1, <3>2, <3>3
    <2>2. s \in Sids BY <2>1 DEF WantedStreams, TypeInv, TypeOK, Docs
    <2>3. CASE RunningStreams' = RunningStreams \cup {s}
      <3>1. Service!ComeBack(s) BY <1>3, <2>1, <2>3 DEF Service!ComeBack
      <3> QED BY <2>2, <3>1 DEF ServiceStep, Service!ServiceNext
    <2>4. CASE RunningStreams' = RunningStreams \ {s}
      <3>1. Service!GoDown(s) BY <1>3, <2>4 DEF Service!GoDown
      <3> QED BY <2>2, <3>1 DEF ServiceStep, Service!ServiceNext
    <2> QED BY <1>1, <1>3, <2>3, <2>4
  <1> QED BY <1>2, <1>3

\* A request is dropped or refused.
LEMMA StartRefused ==
    ASSUME PendingRequests # <<>>, Head(PendingRequests).type = "create",
           PendingRequests' = Tail(PendingRequests),
           UNCHANGED <<up, WantedStreams, RunningStreams>>
    PROVE  ServiceStep
  BY DEF ServiceStep, Service!ServiceNext, Service!Start, Service!NextIs

LEMMA ReloadStep ==
    ASSUME PendingRequests # <<>>, Head(PendingRequests).type = "reload",
           PendingRequests' = Tail(PendingRequests), UNCHANGED <<up, WantedStreams>>,
           OnlyRuns(Head(PendingRequests).sid)
    PROVE  ServiceStep
  <1> DEFINE s == Head(PendingRequests).sid
  <1>1. RunningStreams' \in
            {RunningStreams, RunningStreams \cup {s}, RunningStreams \ {s}}
    BY RunningBut
  <1>2. RunningStreams' \subseteq WantedStreams' BY DEF RunningStreams, WantedStreams
  <1>3. RunningStreams' = RunningStreams \cup {s} => s \in WantedStreams BY <1>2
  <1>4. Service!Reload BY <1>1, <1>3 DEF Service!Reload, Service!NextIs
  <1> QED BY <1>4 DEF ServiceStep, Service!ServiceNext

LEMMA StopStep ==
    ASSUME PendingRequests # <<>>, Head(PendingRequests).type = "remove",
           PendingRequests' = Tail(PendingRequests), UNCHANGED up,
           WantedStreams' = WantedStreams \ {Head(PendingRequests).sid},
           RunningStreams' = RunningStreams \ {Head(PendingRequests).sid}
    PROVE  ServiceStep
  BY DEF ServiceStep, Service!ServiceNext, Service!Stop, Service!NextIs

LEMMA NothingRunsOnlyRuns ==
    ASSUME UNCHANGED <<cache, owner, alive>>, NEW s
    PROVE  OnlyRuns(s)
  <1>1. ASSUME NEW d PROVE RunsAsRecorded(d)' <=> RunsAsRecorded(d)
    BY DEF RunsAsRecorded
  <1> QED BY <1>1 DEF OnlyRuns, Runs

LEMMA CacheWanted == UNCHANGED cache => UNCHANGED WantedStreams
  BY DEF WantedStreams

LEMMA DieServes ==
    ASSUME SingleServer, UniqueInv, up[Server], Die(Server)
    PROVE  ServiceStep
  <1>1. up'[Server] = FALSE
    BY ThereIsTheWorker DEF Die, UniqueInv, TypeInv, TypeOK
  <1>2. ThePc' = "idle" /\ TheQueue' = <<>>
    BY ThereIsTheWorker DEF Die, ThePc, TheQueue, IdleWorker, UniqueInv
  <1>3. PendingRequests' = <<>> BY <1>2 DEF PendingRequests, ThePc, TheQueue
  <1>4. UNCHANGED <<WantedStreams, RunningStreams>> BY NothingRuns DEF Die
  <1>5. Service!Fail BY <1>1, <1>3, <1>4 DEF Service!Fail
  <1> QED BY <1>5 DEF ServiceStep, Service!ServiceNext

\* spawn_process and add_process_to_cache.
LEMMA CreateServes ==
    ASSUME SingleServer, UniqueInv,
           SpawnCheck(Server, 0) \/ SpawnFork(Server, 0) \/ SpawnInsert(Server, 0)
    PROVE  ServiceStep
  <1> DEFINE s == InWork(Server, 0).sid
  <1>1. CASE SpawnCheck(Server, 0)
    <2>1. At(Server, 0, "idle", "create") /\ UNCHANGED <<up, cache, owner, alive>>
      BY <1>1 DEF SpawnCheck
    <2>2. Goto(Server, 0, "fork", NoPid) \/ Done(Server, 0) BY <1>1 DEF SpawnCheck
    <2>3. ThePc = "idle" BY <2>1, AtWork
    <2>4. UNCHANGED <<WantedStreams, RunningStreams>> BY <2>1, NothingRuns
    <2>5. CASE Goto(Server, 0, "fork", NoPid)
      BY <2>1, <2>3, <2>4, <2>5, PendingGoto, Stutter
    <2>6. CASE Done(Server, 0)
      BY <2>1, <2>3, <2>4, <2>6, PendingAt, PendingDone, StartRefused
    <2> QED BY <2>2, <2>5, <2>6
  <1>2. CASE SpawnFork(Server, 0)
    <2>1. At(Server, 0, "fork", "create") /\ UNCHANGED <<up, cache>> BY <1>2 DEF SpawnFork
    <2>2. ThePc = "fork" BY <2>1, AtWork
    <2>3. UNCHANGED WantedStreams BY <2>1, CacheWanted
    <2>4. ASSUME NEW p \in Pids, NewProcess(Server, p, s), Goto(Server, 0, "insert", p)
          PROVE  ServiceStep
      <3>1. UNCHANGED PendingRequests BY <2>2, <2>4, PendingGoto
      <3>2. OnlyRuns(s) BY <2>1, <2>4, ForkRuns
      <3> QED BY <2>1, <2>3, <3>1, <3>2, StreamMoves DEF UniqueInv
    <2>5. ASSUME ForkFails(Server), Done(Server, 0) PROVE ServiceStep
      <3>1. UNCHANGED <<WantedStreams, RunningStreams>>
        BY <2>1, <2>5, NothingRuns DEF ForkFails
      <3> QED BY <2>1, <2>2, <2>5, <3>1, PendingAt, PendingDone, StartRefused
    <2> QED BY <1>2, <2>4, <2>5 DEF SpawnFork
  <1>3. CASE SpawnInsert(Server, 0)
    <2>1. At(Server, 0, "insert", "create") /\ UNCHANGED <<up, owner, alive>> /\ Done(Server, 0)
      BY <1>3 DEF SpawnInsert
    <2>2. ThePc = "insert" BY <2>1, AtWork
    <2>3. cache' = cache \cup {NewRecord(Server, 0)}
      BY <1>3, WriteWorks DEF SpawnInsert, Insert, UniqueInv
    <2>4. BySid(cache, s) = {} /\ NewRecord(Server, 0).sid = s
      BY <2>2 DEF NoneBeforeCreate, NewRecord, UniqueInv
    <2>5. WantedStreams' = WantedStreams \cup {s} BY <2>3, <2>4 DEF WantedStreams
    <2>6. OnlyRuns(s)
      <3>1. ASSUME NEW d PROVE RunsAsRecorded(d)' <=> RunsAsRecorded(d)
        BY <2>1 DEF RunsAsRecorded
      <3> QED BY <2>3, <2>4, <3>1 DEF OnlyRuns, Runs
    <2>7. s \notin WantedStreams /\ s \notin RunningStreams
      BY <2>4, StreamSets, RunningIsWanted
    <2>8. RunningStreams' \in {RunningStreams, RunningStreams \cup {s}}
      <3>1. RunningStreams \ {s} = RunningStreams BY <2>7
      <3> QED BY <2>6, <3>1, RunningBut
    <2>9. /\ PendingRequests # <<>> /\ Head(PendingRequests) = InWork(Server, 0)
          /\ Head(PendingRequests).type = "create"
      BY <2>1, PendingAt
    <2>10. PendingRequests' = Tail(PendingRequests) BY <2>1, <2>2, PendingDone
    <2>11. Service!Start
      BY <2>1, <2>5, <2>7, <2>8, <2>9, <2>10 DEF Service!Start, Service!NextIs
    <2> QED BY <2>11 DEF ServiceStep, Service!ServiceNext
  <1> QED BY <1>1, <1>2, <1>3

\* remove_process.
LEMMA RemoveServes ==
    ASSUME SingleServer, UniqueInv,
           RemoveFind(Server, 0) \/ RemoveDelete(Server, 0) \/ RemoveKill(Server, 0)
    PROVE  ServiceStep
  <1> DEFINE s == InWork(Server, 0).sid
  <1>1. CASE RemoveFind(Server, 0)
    <2>1. At(Server, 0, "idle", "remove") /\ UNCHANGED <<up, cache, owner, alive>>
      BY <1>1 DEF RemoveFind
    <2>2. ThePc = "idle" BY <2>1, AtWork
    <2>3. UNCHANGED <<WantedStreams, RunningStreams>> BY <2>1, NothingRuns
    <2>4. PICK found \in SUBSET cache :
              /\ DbFind(BySid(cache, s), found)
              /\ \/ found = {} /\ Done(Server, 0)
                 \/ \E d \in found : Goto(Server, 0, "delete", d.pid)
      BY <1>1 DEF RemoveFind
    <2>5. CASE found = {} /\ Done(Server, 0)
      <3>1. BySid(cache, s) = {} BY <2>4, <2>5, FindWorks, FindOneUnique DEF UniqueInv
      <3>2. s \notin WantedStreams /\ s \notin RunningStreams
        BY <3>1, StreamSets, RunningIsWanted
      <3>3. WantedStreams \ {s} = WantedStreams /\ RunningStreams \ {s} = RunningStreams
        BY <3>2
      <3> QED BY <2>1, <2>2, <2>3, <2>5, <3>3, PendingAt, PendingDone, StopStep
    <2>6. CASE \E d \in found : Goto(Server, 0, "delete", d.pid)
      BY <2>1, <2>2, <2>3, <2>6, PendingGoto, Stutter
    <2> QED BY <2>4, <2>5, <2>6
  <1>2. CASE RemoveDelete(Server, 0)
    <2>1. At(Server, 0, "delete", "remove") /\ UNCHANGED <<up, owner, alive>>
      BY <1>2 DEF RemoveDelete
    <2>2. ThePc = "delete" BY <2>1, AtWork
    <2>3. cache' = {d \in cache : d.sid # s}
      BY <1>2, WriteWorks, RemoveUnique DEF RemoveDelete, RemoveQuery, UniqueInv
    <2>4. /\ RunningStreams' = RunningStreams \ {s}
          /\ WantedStreams' = WantedStreams \ {s}
      BY <2>1, <2>3, RemoveRuns
    <2>5. PendingRequests' = Tail(PendingRequests)
      BY <1>2, <2>2, PendingGoto DEF RemoveDelete
    <2> QED BY <2>1, <2>4, <2>5, PendingAt, StopStep
  <1>3. CASE RemoveKill(Server, 0)
    <2>1. ThePc = "kill" /\ UNCHANGED <<up, cache, owner>>
      BY <1>3, AtWork DEF RemoveKill
    <2>2. \E t : OnlyRuns(t) BY <1>3, <2>1, EndRuns DEF RemoveKill, KillProcess
    <2>3. UNCHANGED PendingRequests BY <1>3, <2>1, PendingDone DEF RemoveKill
    <2>4. UNCHANGED WantedStreams BY <2>1, CacheWanted
    <2> QED BY <2>1, <2>2, <2>3, <2>4, StreamMoves DEF UniqueInv
  <1> QED BY <1>1, <1>2, <1>3

\* process_reload, spawn_process_i and update_process_info.
LEMMA ReloadServes ==
    ASSUME SingleServer, UniqueInv,
           ReloadFind(Server, 0) \/ ReloadFork(Server, 0) \/ ReloadUpdate(Server, 0)
    PROVE  ServiceStep
  <1> DEFINE s == InWork(Server, 0).sid
  <1>1. CASE ReloadFind(Server, 0)
    <2>1. At(Server, 0, "idle", "reload") /\ UNCHANGED <<up, cache, owner, alive>>
      BY <1>1 DEF ReloadFind
    <2>2. ThePc = "idle" BY <2>1, AtWork
    <2>3. UNCHANGED <<WantedStreams, RunningStreams>> /\ OnlyRuns(s)
      BY <2>1, NothingRuns, NothingRunsOnlyRuns
    <2>4. CASE Goto(Server, 0, "refork", NoPid)
      BY <2>1, <2>2, <2>3, <2>4, PendingGoto, Stutter
    <2>5. CASE Done(Server, 0)
      BY <2>1, <2>2, <2>3, <2>5, PendingAt, PendingDone, ReloadStep
    <2> QED BY <1>1, <2>4, <2>5 DEF ReloadFind
  <1>2. CASE ReloadFork(Server, 0)
    <2>1. At(Server, 0, "refork", "reload") /\ UNCHANGED <<up, cache>>
      BY <1>2 DEF ReloadFork
    <2>2. ThePc = "refork" /\ UNCHANGED WantedStreams BY <2>1, AtWork, CacheWanted
    <2>3. ASSUME NEW p \in Pids, NewProcess(Server, p, s), Goto(Server, 0, "update", p)
          PROVE  ServiceStep
      <3>1. UNCHANGED PendingRequests BY <2>2, <2>3, PendingGoto
      <3>2. OnlyRuns(s) BY <2>1, <2>3, ForkRuns
      <3> QED BY <2>1, <2>2, <3>1, <3>2, StreamMoves DEF UniqueInv
    <2>4. ASSUME ForkFails(Server), Done(Server, 0) PROVE ServiceStep
      <3>1. OnlyRuns(s) BY <2>1, <2>4, NothingRunsOnlyRuns DEF ForkFails
      <3> QED BY <2>1, <2>2, <2>4, <3>1, PendingAt, PendingDone, ReloadStep
    <2> QED BY <1>2, <2>3, <2>4 DEF ReloadFork
  <1>3. CASE ReloadUpdate(Server, 0)
    <2>1. At(Server, 0, "update", "reload") /\ UNCHANGED <<up, owner, alive>> /\ Done(Server, 0)
      BY <1>3 DEF ReloadUpdate
    <2>2. ThePc = "update" BY <2>1, AtWork
    <2>3. OnlyRuns(s) /\ WantedStreams' = WantedStreams
      BY <1>3, <2>1, WriteWorks, UpdateRuns DEF ReloadUpdate, UniqueInv
    <2> QED BY <2>1, <2>2, <2>3, PendingAt, PendingDone, ReloadStep
  <1> QED BY <1>1, <1>2, <1>3

\* process_alive_detect.
LEMMA SchedServes ==
    ASSUME SingleServer, UniqueInv, SchedStep(Server)
    PROVE  ServiceStep
  <1>0. UNCHANGED <<up, PendingRequests>>
    BY PendingStays
    DEF SchedStep, SchedScan, SchedProbe, SchedLookup, SchedFork, SchedUpdate
  <1>1. CASE SchedScan(Server) \/ SchedProbe(Server) \/ SchedLookup(Server)
    <2>1. UNCHANGED <<cache, owner, alive>>
      BY <1>1 DEF SchedScan, SchedProbe, SchedLookup
    <2> QED BY <1>0, <2>1, NothingRuns, Stutter
  <1>2. CASE SchedFork(Server)
    <2>1. UNCHANGED cache /\ UNCHANGED WantedStreams
      BY <1>2, CacheWanted DEF SchedFork
    <2>2. ASSUME NEW p \in Pids, NewProcess(Server, p, sched[Server].sid)
          PROVE  ServiceStep
      <3>1. OnlyRuns(sched[Server].sid) BY <2>1, <2>2, ForkRuns
      <3> QED BY <1>0, <2>1, <3>1, StreamMoves DEF UniqueInv
    <2>3. ASSUME ForkFails(Server) PROVE ServiceStep
      BY <1>0, <2>1, <2>3, NothingRuns, Stutter DEF ForkFails
    <2> QED BY <1>2, <2>2, <2>3 DEF SchedFork
  <1>3. CASE SchedUpdate(Server)
    <2>1. OnlyRuns(sched[Server].sid) /\ WantedStreams' = WantedStreams
      BY <1>3, WriteWorks, UpdateRuns DEF SchedUpdate, UniqueInv
    <2> QED BY <1>0, <2>1, StreamMoves DEF UniqueInv
  <1> QED BY <1>1, <1>2, <1>3 DEF SchedStep

\* put_data.
LEMMA PutDataServes ==
    ASSUME SingleServer, UniqueInv, NEW ev \in Events, put_data(Server, ev)
    PROVE  ServiceStep
  <1>1. index[Server] = 0
    BY TheServer, ThereIsTheWorker DEF UniqueInv, TypeInv, TypeOK
  <1>2. TheQueue' = Append(TheQueue, ev)
    BY <1>1, ThereIsTheWorker DEF put_data, TheQueue, UniqueInv
  <1>3. ThePc' = ThePc BY DEF put_data, ThePc
  <1>4. TheQueue \in Seq(Events) BY ThereIsTheWorker DEF UniqueInv
  <1>5. TheQueue # <<>> => Tail(Append(TheQueue, ev)) = Append(Tail(TheQueue), ev)
    BY <1>4
  <1>6. PendingRequests' = Append(PendingRequests, ev)
    BY <1>2, <1>3, <1>5 DEF PendingRequests, ThePc, TheQueue, UniqueInv, Busy
  <1>7. UNCHANGED <<up, WantedStreams, RunningStreams>> /\ up[Server]
    BY NothingRuns DEF put_data
  <1>8. Service!Accept(ev) BY <1>6, <1>7 DEF Service!Accept
  <1> QED BY <1>8 DEF ServiceStep, Service!ServiceNext

\* Every step of the server is one of StreamService, or none.
LEMMA NextServes ==
    ASSUME SingleServer, UniqueInv, [Next]_vars
    PROVE  ServiceStep
  <1>1. CASE UNCHANGED vars
    <2>1. UNCHANGED <<cache, owner, alive, up, worker, queue>> BY <1>1 DEF vars
    <2> QED BY <2>1, NothingRuns, PendingStays, Stutter
  <1>2. CASE HostStep(Server)
    <2>1. ASSUME NEW w \in Workers, WorkerStep(Server, w) PROVE ServiceStep
      <3>1. w = 0 BY TheServer
      <3>2. CASE WorkerAbort(Server, 0) BY <3>2, AtWork, DieServes DEF WorkerAbort
      <3> QED
        BY <2>1, <3>1, <3>2, CreateServes, RemoveServes, ReloadServes DEF WorkerStep
    <2>2. ASSUME NEW p \in Pids, ProcessExit(Server, p) PROVE ServiceStep
      <3>1. UNCHANGED <<up, cache, owner, worker, queue>> BY <2>2 DEF ProcessExit
      <3>2. \E t : OnlyRuns(t) BY <2>2, <3>1, EndRuns DEF ProcessExit
      <3> QED BY <3>1, <3>2, CacheWanted, PendingStays, StreamMoves DEF UniqueInv
    <2>3. ASSUME NEW p \in Pids, ForeignStart(Server, p) PROVE ServiceStep
      <3>1. UNCHANGED <<up, cache, worker, queue>> BY <2>3 DEF ForeignStart
      <3>2. OnlyRuns(Foreign) BY <2>3, <3>1, ForkRuns DEF ForeignStart
      <3> QED BY <3>1, <3>2, CacheWanted, PendingStays, StreamMoves DEF UniqueInv
    <2>4. CASE Crash(Server) BY <2>4, DieServes DEF Crash
    <2>5. CASE Restart(Server)
      <3>1. ~up[Server] /\ up'[Server] = TRUE
        BY <2>5, ThereIsTheWorker DEF Restart, UniqueInv, TypeInv, TypeOK
      <3>2. UNCHANGED <<PendingRequests, WantedStreams, RunningStreams>>
        BY <2>5, NothingRuns, PendingStays DEF Restart
      <3>3. Service!Recover BY <3>1, <3>2 DEF Service!Recover
      <3> QED BY <3>3 DEF ServiceStep, Service!ServiceNext
    <2> QED
      BY <1>2, <2>1, <2>2, <2>3, <2>4, <2>5, PutDataServes, SchedServes DEF HostStep
  <1> QED BY <1>1, <1>2, TheServer DEF Next

LEMMA InitServes ==
    ASSUME SingleServer
    PROVE  Init => Service!ServiceInit
  <1> SUFFICES ASSUME Init PROVE Service!ServiceInit
    OBVIOUS
  <1>1. up[Server] = TRUE /\ PendingRequests = <<>>
    BY TheServer DEF Init, PendingRequests, IdleWorker
  <1>2. WantedStreams = {} /\ RunningStreams = {}
    BY DEF Init, WantedStreams, RunningStreams
  <1> QED BY <1>1, <1>2 DEF Service!ServiceInit

\* The server with one worker implements StreamService: requests are carried out in
\* their order or lost with the server, and neither the scheduler nor a reload nor a
\* late write changes which streams are wanted.
THEOREM ServiceCorrect ==
    ASSUME SingleServer
    PROVE  Spec => ImplementsService
  <1>1. Init => Service!ServiceInit BY InitServes
  <1>2. UniqueInv /\ [Next]_vars => [Service!ServiceNext]_(Service!ServiceVars)
    BY NextServes DEF ServiceStep
  <1> QED
    BY <1>1, <1>2, UniqueInvariant, PTL
    DEF Spec, ImplementsService, Service!ServiceSpec
===============================================================================
