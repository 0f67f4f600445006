--------------------------- MODULE ProcessCtlProofs ---------------------------
(***************************************************************************)
(* Theorems about ProcessCtl, for every number of hosts, workers, streams, *)
(* pids, requests and faults.                                              *)
(***************************************************************************)
EXTENDS ProcessCtl, TLAPS

-------------------------------------------------------------------------------
(* The database operations *)

\* A query returns documents of the collection only (MongoAdaptor::findOne).
LEMMA FindOneFromMatches == \A S : FindOne(S) \subseteq S
  BY DEF FindOne

\* What a handler works with after a query, failed or not.
LEMMA FoundFromMatches ==
    ASSUME NEW S, NEW found, DbFind(S, found)
    PROVE  found \subseteq S
  BY FindOneFromMatches DEF DbFind

\* A removal leaves documents of the collection only (MongoAdaptor::remove).
LEMMA RemoveSingleSubset == \A C, M : RemoveSingle(C, M) \subseteq C
  BY DEF RemoveSingle

\* $set of a pid keeps the other fields of the document (MongoAdaptor::update).
LEMMA SetPidType ==
    ASSUME NEW C \in SUBSET Docs, NEW M \in SUBSET C, NEW p \in Pids
    PROVE  SetPid(C, M, p) \in SUBSET Docs
  <1>1. ASSUME NEW d \in FindOne(M)
        PROVE  [d EXCEPT !.pid = p] \in Docs
    <2>1. d \in Docs BY <1>1, FindOneFromMatches
    <2> QED BY <2>1 DEF Docs
  <1> QED BY <1>1 DEF SetPid

-------------------------------------------------------------------------------
(* Type correctness *)

\* The pids and the sid a handler is about to write are real ones.  TypeOK alone
\* is not inductive: it would let SpawnInsert record NoPid.
HandlersTyped ==
    /\ \A h \in Hosts, w \in Workers :
          worker[h][w].pc \in {"insert", "update"} => worker[h][w].pid \in Pids
    /\ \A h \in Hosts : sched[h].pc = "update" => sched[h].pid \in Pids

TypeInv == TypeOK /\ HandlersTyped

\* What the budget is worth after it was drawn on, or not.
LEMMA SpendType ==
    ASSUME TypeOK, NEW k \in EventTypes \cup Faults, Spend(k) \/ UNCHANGED budget
    PROVE  budget' \in [EventTypes \cup Faults -> Nat]
  <1>1. budget \in [EventTypes \cup Faults -> Nat] BY DEF TypeOK
  <1>2. CASE Spend(k)
    <2>1. budget[k] \in Nat /\ budget[k] > 0 BY <1>1, <1>2 DEF Spend
    <2>2. budget[k] - 1 \in Nat BY <2>1
    <2> QED BY <1>1, <1>2, <2>2 DEF Spend
  <1>3. CASE UNCHANGED budget BY <1>1, <1>3
  <1> QED BY <1>2, <1>3

\* The typing of the variables that several actions change in the same way.
QueueTyped == queue \in [Hosts -> [Workers -> Seq(Events)]]

WorkerTyped ==
    /\ worker \in [Hosts -> [Workers -> [pc : WorkerPcs, pid : Pids \cup {NoPid}]]]
    /\ \A h \in Hosts, w \in Workers :
          worker[h][w].pc \in {"insert", "update"} => worker[h][w].pid \in Pids

SchedTyped ==
    /\ sched \in [Hosts -> [pc : SchedPcs, todo : SUBSET Docs, sid : Sids \cup {NoSid},
                            pid : Pids \cup {NoPid}, host : Hosts]]
    /\ \A h \in Hosts : sched[h].pc = "update" => sched[h].pid \in Pids

ProcessesTyped ==
    /\ owner \in [Hosts -> [Pids -> Sids \cup {NoSid, Foreign}]]
    /\ alive \in [Hosts -> SUBSET Pids]

LEMMA TypeInvParts ==
    TypeInv <=>
        /\ cache \in SUBSET Docs
        /\ nextId \in Nat
        /\ ProcessesTyped
        /\ up \in [Hosts -> BOOLEAN]
        /\ index \in [Hosts -> Workers]
        /\ QueueTyped
        /\ WorkerTyped
        /\ SchedTyped
        /\ budget \in [EventTypes \cup Faults -> Nat]
  BY DEF TypeInv, TypeOK, HandlersTyped, ProcessesTyped, QueueTyped, WorkerTyped, SchedTyped

\* The same parts after a step.
LEMMA TypeInvPartsNext ==
    TypeInv' <=>
        /\ cache' \in SUBSET Docs
        /\ nextId' \in Nat
        /\ ProcessesTyped'
        /\ up' \in [Hosts -> BOOLEAN]
        /\ index' \in [Hosts -> Workers]
        /\ QueueTyped'
        /\ WorkerTyped'
        /\ SchedTyped'
        /\ budget' \in [EventTypes \cup Faults -> Nat]
  BY DEF TypeInv, TypeOK, HandlersTyped, ProcessesTyped, QueueTyped, WorkerTyped, SchedTyped

\* A handler moves to its next step, or returns and pops its event.
LEMMA GotoType ==
    ASSUME WorkerTyped, QueueTyped, NEW h \in Hosts, NEW w \in Workers,
           NEW pc \in WorkerPcs, NEW p \in Pids \cup {NoPid},
           pc \in {"insert", "update"} => p \in Pids,
           Goto(h, w, pc, p)
    PROVE  WorkerTyped' /\ QueueTyped'
  <1>1. [pc |-> pc, pid |-> p] \in [pc : WorkerPcs, pid : Pids \cup {NoPid}]
    OBVIOUS
  <1>2. QueueTyped' BY DEF Goto, QueueTyped
  <1>3. WorkerTyped' BY <1>1 DEF Goto, WorkerTyped
  <1> QED BY <1>2, <1>3

LEMMA DoneType ==
    ASSUME WorkerTyped, QueueTyped, NEW h \in Hosts, NEW w \in Workers,
           queue[h][w] # <<>>, Done(h, w)
    PROVE  WorkerTyped' /\ QueueTyped'
  <1>1. IdleWorker \in [pc : WorkerPcs, pid : Pids \cup {NoPid}]
    BY DEF IdleWorker, WorkerPcs
  <1>2. WorkerTyped' BY <1>1 DEF Done, WorkerTyped, IdleWorker
  <1>3. Tail(queue[h][w]) \in Seq(Events) BY DEF QueueTyped
  <1>4. QueueTyped' BY <1>3 DEF Done, QueueTyped
  <1> QED BY <1>2, <1>4

\* The schedule thread goes to the next record of its snapshot, or to sleep.
LEMMA NextProbeType ==
    ASSUME SchedTyped, NEW h \in Hosts, NEW todo \in SUBSET Docs, NextProbe(h, todo)
    PROVE  SchedTyped'
  <1>1. Asleep(h) \in [pc : SchedPcs, todo : SUBSET Docs, sid : Sids \cup {NoSid},
                       pid : Pids \cup {NoPid}, host : Hosts]
    BY DEF Asleep, SchedPcs
  <1>2. [Asleep(h) EXCEPT !.pc = "probe", !.todo = todo] \in
            [pc : SchedPcs, todo : SUBSET Docs, sid : Sids \cup {NoSid},
             pid : Pids \cup {NoPid}, host : Hosts]
    BY DEF Asleep, SchedPcs
  <1> QED BY <1>1, <1>2 DEF NextProbe, SchedTyped, Asleep

LEMMA SkipType ==
    ASSUME SchedTyped, NEW h \in Hosts, Skip(h)
    PROVE  SchedTyped'
  <1>1. sched[h].todo \ Current(h) \in SUBSET Docs BY DEF SchedTyped
  <1> QED BY <1>1, NextProbeType DEF Skip

\* The type of the schedule thread's locals.
SchedLocals == [pc : SchedPcs, todo : SUBSET Docs, sid : Sids \cup {NoSid},
                pid : Pids \cup {NoPid}, host : Hosts]

\* The schedule thread moves on.
LEMMA SchedGotoType ==
    ASSUME SchedTyped, NEW h \in Hosts, NEW r \in SchedLocals,
           r.pc = "update" => r.pid \in Pids,
           sched' = [sched EXCEPT ![h] = r]
    PROVE  SchedTyped'
  BY DEF SchedTyped, SchedLocals

\* A fork enters a pid in the tables of its host.
LEMMA NewProcessType ==
    ASSUME ProcessesTyped, NEW h \in Hosts, NEW p \in Pids,
           NEW s \in Sids \cup {NoSid, Foreign}, NewProcess(h, p, s)
    PROVE  ProcessesTyped'
  BY DEF NewProcess, ProcessesTyped

LEMMA KillType ==
    ASSUME ProcessesTyped, NEW h \in Hosts, NEW p, UNCHANGED owner,
           alive' = [alive EXCEPT ![h] = @ \ {p}]
    PROVE  ProcessesTyped'
  BY DEF ProcessesTyped
\* Worker steps at a database query: found, and the way on or out.
LEMMA DbFindType ==
    ASSUME TypeOK, NEW S, NEW found, DbFind(S, found)
    PROVE  budget' \in [EventTypes \cup Faults -> Nat]
  BY SpendType DEF DbFind, Faults

LEMMA DbWriteType ==
    ASSUME TypeOK, NEW new \in SUBSET Docs, DbWrite(new)
    PROVE  cache' \in SUBSET Docs /\ budget' \in [EventTypes \cup Faults -> Nat]
  BY SpendType DEF DbWrite, Faults, TypeOK

LEMMA ForkFailsType ==
    ASSUME TypeInv, NEW h \in Hosts, ForkFails(h)
    PROVE  ProcessesTyped' /\ budget' \in [EventTypes \cup Faults -> Nat]
  <1>1. budget' \in [EventTypes \cup Faults -> Nat]
    BY SpendType DEF ForkFails, Faults, TypeInv
  <1> QED BY <1>1, TypeInvParts DEF ForkFails, ProcessesTyped

\* The event a worker handles is one that a client can send.
LEMMA InWorkType ==
    ASSUME TypeInv, NEW h \in Hosts, NEW w \in Workers, queue[h][w] # <<>>
    PROVE  InWork(h, w) \in Events
  <1>1. queue[h][w] \in Seq(Events) BY DEF TypeInv, TypeOK
  <1> QED BY <1>1 DEF InWork

\* A server that dies leaves its own variables as it found them at its start.
LEMMA DieType ==
    ASSUME TypeInv, NEW h \in Hosts, Die(h),
           budget' \in [EventTypes \cup Faults -> Nat]
    PROVE  TypeInv'
  <1> USE TypeInvParts, TypeInvPartsNext
  <1>1. IdleWorker \in [pc : WorkerPcs, pid : Pids \cup {NoPid}]
    BY DEF IdleWorker, WorkerPcs
  <1>2. WorkerTyped' BY <1>1 DEF Die, WorkerTyped, IdleWorker
  <1>3. <<>> \in Seq(Events) OBVIOUS
  <1>4. QueueTyped' BY <1>3 DEF Die, QueueTyped
  <1>5. Asleep(h) \in [pc : SchedPcs, todo : SUBSET Docs, sid : Sids \cup {NoSid},
                       pid : Pids \cup {NoPid}, host : Hosts]
    BY DEF Asleep, SchedPcs
  <1>6. SchedTyped' BY <1>5 DEF Die, SchedTyped, Asleep
  <1>7. 0 \in Workers BY NumWorkersAssumption DEF Workers
  <1>8. index' \in [Hosts -> Workers] BY <1>7 DEF Die
  <1> QED BY <1>2, <1>4, <1>6, <1>8 DEF Die, ProcessesTyped

\* Every step of a worker keeps the types.
LEMMA WorkerStepType ==
    ASSUME TypeInv, NEW h \in Hosts, NEW w \in Workers, WorkerStep(h, w)
    PROVE  TypeInv'
  <1> USE TypeInvParts, TypeInvPartsNext
  <1>t. TypeOK BY DEF TypeInv
  <1>1. CASE SpawnCheck(h, w)
    <2>1. PICK found \in SUBSET cache :
             /\ DbFind(BySid(cache, InWork(h, w).sid), found)
             /\ IF found = {} THEN Goto(h, w, "fork", NoPid) ELSE Done(h, w)
      BY <1>1 DEF SpawnCheck
    <2>2. budget' \in [EventTypes \cup Faults -> Nat] BY <2>1, <1>t, DbFindType
    <2>3. WorkerTyped' /\ QueueTyped'
      BY <2>1, <1>1, GotoType, DoneType DEF SpawnCheck, At, WorkerPcs
    <2> QED BY <2>2, <2>3, <1>1 DEF SpawnCheck, ProcessesTyped, SchedTyped
  <1>2. CASE SpawnFork(h, w)
    <2>1. queue[h][w] # <<>> /\ InWork(h, w).sid \in Sids \cup {NoSid}
      BY <1>2, InWorkType DEF SpawnFork, At, Events
    <2>2. CASE \E p \in Pids : NewProcess(h, p, InWork(h, w).sid)
                               /\ Goto(h, w, "insert", p) /\ UNCHANGED budget
      <3>1. ProcessesTyped' BY <2>1, <2>2, NewProcessType
      <3>2. WorkerTyped' /\ QueueTyped' BY <2>2, GotoType DEF WorkerPcs
      <3> QED BY <3>1, <3>2, <2>2, <1>2 DEF SpawnFork, SchedTyped
    <2>3. CASE ForkFails(h) /\ Done(h, w)
      <3>1. WorkerTyped' /\ QueueTyped' BY <2>1, <2>3, DoneType
      <3> QED BY <3>1, <2>3, ForkFailsType, <1>2 DEF SpawnFork, SchedTyped
    <2> QED BY <2>2, <2>3, <1>2 DEF SpawnFork
  <1>3. CASE SpawnInsert(h, w)
    <2>1. queue[h][w] # <<>> /\ InWork(h, w).type = "create" BY <1>3 DEF SpawnInsert, At
    <2>2. InWork(h, w).sid \in Sids BY <2>1, InWorkType DEF Events
    <2>3. worker[h][w].pid \in Pids BY <1>3 DEF SpawnInsert, At, WorkerTyped
    <2>4. NewRecord(h, w) \in Docs BY <2>2, <2>3 DEF NewRecord, Docs
    <2>5. cache' \in SUBSET Docs /\ budget' \in [EventTypes \cup Faults -> Nat]
      BY <2>4, <1>t, <1>3, DbWriteType DEF SpawnInsert, Insert
    <2>6. WorkerTyped' /\ QueueTyped' BY <2>1, <1>3, DoneType DEF SpawnInsert
    <2> QED BY <2>5, <2>6, <1>3 DEF SpawnInsert, ProcessesTyped, SchedTyped
  <1>4. CASE RemoveFind(h, w)
    <2>1. PICK found \in SUBSET cache :
             /\ DbFind(BySid(cache, InWork(h, w).sid), found)
             /\ \/ found = {} /\ Done(h, w)
                \/ \E d \in found : Goto(h, w, "delete", d.pid)
      BY <1>4 DEF RemoveFind
    <2>2. budget' \in [EventTypes \cup Faults -> Nat] BY <2>1, <1>t, DbFindType
    <2>3. \A d \in found : d.pid \in Pids \cup {NoPid} BY DEF Docs
    <2>4. WorkerTyped' /\ QueueTyped'
      BY <2>1, <2>3, <1>4, GotoType, DoneType DEF RemoveFind, At, WorkerPcs
    <2> QED BY <2>2, <2>4, <1>4 DEF RemoveFind, ProcessesTyped, SchedTyped
  <1>5. CASE RemoveDelete(h, w)
    <2>1. RemoveSingle(cache, RemoveQuery(h, w)) \in SUBSET Docs BY RemoveSingleSubset
    <2>2. cache' \in SUBSET Docs /\ budget' \in [EventTypes \cup Faults -> Nat]
      BY <2>1, <1>t, <1>5, DbWriteType DEF RemoveDelete
    <2>3. worker[h][w].pid \in Pids \cup {NoPid} BY DEF WorkerTyped
    <2>4. WorkerTyped' /\ QueueTyped' BY <2>3, <1>5, GotoType DEF RemoveDelete, WorkerPcs
    <2> QED BY <2>2, <2>4, <1>5 DEF RemoveDelete, ProcessesTyped, SchedTyped
  <1>6. CASE RemoveKill(h, w)
    <2>1. WorkerTyped' /\ QueueTyped' BY <1>6, DoneType DEF RemoveKill, At
    <2>2. ProcessesTyped' BY <1>6, KillType DEF RemoveKill, KillProcess
    <2> QED BY <2>1, <2>2, <1>6 DEF RemoveKill, SchedTyped
  <1>7. CASE ReloadFind(h, w)
    <2>1. PICK found \in SUBSET cache :
             /\ DbFind(BySid(cache, InWork(h, w).sid), found)
             /\ IF found = {} THEN Done(h, w) ELSE Goto(h, w, "refork", NoPid)
      BY <1>7 DEF ReloadFind
    <2>2. budget' \in [EventTypes \cup Faults -> Nat] BY <2>1, <1>t, DbFindType
    <2>3. WorkerTyped' /\ QueueTyped'
      BY <2>1, <1>7, GotoType, DoneType DEF ReloadFind, At, WorkerPcs
    <2> QED BY <2>2, <2>3, <1>7 DEF ReloadFind, ProcessesTyped, SchedTyped
  <1>8. CASE ReloadFork(h, w)
    <2>1. queue[h][w] # <<>> /\ InWork(h, w).sid \in Sids \cup {NoSid}
      BY <1>8, InWorkType DEF ReloadFork, At, Events
    <2>2. CASE \E p \in Pids : NewProcess(h, p, InWork(h, w).sid)
                               /\ Goto(h, w, "update", p) /\ UNCHANGED budget
      <3>1. ProcessesTyped' BY <2>1, <2>2, NewProcessType
      <3>2. WorkerTyped' /\ QueueTyped' BY <2>2, GotoType DEF WorkerPcs
      <3> QED BY <3>1, <3>2, <2>2, <1>8 DEF ReloadFork, SchedTyped
    <2>3. CASE ForkFails(h) /\ Done(h, w)
      <3>1. WorkerTyped' /\ QueueTyped' BY <2>1, <2>3, DoneType
      <3> QED BY <3>1, <2>3, ForkFailsType, <1>8 DEF ReloadFork, SchedTyped
    <2> QED BY <2>2, <2>3, <1>8 DEF ReloadFork
  <1>9. CASE ReloadUpdate(h, w)
    <2>1. worker[h][w].pid \in Pids BY <1>9 DEF ReloadUpdate, At, WorkerTyped
    <2>2. UpdatePid(InWork(h, w).sid, worker[h][w].pid) \in SUBSET Docs
      BY <2>1, SetPidType DEF UpdatePid, BySid
    <2>3. cache' \in SUBSET Docs /\ budget' \in [EventTypes \cup Faults -> Nat]
      BY <2>2, <1>t, <1>9, DbWriteType DEF ReloadUpdate
    <2>4. WorkerTyped' /\ QueueTyped' BY <1>9, DoneType DEF ReloadUpdate, At
    <2> QED BY <2>3, <2>4, <1>9 DEF ReloadUpdate, ProcessesTyped, SchedTyped
  <1>10. CASE WorkerAbort(h, w)
    <2>1. Die(h) /\ UNCHANGED budget BY <1>10 DEF WorkerAbort
    <2> QED BY <2>1, DieType
  <1> QED BY <1>1, <1>2, <1>3, <1>4, <1>5, <1>6, <1>7, <1>8, <1>9, <1>10 DEF WorkerStep
\* Every step of the schedule thread keeps the types.
LEMMA SchedStepType ==
    ASSUME TypeInv, NEW h \in Hosts, SchedStep(h)
    PROVE  TypeInv'
  <1> USE TypeInvParts, TypeInvPartsNext
  <1>t. TypeOK BY DEF TypeInv
  <1>s. sched[h].todo \subseteq Docs BY DEF SchedTyped
  <1>r. sched[h] \in SchedLocals BY DEF SchedTyped, SchedLocals
  <1>c. Current(h) \subseteq sched[h].todo BY FindOneFromMatches DEF Current
  <1>1. CASE SchedScan(h)
    <2>0. PICK docs \in SUBSET cache : NextProbe(h, docs) BY <1>1 DEF SchedScan
    <2>1. docs \in SUBSET Docs BY <1>t DEF TypeOK
    <2>3. SchedTyped' BY <2>0, <2>1, NextProbeType
    <2>2. budget' \in [EventTypes \cup Faults -> Nat]
      BY <1>1, <1>t, SpendType DEF SchedScan, Faults
    <2> QED BY <2>3, <2>2, <1>1 DEF SchedScan, ProcessesTyped, QueueTyped, WorkerTyped
  <1>2. CASE SchedProbe(h)
    <2>1. PICK d \in Current(h) :
             IF check_system_process_exist(h, d.pid)
             THEN NextProbe(h, sched[h].todo \ {d})
             ELSE sched' = [sched EXCEPT ![h] = [@ EXCEPT !.pc = "lookup", !.pid = d.pid]]
      BY <1>2 DEF SchedProbe
    <2>2. d.pid \in Pids BY <1>s, <1>c DEF Docs
    <2>3. CASE NextProbe(h, sched[h].todo \ {d})
      BY <2>3, <1>s, NextProbeType, <1>2
         DEF SchedProbe, ProcessesTyped, QueueTyped, WorkerTyped
    <2>4. CASE sched' = [sched EXCEPT ![h] = [@ EXCEPT !.pc = "lookup", !.pid = d.pid]]
      <3>1. sched' = [sched EXCEPT ![h] = [sched[h] EXCEPT !.pc = "lookup", !.pid = d.pid]]
        BY <2>4
      <3>2. "lookup" \in SchedPcs BY DEF SchedPcs
      <3> DEFINE r == [sched[h] EXCEPT !.pc = "lookup", !.pid = d.pid]
      <3>4. r \in SchedLocals /\ r.pc = "lookup" BY <1>r, <2>2, <3>2 DEF SchedLocals
      <3>5. sched' = [sched EXCEPT ![h] = r] BY <3>1
      <3> HIDE DEF r
      <3>3. SchedTyped' BY <3>4, <3>5, SchedGotoType
      <3> QED BY <3>3, <1>2 DEF SchedProbe, ProcessesTyped, QueueTyped, WorkerTyped
    <2> QED BY <2>1, <2>3, <2>4
  <1>3. CASE SchedLookup(h)
    <2>1. PICK found \in SUBSET cache :
             /\ DbFind(Recheck(h), found)
             /\ \/ found = {} /\ Skip(h)
                \/ \E d \in found :
                      sched' = [sched EXCEPT ![h] =
                        [@ EXCEPT !.pc = "fork", !.sid = d.sid, !.pid = d.pid,
                                  !.host = d.host]]
      BY <1>3 DEF SchedLookup
    <2>2. budget' \in [EventTypes \cup Faults -> Nat] BY <2>1, <1>t, DbFindType
    <2>3. CASE Skip(h)
      <3>1. SchedTyped' BY <2>3, SkipType
      <3> QED BY <3>1, <2>2, <1>3 DEF SchedLookup, ProcessesTyped, QueueTyped, WorkerTyped
    <2>4. CASE \E d \in found :
                  sched' = [sched EXCEPT ![h] =
                        [@ EXCEPT !.pc = "fork", !.sid = d.sid, !.pid = d.pid,
                                  !.host = d.host]]
      <3>1. PICK d \in found :
                  sched' = [sched EXCEPT ![h] =
                        [@ EXCEPT !.pc = "fork", !.sid = d.sid, !.pid = d.pid,
                                  !.host = d.host]]
        BY <2>4
      <3>2. d.sid \in Sids /\ d.pid \in Pids /\ d.host \in Hosts BY DEF Docs
      <3>3. "fork" \in SchedPcs BY DEF SchedPcs
      <3> DEFINE r == [sched[h] EXCEPT !.pc = "fork", !.sid = d.sid, !.pid = d.pid,
                                       !.host = d.host]
      <3>5. r \in SchedLocals /\ r.pc = "fork" BY <1>r, <3>2, <3>3 DEF SchedLocals
      <3>6. sched' = [sched EXCEPT ![h] = r] BY <3>1
      <3> HIDE DEF r
      <3>4. SchedTyped' BY <3>5, <3>6, SchedGotoType
      <3> QED BY <3>4, <2>2, <1>3 DEF SchedLookup, ProcessesTyped, QueueTyped, WorkerTyped
    <2> QED BY <2>1, <2>3, <2>4
  <1>4. CASE SchedFork(h)
    <2>1. sched[h].sid \in Sids \cup {NoSid} BY DEF SchedTyped
    <2>2. CASE \E p \in Pids :
                  /\ NewProcess(h, p, sched[h].sid)
                  /\ sched' = [sched EXCEPT ![h] = [@ EXCEPT !.pc = "update", !.pid = p]]
                  /\ UNCHANGED budget
      <3>1. ProcessesTyped' BY <2>1, <2>2, NewProcessType
      <3>2. PICK p \in Pids : sched' = [sched EXCEPT ![h] = [@ EXCEPT !.pc = "update", !.pid = p]]
        BY <2>2
      <3>4. "update" \in SchedPcs BY DEF SchedPcs
      <3> DEFINE r == [sched[h] EXCEPT !.pc = "update", !.pid = p]
      <3>6. r \in SchedLocals /\ r.pc = "update" /\ r.pid = p BY <1>r, <3>4 DEF SchedLocals
      <3>7. sched' = [sched EXCEPT ![h] = r] BY <3>2
      <3> HIDE DEF r
      <3>5. SchedTyped' BY <3>6, <3>7, SchedGotoType
      <3> QED BY <3>1, <3>5, <2>2, <1>4 DEF SchedFork, QueueTyped, WorkerTyped
    <2>3. CASE ForkFails(h) /\ Skip(h)
      <3>1. SchedTyped' BY <2>3, SkipType
      <3> QED BY <3>1, <2>3, ForkFailsType, <1>4 DEF SchedFork, QueueTyped, WorkerTyped
    <2> QED BY <2>2, <2>3, <1>4 DEF SchedFork
  <1>5. CASE SchedUpdate(h)
    <2>1. sched[h].pid \in Pids BY <1>5 DEF SchedUpdate, SchedAt, SchedTyped
    <2>2. UpdatePid(sched[h].sid, sched[h].pid) \in SUBSET Docs
      BY <2>1, SetPidType DEF UpdatePid, BySid
    <2>3. cache' \in SUBSET Docs /\ budget' \in [EventTypes \cup Faults -> Nat]
      BY <2>2, <1>t, <1>5, DbWriteType DEF SchedUpdate
    <2>4. SchedTyped' BY <1>5, SkipType DEF SchedUpdate
    <2> QED BY <2>3, <2>4, <1>5 DEF SchedUpdate, ProcessesTyped, QueueTyped, WorkerTyped
  <1> QED BY <1>1, <1>2, <1>3, <1>4, <1>5 DEF SchedStep

\* Every step keeps the types.
LEMMA NextType == TypeInv /\ [Next]_vars => TypeInv'
  <1> SUFFICES ASSUME TypeInv, [Next]_vars PROVE TypeInv'
    OBVIOUS
  <1> USE TypeInvParts, TypeInvPartsNext
  <1>t. TypeOK BY DEF TypeInv
  <1>1. CASE UNCHANGED vars
    BY <1>1 DEF vars, ProcessesTyped, QueueTyped, WorkerTyped, SchedTyped
  <1>2. ASSUME NEW h \in Hosts, HostStep(h)
        PROVE  TypeInv'
    <2>1. ASSUME NEW ev \in Events, put_data(h, ev)
          PROVE  TypeInv'
      <3>1. ev.type \in EventTypes BY DEF Events, EventTypes
      <3>2. budget' \in [EventTypes \cup Faults -> Nat]
        BY <2>1, <3>1, <1>t, SpendType DEF put_data
      <3>3. index[h] \in Workers OBVIOUS
      <3>4. Append(queue[h][index[h]], ev) \in Seq(Events) BY <3>3 DEF QueueTyped
      <3>5. QueueTyped' BY <3>3, <3>4, <2>1 DEF put_data, QueueTyped
      <3>6. NextWorker(index[h]) \in Workers
        BY <3>3, NumWorkersAssumption DEF NextWorker, Workers
      <3>7. index' \in [Hosts -> Workers] BY <3>6, <2>1 DEF put_data
      <3> QED BY <3>2, <3>5, <3>7, <2>1 DEF put_data, ProcessesTyped, WorkerTyped, SchedTyped
    <2>2. ASSUME NEW w \in Workers, WorkerStep(h, w)
          PROVE  TypeInv'
      BY <2>2, WorkerStepType
    <2>3. CASE SchedStep(h)
      BY <2>3, SchedStepType
    <2>4. ASSUME NEW p \in Pids, ProcessExit(h, p)
          PROVE  TypeInv'
      <3>1. budget' \in [EventTypes \cup Faults -> Nat]
        BY <2>4, <1>t, SpendType DEF ProcessExit, Faults
      <3>2. ProcessesTyped' BY <2>4, KillType DEF ProcessExit
      <3> QED BY <3>1, <3>2, <2>4 DEF ProcessExit, QueueTyped, WorkerTyped, SchedTyped
    <2>5. ASSUME NEW p \in Pids, ForeignStart(h, p)
          PROVE  TypeInv'
      <3>1. budget' \in [EventTypes \cup Faults -> Nat]
        BY <2>5, <1>t, SpendType DEF ForeignStart, Faults
      <3>2. ProcessesTyped' BY <2>5, NewProcessType DEF ForeignStart
      <3> QED BY <3>1, <3>2, <2>5 DEF ForeignStart, QueueTyped, WorkerTyped, SchedTyped
    <2>6. CASE Crash(h)
      <3>1. budget' \in [EventTypes \cup Faults -> Nat]
        BY <2>6, <1>t, SpendType DEF Crash, Faults
      <3> QED BY <3>1, <2>6, DieType DEF Crash
    <2>7. CASE Restart(h)
      BY <2>7 DEF Restart, ProcessesTyped, QueueTyped, WorkerTyped, SchedTyped
    <2> QED BY <1>2, <2>1, <2>2, <2>3, <2>4, <2>5, <2>6, <2>7 DEF HostStep
  <1> QED BY <1>1, <1>2 DEF Next

\* The initial state has the types.
LEMMA InitType == Init => TypeInv
  <1> SUFFICES ASSUME Init PROVE TypeInv
    OBVIOUS
  <1>1. 0 \in Workers BY NumWorkersAssumption DEF Workers
  <1>2. WorkerTyped
    BY DEF Init, WorkerTyped, IdleWorker, WorkerPcs
  <1>3. SchedTyped
    BY DEF Init, SchedTyped, Asleep, SchedPcs
  <1>4. QueueTyped BY DEF Init, QueueTyped
  <1>5. ProcessesTyped BY DEF Init, ProcessesTyped
  <1> QED BY <1>1, <1>2, <1>3, <1>4, <1>5, BudgetAssumption, TypeInvParts DEF Init

\* Every variable keeps its type in every behaviour: no handler writes an
\* unset pid or an empty sid to the cache, no worker index leaves the list of
\* workers, and nothing is queued that no REST handler builds.
THEOREM TypeCorrect == Spec => []TypeOK
  <1>1. Spec => []TypeInv BY InitType, NextType, PTL DEF Spec
  <1>2. TypeInv => TypeOK BY DEF TypeInv
  <1> QED BY <1>1, <1>2, PTL
===============================================================================
