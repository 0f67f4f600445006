---------------------------- MODULE WatchdogProofs ----------------------------
(***************************************************************************)
(* Theorems about Watchdog, for every number of processes, of faults and   *)
(* of the operator's actions.                                              *)
(***************************************************************************)
EXTENDS Watchdog, TLAPS

-------------------------------------------------------------------------------
(* The effects of the operations that several actions share *)

LEMMA UseType ==
    ASSUME left \in [WdFaults -> Nat], NEW k \in WdFaults, Use(k) \/ UNCHANGED left
    PROVE  left' \in [WdFaults -> Nat]
  <1>1. CASE Use(k)
    <2>1. left[k] \in Nat /\ left[k] > 0 BY <1>1 DEF Use
    <2>2. left[k] - 1 \in Nat BY <2>1
    <2> QED BY <1>1, <2>2 DEF Use
  <1>2. CASE UNCHANGED left BY <1>2
  <1> QED BY <1>1, <1>2

\* What a database call leaves of the collection and of the budget.
LEMMA HostWriteEffect ==
    ASSUME NEW new, HostWrite(new)
    PROVE  /\ Use("db") \/ UNCHANGED left
           /\ hosts' = new \/ hosts' = hosts
  BY DEF HostWrite

LEMMA HostExistEffect ==
    ASSUME NEW key, NEW answer, HostExist(key, answer)
    PROVE  Use("db") \/ UNCHANGED left
  BY DEF HostExist

LEMMA RemoveSingleKeepsSubset == \A C, M : RemoveSingle(C, M) \subseteq C
  BY DEF RemoveSingle

-------------------------------------------------------------------------------
(* Type correctness *)

LEMMA InitType == WatchdogInit => WatchdogTypeOK
  <1> SUFFICES ASSUME WatchdogInit PROVE WatchdogTypeOK
    OBVIOUS
  <1>1. inst \in [Instances -> InstPcs] BY DEF WatchdogInit, InstPcs
  <1>2. left \in [WdFaults -> Nat] BY WdBudgetAssumption DEF WatchdogInit
  <1> QED BY <1>1, <1>2 DEF WatchdogInit, WatchdogTypeOK, PulldPcs

LEMMA EndProcessType ==
    ASSUME WatchdogTypeOK, NEW i \in Instances, EndProcess(i)
    PROVE  /\ inst' \in [Instances -> InstPcs]
           /\ lock' \in Instances \cup {NoInstance, "pulld"}
  <1>1. inst' = [inst EXCEPT ![i] = "none"] BY DEF EndProcess
  <1>2. lock' = NoInstance \/ lock' = lock BY DEF EndProcess
  <1> QED BY <1>1, <1>2 DEF WatchdogTypeOK, InstPcs

LEMMA NewInstanceType ==
    ASSUME WatchdogTypeOK, NewInstance
    PROVE  inst' \in [Instances -> InstPcs]
  BY DEF WatchdogTypeOK, NewInstance, InstPcs

LEMMA PulldStepType ==
    ASSUME WatchdogTypeOK, PulldStep \/ PulldSignal
    PROVE  WatchdogTypeOK'
  <1> USE DEF WatchdogTypeOK
  <1>1. CASE PulldBoot BY <1>1 DEF PulldBoot, PulldPcs
  <1>2. CASE PulldEnterLoop BY <1>2 DEF PulldEnterLoop, PulldPcs
  <1>3. CASE PulldProbe
    <2>1. left' \in [WdFaults -> Nat] BY <1>3, UseType DEF PulldProbe, WdFaults
    <2> QED BY <1>3, <2>1 DEF PulldProbe, PulldPcs
  <1>4. CASE PulldClose BY <1>4 DEF PulldClose, ProbeResult, PulldPcs
  <1>5. CASE PulldFindHost
    <2>1. left' \in [WdFaults -> Nat]
      BY <1>5, HostExistEffect, UseType DEF PulldFindHost, WdFaults
    <2> QED BY <1>5, <2>1 DEF PulldFindHost, PulldPcs
  <1>6. CASE PulldRemoveHost
    <2>1. HostWrite(HostsWithoutStale) BY <1>6 DEF PulldRemoveHost
    <2>2. left' \in [WdFaults -> Nat]
      BY <2>1, HostWriteEffect, UseType DEF WdFaults
    <2>3. HostsWithoutStale \subseteq hosts
      BY RemoveSingleKeepsSubset DEF HostsWithoutStale
    <2>4. hosts' \in SUBSET HostDocs BY <2>1, <2>3, HostWriteEffect
    <2> QED BY <1>6, <2>2, <2>4 DEF PulldRemoveHost, PulldPcs
  <1>7. CASE PulldSpawn
    <2>1. inst' \in [Instances -> InstPcs] BY <1>7, NewInstanceType DEF PulldSpawn
    <2>2. left' \in [WdFaults -> Nat] BY <1>7, UseType DEF PulldSpawn, WdFaults
    <2> QED BY <1>7, <2>1, <2>2 DEF PulldSpawn, PulldPcs
  <1>8. CASE PulldSystemReturns BY <1>8 DEF PulldSystemReturns, PulldPcs
  <1>9. CASE PulldWake BY <1>9 DEF PulldWake, KeepsRunning, PulldPcs
  <1>10. CASE PulldSignal
    <2>1. left' \in [WdFaults -> Nat] BY <1>10, UseType DEF PulldSignal, WdFaults
    <2> QED BY <1>10, <2>1 DEF PulldSignal, AfterHandler, PulldPcs
  <1> QED BY <1>1, <1>2, <1>3, <1>4, <1>5, <1>6, <1>7, <1>8, <1>9, <1>10 DEF PulldStep

LEMMA PullStepType ==
    ASSUME WatchdogTypeOK, NEW i \in Instances,
           PullStep(i) \/ PullTerm(i) \/ PullHangs(i) \/ PullCrash(i)
    PROVE  WatchdogTypeOK'
  <1> USE DEF WatchdogTypeOK
  <1>1. CASE PullLock(i)
    <2>1. left' \in [WdFaults -> Nat] BY <1>1, UseType DEF PullLock, WdFaults
    <2>2. CASE lock = NoInstance /\ lock' = i /\ inst' = [inst EXCEPT ![i] = "check"]
      BY <1>1, <2>1, <2>2 DEF PullLock, InstPcs
    <2>3. CASE EndProcess(i) BY <1>1, <2>3, <2>1, EndProcessType DEF PullLock
    <2> QED BY <1>1, <2>2, <2>3 DEF PullLock, LockOrExit
  <1>2. CASE PullCheckHost(i)
    <2>1. left' \in [WdFaults -> Nat]
      BY <1>2, HostExistEffect, UseType DEF PullCheckHost, WdFaults
    <2>2. /\ inst' \in [Instances -> InstPcs]
          /\ lock' \in Instances \cup {NoInstance, "pulld"}
      BY <1>2, EndProcessType DEF PullCheckHost, ExitIfDuplicate, InstPcs
    <2> QED BY <1>2, <2>1, <2>2 DEF PullCheckHost
  <1>3. CASE PullRegister(i)
    <2> DEFINE new == Insert(hosts, [id |-> nextHost, host |-> PullKey, by |-> i])
    <2>1. HostWrite(new) BY <1>3 DEF PullRegister
    <2>2. left' \in [WdFaults -> Nat]
      BY <2>1, HostWriteEffect, UseType DEF WdFaults
    <2>3. new \in SUBSET HostDocs BY DEF Insert, HostDocs
    <2>4. hosts' \in SUBSET HostDocs BY <2>1, <2>3, HostWriteEffect
    <2> QED BY <1>3, <2>2, <2>4 DEF PullRegister, InstPcs
  <1>4. CASE PullBind(i)
    <2>1. left' \in [WdFaults -> Nat] BY <1>4, UseType DEF PullBind, WdFaults
    <2>2. /\ inst' \in [Instances -> InstPcs]
          /\ lock' \in Instances \cup {NoInstance, "pulld"}
      BY <1>4, EndProcessType DEF PullBind, InstPcs
    <2> QED BY <1>4, <2>1, <2>2 DEF PullBind
  <1>5. CASE PullTerminates(i)
    <2> DEFINE new == RemoveSingle(hosts, ByHost(PullKey))
    <2>1. HostWrite(new) /\ EndProcess(i) BY <1>5 DEF PullTerminates
    <2>2. left' \in [WdFaults -> Nat]
      BY <2>1, HostWriteEffect, UseType DEF WdFaults
    <2>3. hosts' \in SUBSET HostDocs
      BY <2>1, HostWriteEffect, RemoveSingleKeepsSubset
    <2> QED BY <1>5, <2>1, <2>2, <2>3, EndProcessType DEF PullTerminates
  <1>6. CASE PullTerm(i)
    <2>1. left' \in [WdFaults -> Nat] BY <1>6, UseType DEF PullTerm, WdFaults
    <2>2. /\ inst' \in [Instances -> InstPcs]
          /\ lock' \in Instances \cup {NoInstance, "pulld"}
      BY <1>6, EndProcessType DEF PullTerm, InstPcs
    <2> QED BY <1>6, <2>1, <2>2 DEF PullTerm
  <1>7. CASE PullHangs(i)
    <2>1. left' \in [WdFaults -> Nat] BY <1>7, UseType DEF PullHangs, WdFaults
    <2> QED BY <1>7, <2>1 DEF PullHangs, InstPcs
  <1>8. CASE PullCrash(i)
    <2>1. left' \in [WdFaults -> Nat] BY <1>8, UseType DEF PullCrash, WdFaults
    <2> QED BY <1>8, <2>1, EndProcessType DEF PullCrash
  <1> QED BY <1>1, <1>2, <1>3, <1>4, <1>5, <1>6, <1>7, <1>8 DEF PullStep

LEMMA NextType == WatchdogTypeOK /\ [WatchdogNext]_wvars => WatchdogTypeOK'
  <1> SUFFICES ASSUME WatchdogTypeOK, [WatchdogNext]_wvars PROVE WatchdogTypeOK'
    OBVIOUS
  <1>1. CASE PulldStep \/ PulldSignal BY <1>1, PulldStepType
  <1>2. CASE ManualStart
    <2>1. left' \in [WdFaults -> Nat]
      BY <1>2, UseType DEF ManualStart, WdFaults, WatchdogTypeOK
    <2>2. inst' \in [Instances -> InstPcs] BY <1>2, NewInstanceType DEF ManualStart
    <2> QED BY <1>2, <2>1, <2>2 DEF ManualStart, WatchdogTypeOK
  <1>3. ASSUME NEW i \in Instances,
               PullStep(i) \/ PullTerm(i) \/ PullHangs(i) \/ PullCrash(i)
        PROVE  WatchdogTypeOK'
    BY <1>3, PullStepType
  <1>4. CASE UNCHANGED wvars BY <1>4 DEF wvars, WatchdogTypeOK
  <1> QED BY <1>1, <1>2, <1>3, <1>4 DEF WatchdogNext

\* The variables of pulld and of the pull servers keep their types (both main.cpp).
THEOREM WatchdogTypeCorrect == WatchdogSpec => []WatchdogTypeOK
  <1> QED BY InitType, NextType, PTL DEF WatchdogSpec

-------------------------------------------------------------------------------
(* One server at a time *)

\* OneServer alone is not inductive: a process that is stopped or hangs holds the
\* lock as well.  Whoever is past the pid file is the one that holds it.
LockHeld ==
    \A i \in Instances : inst[i] \notin {"none", "starting"} => lock = i

LockInv == WatchdogTypeOK /\ LockHeld

LEMMA EndProcessLock ==
    ASSUME LockInv, NEW i \in Instances, EndProcess(i)
    PROVE  LockHeld'
  <1> SUFFICES ASSUME NEW j \in Instances, inst'[j] \notin {"none", "starting"}
               PROVE  lock' = j
    BY DEF LockHeld
  <1>1. inst' = [inst EXCEPT ![i] = "none"] BY DEF EndProcess
  <1>2. j # i /\ inst'[j] = inst[j] BY <1>1 DEF LockInv, WatchdogTypeOK
  <1>3. lock = j BY <1>2 DEF LockInv, LockHeld
  <1> QED BY <1>2, <1>3 DEF EndProcess

LEMMA NewInstanceLock ==
    ASSUME LockInv, NewInstance, UNCHANGED lock
    PROVE  LockHeld'
  BY DEF LockInv, LockHeld, WatchdogTypeOK, NewInstance

LEMMA NextLock == LockInv /\ [WatchdogNext]_wvars => LockHeld'
  <1> SUFFICES ASSUME LockInv, [WatchdogNext]_wvars PROVE LockHeld'
    OBVIOUS
  <1> USE DEF LockInv, LockHeld, WatchdogTypeOK
  <1>1. CASE PulldBoot BY <1>1 DEF PulldBoot
  <1>2. CASE PulldEnterLoop BY <1>2 DEF PulldEnterLoop
  <1>3. CASE PulldProbe BY <1>3, InstancesAssumption DEF PulldProbe
  <1>4. CASE PulldClose BY <1>4, InstancesAssumption DEF PulldClose
  <1>5. CASE PulldFindHost BY <1>5 DEF PulldFindHost
  <1>6. CASE PulldRemoveHost BY <1>6 DEF PulldRemoveHost
  <1>7. CASE PulldSpawn BY <1>7, NewInstanceLock DEF PulldSpawn
  <1>8. CASE PulldSystemReturns BY <1>8 DEF PulldSystemReturns
  <1>9. CASE PulldWake BY <1>9 DEF PulldWake
  <1>10. CASE PulldSignal BY <1>10 DEF PulldSignal
  <1>11. CASE ManualStart BY <1>11, NewInstanceLock DEF ManualStart
  <1>12. CASE UNCHANGED wvars BY <1>12 DEF wvars
  <1>13. ASSUME NEW i \in Instances,
                PullStep(i) \/ PullTerm(i) \/ PullHangs(i) \/ PullCrash(i)
         PROVE  LockHeld'
    <2>1. CASE PullLock(i)
      <3>1. CASE lock = NoInstance /\ lock' = i /\ inst' = [inst EXCEPT ![i] = "check"]
        BY <3>1, InstancesAssumption
      <3> QED BY <2>1, <3>1, EndProcessLock DEF PullLock, LockOrExit
    <2>2. CASE PullCheckHost(i)
      BY <2>2, EndProcessLock DEF PullCheckHost, ExitIfDuplicate
    <2>3. CASE PullRegister(i) BY <2>3 DEF PullRegister
    <2>4. CASE PullBind(i) BY <2>4, EndProcessLock DEF PullBind
    <2>5. CASE PullTerminates(i) BY <2>5, EndProcessLock DEF PullTerminates
    <2>6. CASE PullTerm(i) BY <2>6, EndProcessLock DEF PullTerm, Starting
    <2>7. CASE PullHangs(i) BY <2>7 DEF PullHangs
    <2>8. CASE PullCrash(i) BY <2>8, EndProcessLock DEF PullCrash
    <2> QED BY <1>13, <2>1, <2>2, <2>3, <2>4, <2>5, <2>6, <2>7, <2>8 DEF PullStep
  <1> QED
    BY <1>1, <1>2, <1>3, <1>4, <1>5, <1>6, <1>7, <1>8, <1>9, <1>10, <1>11, <1>12, <1>13
    DEF WatchdogNext, PulldStep

LEMMA LockInvariant == WatchdogSpec => []LockInv
  <1>1. WatchdogInit => LockInv BY InitType DEF WatchdogInit, LockInv, LockHeld
  <1>2. LockInv /\ [WatchdogNext]_wvars => LockInv' BY NextType, NextLock DEF LockInv
  <1> QED BY <1>1, <1>2, PTL DEF WatchdogSpec

\* However often pull is started, one process at a time gets past the pid file.
THEOREM OneServerCorrect == WatchdogSpec => []OneServer
  <1>1. LockInv => OneServer BY DEF LockInv, LockHeld, OneServer, Past
  <1> QED BY <1>1, LockInvariant, PTL

-------------------------------------------------------------------------------
(* One record of the host *)

\* Drawing on the budget never gives anything back.
LEMMA BudgetShrinks ==
    ASSUME WatchdogTypeOK, NEW k \in WdFaults, Use(k) \/ UNCHANGED left,
           left["db"] <= WdBudget["db"]
    PROVE  left'["db"] <= WdBudget["db"] /\ (NoDbFault' => NoDbFault)
  <1>1. left \in [WdFaults -> Nat] /\ "db" \in WdFaults /\ WdBudget["db"] \in Nat
    BY WdBudgetAssumption DEF WatchdogTypeOK, WdFaults
  <1>2. CASE Use(k)
    <2>1. left' = [left EXCEPT ![k] = @ - 1] /\ left[k] > 0 BY <1>2 DEF Use
    <2>2. left[k] \in Nat /\ left["db"] \in Nat BY <1>1
    <2>3. left'["db"] = IF k = "db" THEN left["db"] - 1 ELSE left["db"] BY <1>1, <2>1
    <2> QED BY <1>1, <2>1, <2>2, <2>3 DEF NoDbFault
  <1>3. CASE UNCHANGED left BY <1>3 DEF NoDbFault
  <1> QED BY <1>2, <1>3

\* A process that is about to insert the host has found no record, and nobody can
\* have inserted one since: who inserts holds the lock.
NoneBeforeInsert ==
    NoDbFault => \A i \in Instances : inst[i] = "insert" => hosts = {}

HostInv ==
    /\ LockInv
    /\ left["db"] <= WdBudget["db"]
    /\ HostOnce
    /\ NoneBeforeInsert

\* What is left to show of a step that inserts no record and brings nobody to "insert".
LEMMA HostInvKept ==
    ASSUME HostInv, LockInv', NEW k \in WdFaults, Use(k) \/ UNCHANGED left,
           hosts' \subseteq hosts,
           \A i \in Instances : inst'[i] = "insert" => inst[i] = "insert"
    PROVE  HostInv'
  <1>1. left'["db"] <= WdBudget["db"] /\ (NoDbFault' => NoDbFault)
    BY BudgetShrinks DEF HostInv, LockInv
  <1>2. HostOnce' BY <1>1 DEF HostInv, HostOnce
  <1>3. NoneBeforeInsert' BY <1>1 DEF HostInv, NoneBeforeInsert
  <1> QED BY <1>1, <1>2, <1>3 DEF HostInv

LEMMA EndProcessHost ==
    ASSUME HostInv, NEW i \in Instances, EndProcess(i)
    PROVE  \A j \in Instances : inst'[j] = "insert" => inst[j] = "insert"
  BY DEF EndProcess, HostInv, LockInv, WatchdogTypeOK

LEMMA NewInstanceHost ==
    ASSUME HostInv, NewInstance
    PROVE  \A j \in Instances : inst'[j] = "insert" => inst[j] = "insert"
  BY DEF NewInstance, HostInv, LockInv, WatchdogTypeOK

\* host_register is told that there is no record: there is none, or the query failed.
LEMMA CheckHostKeepsHostInv ==
    ASSUME HostInv, LockInv', NEW i \in Instances, PullCheckHost(i)
    PROVE  HostInv'
  <1>1. PICK answer \in BOOLEAN :
            HostExist(PullKey, answer) /\ ExitIfDuplicate(i, answer)
    BY DEF PullCheckHost
  <1>2. /\ Use("db") \/ UNCHANGED left
        /\ "db" \in WdFaults
        /\ hosts' = hosts
    BY <1>1, HostExistEffect DEF WdFaults, PullCheckHost
  <1>3. CASE EndProcess(i) BY <1>2, <1>3, HostInvKept, EndProcessHost
  <1>4. CASE ~answer /\ inst' = [inst EXCEPT ![i] = "insert"]
    <2>1. left'["db"] <= WdBudget["db"] /\ (NoDbFault' => NoDbFault)
      BY <1>2, BudgetShrinks DEF HostInv, LockInv
    <2>2. HostOnce' BY <1>2, <2>1 DEF HostInv, HostOnce
    <2>3. NoDbFault' => hosts = {}
      <3> SUFFICES ASSUME NoDbFault' PROVE hosts = {}
        OBVIOUS
      <3>1. ~Use("db")
        <4>1. Use("db") => left'["db"] < left["db"] /\ left'["db"] \in Nat
          BY <1>2 DEF Use, HostInv, LockInv, WatchdogTypeOK
        <4> QED BY <2>1, <4>1 DEF NoDbFault
      <3>2. ByHost(PullKey) = {} BY <1>1, <1>4, <3>1 DEF HostExist
      <3> QED BY <3>2 DEF ByHost, HostInv, LockInv, WatchdogTypeOK, HostDocs
    <2> QED BY <1>2, <2>1, <2>2, <2>3 DEF HostInv, NoneBeforeInsert
  <1> QED BY <1>1, <1>3, <1>4 DEF ExitIfDuplicate

\* The only insertion: into an empty collection, while no call has failed.
LEMMA RegisterKeepsHostInv ==
    ASSUME HostInv, LockInv', NEW i \in Instances, PullRegister(i)
    PROVE  HostInv'
  <1> DEFINE doc == [id |-> nextHost, host |-> PullKey, by |-> i]
  <1>1. /\ Use("db") \/ UNCHANGED left
        /\ hosts' = hosts \cup {doc} \/ hosts' = hosts
    BY HostWriteEffect DEF PullRegister, Insert
  <1>2. "db" \in WdFaults BY DEF WdFaults
  <1>3. left'["db"] <= WdBudget["db"] /\ (NoDbFault' => NoDbFault)
    BY <1>1, <1>2, BudgetShrinks DEF HostInv, LockInv
  <1>4. NoDbFault' => hosts = {}
    BY <1>3 DEF HostInv, NoneBeforeInsert, PullRegister
  <1>5. HostOnce' BY <1>1, <1>4 DEF HostOnce
  <1>6. ASSUME NEW j \in Instances PROVE inst'[j] # "insert"
    <2>1. inst'[j] = IF j = i THEN "bind" ELSE inst[j]
      BY DEF PullRegister, HostInv, LockInv, WatchdogTypeOK
    <2>2. inst[j] = "insert" => j = i
      BY DEF HostInv, LockInv, LockHeld, PullRegister
    <2> QED BY <2>1, <2>2
  <1> QED BY <1>3, <1>5, <1>6 DEF HostInv, NoneBeforeInsert

LEMMA NextHostInv == HostInv /\ [WatchdogNext]_wvars => HostInv'
  <1> SUFFICES ASSUME HostInv, [WatchdogNext]_wvars PROVE HostInv'
    OBVIOUS
  <1>1. LockInv' BY NextType, NextLock DEF HostInv, LockInv
  <1>2. {"crash", "term", "hang", "bind", "manual", "stop", "io", "db"} \subseteq WdFaults
    BY DEF WdFaults
  <1>3. CASE \/ PulldBoot \/ PulldEnterLoop \/ PulldProbe \/ PulldClose
             \/ PulldSystemReturns \/ PulldWake
    BY <1>1, <1>2, <1>3, HostInvKept
    DEF PulldBoot, PulldEnterLoop, PulldProbe, PulldClose, PulldSystemReturns, PulldWake
  <1>4. CASE PulldFindHost
    BY <1>1, <1>2, <1>4, HostInvKept, HostExistEffect DEF PulldFindHost
  <1>5. CASE PulldRemoveHost
    <2>1. Use("db") \/ UNCHANGED left BY <1>5, HostWriteEffect DEF PulldRemoveHost
    <2>2. hosts' \subseteq hosts
      BY <1>5, HostWriteEffect, RemoveSingleKeepsSubset
      DEF PulldRemoveHost, HostsWithoutStale
    <2> QED BY <1>1, <1>2, <1>5, <2>1, <2>2, HostInvKept DEF PulldRemoveHost
  <1>6. CASE PulldSpawn
    BY <1>1, <1>2, <1>6, HostInvKept, NewInstanceHost DEF PulldSpawn
  <1>7. CASE PulldSignal BY <1>1, <1>2, <1>7, HostInvKept DEF PulldSignal
  <1>8. CASE ManualStart
    BY <1>1, <1>2, <1>8, HostInvKept, NewInstanceHost DEF ManualStart
  <1>9. CASE UNCHANGED wvars BY <1>1, <1>2, <1>9, HostInvKept DEF wvars
  <1>10. ASSUME NEW i \in Instances,
               PullStep(i) \/ PullTerm(i) \/ PullHangs(i) \/ PullCrash(i)
        PROVE  HostInv'
    <2>1. inst \in [Instances -> InstPcs] BY DEF HostInv, LockInv, WatchdogTypeOK
    <2>2. CASE PullLock(i)
      <3>1. \A j \in Instances : inst'[j] = "insert" => inst[j] = "insert"
        BY <2>1, <2>2, EndProcessHost DEF PullLock, LockOrExit
      <3> QED BY <1>1, <1>2, <2>2, <3>1, HostInvKept DEF PullLock
    <2>3. CASE PullCheckHost(i) BY <1>1, <2>3, CheckHostKeepsHostInv
    <2>4. CASE PullRegister(i) BY <1>1, <2>4, RegisterKeepsHostInv
    <2>5. CASE PullBind(i)
      <3>1. \A j \in Instances : inst'[j] = "insert" => inst[j] = "insert"
        BY <2>1, <2>5, EndProcessHost DEF PullBind
      <3> QED BY <1>1, <1>2, <2>5, <3>1, HostInvKept DEF PullBind
    <2>6. CASE PullTerminates(i)
      <3>1. Use("db") \/ UNCHANGED left BY <2>6, HostWriteEffect DEF PullTerminates
      <3>2. hosts' \subseteq hosts
        BY <2>6, HostWriteEffect, RemoveSingleKeepsSubset DEF PullTerminates
      <3> QED
        BY <1>1, <1>2, <2>6, <3>1, <3>2, HostInvKept, EndProcessHost DEF PullTerminates
    <2>7. CASE PullTerm(i)
      <3>1. \A j \in Instances : inst'[j] = "insert" => inst[j] = "insert"
        BY <2>1, <2>7, EndProcessHost DEF PullTerm
      <3> QED BY <1>1, <1>2, <2>7, <3>1, HostInvKept DEF PullTerm
    <2>8. CASE PullHangs(i)
      BY <1>1, <1>2, <2>1, <2>8, HostInvKept DEF PullHangs
    <2>9. CASE PullCrash(i)
      BY <1>1, <1>2, <2>9, HostInvKept, EndProcessHost DEF PullCrash
    <2> QED
      BY <1>10, <2>2, <2>3, <2>4, <2>5, <2>6, <2>7, <2>8, <2>9 DEF PullStep
  <1> QED
    BY <1>3, <1>4, <1>5, <1>6, <1>7, <1>8, <1>9, <1>10 DEF WatchdogNext, PulldStep

LEMMA InitHostInv == WatchdogInit => HostInv
  BY InitType, WdBudgetAssumption
  DEF WatchdogInit, HostInv, LockInv, LockHeld, HostOnce, NoneBeforeInsert, WdFaults

\* Query and insertion of the host are two calls, and still no host is registered
\* twice while no database call fails.
THEOREM HostOnceCorrect == WatchdogSpec => []HostOnce
  <1>1. HostInv => HostOnce BY DEF HostInv
  <1> QED BY <1>1, InitHostInv, NextHostInv, PTL DEF WatchdogSpec

-------------------------------------------------------------------------------
(* The record of a server that serves *)

\* Nobody starts pull but pulld, whose loop does not turn before the start is over.
OnlyPulldStarts == FastStart /\ WdBudget["manual"] = 0

AllGone == \A i \in Instances : inst[i] = "none"
NoneStarts == \A i \in Instances : inst[i] \notin Starting

\* The probe is three steps old when the record is removed, and still true: the
\* processes were gone when pulld had the lock, and only pulld starts another one.
ProbeHolds ==
    /\ pulld \in {"boot", "ready"} => AllGone
    /\ pulld \in {"probe", "close"} => NoneStarts
    /\ pulld = "close" /\ lock = "pulld" => AllGone
    /\ pulld \in {"find", "remove", "spawn"} => AllGone

LeftInv == left["manual"] = 0 /\ left["db"] <= WdBudget["db"]

RecordKept ==
    NoDbFault => \A i \in Instances : inst[i] \in {"bind", "serving"} => Registered(i)

ServingInv == LockInv /\ LeftInv /\ ProbeHolds /\ RecordKept

LEMMA NextLeft ==
    ASSUME WatchdogTypeOK, LeftInv, [WatchdogNext]_wvars
    PROVE  LeftInv' /\ (NoDbFault' => NoDbFault) /\ (NoDbFault' => ~Use("db")) /\ ~ManualStart
  <1>1. /\ left \in [WdFaults -> Nat]
        /\ {"crash", "term", "hang", "bind", "manual", "stop", "io", "db"} \subseteq WdFaults
        /\ WdBudget["db"] \in Nat
    BY WdBudgetAssumption DEF WatchdogTypeOK, WdFaults
  <1>2. ASSUME NEW k \in WdFaults, Use(k)
        PROVE  LeftInv' /\ (NoDbFault' => NoDbFault /\ k # "db") /\ k # "manual"
    <2>1. left' = [left EXCEPT ![k] = @ - 1] /\ left[k] > 0 BY <1>2 DEF Use
    <2>2. /\ left'["manual"] = IF k = "manual" THEN left["manual"] - 1 ELSE left["manual"]
          /\ left'["db"] = IF k = "db" THEN left["db"] - 1 ELSE left["db"]
      BY <1>1, <2>1
    <2>3. k # "manual" BY <2>1 DEF LeftInv
    <2>4. left["db"] \in Nat BY <1>1
    <2> QED BY <1>1, <2>2, <2>3, <2>4 DEF LeftInv, NoDbFault
  <1>3. ~ManualStart BY <1>1, <1>2 DEF ManualStart
  <1>4. UNCHANGED left \/ \E k \in WdFaults : Use(k)
    <2>1. ASSUME NEW new, HostWrite(new) PROVE UNCHANGED left \/ Use("db")
      BY <2>1, HostWriteEffect
    <2>2. ASSUME NEW key, NEW answer, HostExist(key, answer)
          PROVE  UNCHANGED left \/ Use("db")
      BY <2>2, HostExistEffect
    <2>3. CASE PulldStep
      BY <1>1, <2>1, <2>2, <2>3
      DEF PulldStep, PulldBoot, PulldEnterLoop, PulldProbe, PulldClose, PulldFindHost,
          PulldRemoveHost, PulldSpawn, PulldSystemReturns, PulldWake
    <2>4. CASE PulldSignal BY <1>1, <2>4 DEF PulldSignal
    <2>5. ASSUME NEW i \in Instances,
                 PullStep(i) \/ PullTerm(i) \/ PullHangs(i) \/ PullCrash(i)
          PROVE  UNCHANGED left \/ \E k \in WdFaults : Use(k)
      BY <1>1, <2>1, <2>2, <2>5
      DEF PullStep, PullLock, PullCheckHost, PullRegister, PullBind, PullTerminates,
          PullTerm, PullHangs, PullCrash
    <2> QED BY <1>3, <2>3, <2>4, <2>5 DEF WatchdogNext, wvars
  <1>5. CASE UNCHANGED left
    <2>1. ~Use("db") BY <1>1, <1>5 DEF Use
    <2> QED BY <1>3, <1>5, <2>1 DEF LeftInv, NoDbFault
  <1>6. CASE \E k \in WdFaults : Use(k)
    <2>1. PICK k \in WdFaults : Use(k) BY <1>6
    <2>2. k # "db" => ~Use("db")
      <3>1. left'[k] = left[k] - 1 /\ left[k] \in Nat BY <1>1, <2>1 DEF Use
      <3>2. k # "db" /\ Use("db") => left'[k] = left[k] BY <1>1 DEF Use
      <3> QED BY <3>1, <3>2
    <2> QED BY <1>2, <1>3, <2>1, <2>2
  <1> QED BY <1>4, <1>5, <1>6

\* What a step of a pull server may do to inst and lock.
LEMMA PullStepEffect ==
    ASSUME WatchdogTypeOK, NEW i \in Instances,
           PullStep(i) \/ PullTerm(i) \/ PullHangs(i) \/ PullCrash(i)
    PROVE  /\ inst[i] # "none" /\ UNCHANGED pulld
           /\ inst[i] \notin Starting => inst'[i] \notin Starting
           /\ \A j \in Instances : j # i => inst'[j] = inst[j]
           /\ lock' = lock \/ lock' \in {i, NoInstance}
  <1> USE DEF WatchdogTypeOK, Starting
  <1>1. ASSUME EndProcess(i), inst[i] # "none"
        PROVE  /\ inst'[i] = "none"
               /\ \A j \in Instances : j # i => inst'[j] = inst[j]
               /\ lock' = lock \/ lock' = NoInstance
    BY <1>1 DEF EndProcess
  <1>2. CASE PullLock(i) BY <1>1, <1>2 DEF PullLock, LockOrExit
  <1>3. CASE PullCheckHost(i) BY <1>1, <1>3 DEF PullCheckHost, ExitIfDuplicate
  <1>4. CASE PullRegister(i) BY <1>4 DEF PullRegister
  <1>5. CASE PullBind(i) BY <1>1, <1>5 DEF PullBind
  <1>6. CASE PullTerminates(i) BY <1>1, <1>6 DEF PullTerminates
  <1>7. CASE PullTerm(i) BY <1>1, <1>7 DEF PullTerm
  <1>8. CASE PullHangs(i) BY <1>8 DEF PullHangs
  <1>9. CASE PullCrash(i) BY <1>1, <1>9 DEF PullCrash
  <1> QED BY <1>2, <1>3, <1>4, <1>5, <1>6, <1>7, <1>8, <1>9 DEF PullStep

LEMMA NextProbe ==
    ASSUME OnlyPulldStarts, ServingInv, [WatchdogNext]_wvars
    PROVE  ProbeHolds'
  <1> USE DEF ServingInv, LockInv, ProbeHolds, AllGone, NoneStarts
  <1>1. CASE PulldBoot BY <1>1 DEF PulldBoot
  <1>2. CASE PulldEnterLoop BY <1>2 DEF PulldEnterLoop, Starting
  <1>3. CASE PulldProbe
    <2>1. pulld = "probe" /\ pulld' \in {"close", "done"} /\ UNCHANGED inst
      BY <1>3 DEF PulldProbe
    <2>2. pulld' = "close" /\ lock' = "pulld" => AllGone'
      <3> SUFFICES ASSUME pulld' = "close", lock' = "pulld", NEW i \in Instances
                   PROVE  inst'[i] = "none"
        OBVIOUS
      <3>1. lock \notin Instances BY <1>3, <2>1, InstancesAssumption DEF PulldProbe
      <3>2. inst[i] \in {"none", "starting"} BY <3>1 DEF LockHeld
      <3> QED BY <2>1, <3>2 DEF Starting
    <2> QED BY <2>1, <2>2
  <1>4. CASE PulldClose
    BY <1>4 DEF PulldClose, ProbeResult
  <1>5. CASE PulldFindHost BY <1>5 DEF PulldFindHost
  <1>6. CASE PulldRemoveHost BY <1>6 DEF PulldRemoveHost
  <1>7. CASE PulldSpawn BY <1>7 DEF PulldSpawn
  <1>8. CASE PulldSystemReturns BY <1>8 DEF PulldSystemReturns
  <1>9. CASE PulldWake BY <1>9 DEF PulldWake, KeepsRunning, OnlyPulldStarts
  <1>10. CASE PulldSignal BY <1>10 DEF PulldSignal, AfterHandler
  <1>11. CASE UNCHANGED wvars BY <1>11 DEF wvars
  <1>12. ASSUME NEW i \in Instances,
                PullStep(i) \/ PullTerm(i) \/ PullHangs(i) \/ PullCrash(i)
         PROVE  ProbeHolds'
    <2>1. /\ inst[i] # "none" /\ UNCHANGED pulld
          /\ inst[i] \notin Starting => inst'[i] \notin Starting
          /\ \A j \in Instances : j # i => inst'[j] = inst[j]
          /\ lock' = lock \/ lock' \in {i, NoInstance}
      BY <1>12, PullStepEffect
    <2>2. ~AllGone BY <2>1
    <2>3. NoneStarts => NoneStarts' BY <2>1
    <2>4. lock' = "pulld" => lock = "pulld"
      BY <2>1, InstancesAssumption
    <2> QED BY <2>1, <2>2, <2>3, <2>4
  <1>13. ~ManualStart BY NextLeft
  <1> QED
    BY <1>1, <1>2, <1>3, <1>4, <1>5, <1>6, <1>7, <1>8, <1>9, <1>10, <1>11, <1>12, <1>13
    DEF WatchdogNext, PulldStep

LEMMA NextRecord ==
    ASSUME OnlyPulldStarts, ServingInv, [WatchdogNext]_wvars
    PROVE  RecordKept'
  <1> SUFFICES ASSUME NoDbFault', NEW i \in Instances, inst'[i] \in {"bind", "serving"}
               PROVE  Registered(i)'
    BY DEF RecordKept
  <1> USE DEF ServingInv, LockInv, WatchdogTypeOK
  <1>1. NoDbFault /\ ~Use("db") /\ ~ManualStart BY NextLeft
  <1>2. inst[i] \in {"bind", "serving"} => Registered(i) BY <1>1 DEF RecordKept
  <1>3. CASE UNCHANGED <<inst, hosts>> BY <1>2, <1>3 DEF Registered
  <1>4. CASE PulldRemoveHost BY <1>4 DEF PulldRemoveHost, ProbeHolds, AllGone
  <1>5. CASE PulldSpawn /\ NewInstance
    <2>1. PICK k \in Instances : inst' = [inst EXCEPT ![k] = "starting"]
      BY <1>5 DEF NewInstance
    <2>2. k # i BY <2>1
    <2>3. inst'[i] = inst[i] BY <2>1, <2>2
    <2> QED BY <1>2, <1>5, <2>3 DEF PulldSpawn, Registered
  <1>6. ASSUME NEW j \in Instances,
               PullStep(j) \/ PullTerm(j) \/ PullHangs(j) \/ PullCrash(j)
        PROVE  Registered(i)'
    <2>1. ASSUME NEW k \in Instances, EndProcess(k)
          PROVE  i # k /\ inst'[i] = inst[i]
      BY <2>1 DEF EndProcess
    <2>2. CASE inst'[i] = inst[i] /\ UNCHANGED hosts BY <1>2, <2>2 DEF Registered
    <2>3. CASE PullLock(j) BY <2>1, <2>2, <2>3 DEF PullLock, LockOrExit
    <2>4. CASE PullCheckHost(j) BY <2>1, <2>2, <2>4 DEF PullCheckHost, ExitIfDuplicate
    <2>5. CASE PullRegister(j)
      <3> DEFINE doc == [id |-> nextHost, host |-> PullKey, by |-> j]
      <3>1. hosts' = hosts \cup {doc} BY <1>1, <2>5 DEF PullRegister, HostWrite, Insert
      <3>2. CASE i = j
        <4>1. doc \in hosts' BY <3>1
        <4>2. doc.by = i BY <3>2
        <4> HIDE DEF doc
        <4> QED BY <4>1, <4>2 DEF Registered
      <3>3. CASE i # j
        <4>1. inst'[i] = inst[i] BY <2>5, <3>3 DEF PullRegister
        <4> QED BY <1>2, <3>1, <4>1 DEF Registered
      <3> QED BY <3>2, <3>3
    <2>6. CASE PullBind(j)
      <3>1. CASE EndProcess(j) BY <2>1, <2>2, <2>6, <3>1 DEF PullBind
      <3>2. CASE inst' = [inst EXCEPT ![j] = "serving"]
        <4>1. inst[i] \in {"bind", "serving"} BY <2>6, <3>2 DEF PullBind
        <4> QED BY <1>2, <2>6, <4>1 DEF PullBind, Registered
      <3> QED BY <2>6, <3>1, <3>2 DEF PullBind
    <2>7. CASE PullTerminates(j)
      <3>1. i # j /\ inst'[i] = inst[i] BY <2>1, <2>7 DEF PullTerminates
      <3>2. lock = j /\ lock = i BY <2>7, <3>1 DEF PullTerminates, LockHeld
      <3> QED BY <3>1, <3>2
    <2>8. CASE PullTerm(j) BY <2>1, <2>2, <2>8 DEF PullTerm
    <2>9. CASE PullHangs(j) BY <2>2, <2>9 DEF PullHangs
    <2>10. CASE PullCrash(j) BY <2>1, <2>2, <2>10 DEF PullCrash
    <2> QED
      BY <1>6, <2>3, <2>4, <2>5, <2>6, <2>7, <2>8, <2>9, <2>10 DEF PullStep
  <1> QED
    BY <1>1, <1>3, <1>4, <1>5, <1>6
    DEF WatchdogNext, wvars, PulldStep, PulldBoot, PulldEnterLoop, PulldProbe,
        PulldClose, PulldFindHost, PulldSpawn, PulldSystemReturns, PulldWake, PulldSignal

\* While no database call fails and nobody but pulld starts pull, a pull server that
\* serves is registered: pulld never removes the record of a live one, although it
\* acts on an old probe (check_process_alive).
THEOREM ServingIsRegisteredCorrect ==
    OnlyPulldStarts => (WatchdogSpec => []ServingIsRegistered)
  <1> SUFFICES ASSUME OnlyPulldStarts PROVE WatchdogSpec => []ServingIsRegistered
    OBVIOUS
  <1>1. WatchdogInit => ServingInv
    BY InitType, WdBudgetAssumption
    DEF WatchdogInit, ServingInv, LockInv, LockHeld, LeftInv, ProbeHolds, AllGone,
        NoneStarts, RecordKept, OnlyPulldStarts, WdFaults, Starting
  <1>2. ServingInv /\ [WatchdogNext]_wvars => ServingInv'
    BY NextType, NextLock, NextLeft, NextProbe, NextRecord DEF ServingInv, LockInv
  <1>3. ServingInv => ServingIsRegistered
    BY DEF ServingInv, RecordKept, ServingIsRegistered
  <1> QED BY <1>1, <1>2, <1>3, PTL DEF WatchdogSpec
===============================================================================
