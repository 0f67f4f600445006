--------------------------- MODULE WorkerQueueProofs ---------------------------
(***************************************************************************)
(* Theorems about one worker's std::queue, for every size of a node and of *)
(* the map, any number of events and any memory: the queue that nobody     *)
(* locks for the worker is first in, first out until a pop crosses nodes   *)
(* while a push moves the map, and that needs B - 1 waiting events.        *)
(*                                                                         *)
(* The argument: the queue is read off the memory with the worker's and    *)
(* the producer's position (HeadPos, HeadSlot, TailPos), which hide where  *)
(* each of them is within its steps.  Event number Base + j + 1 is in slot *)
(* j of the first node, and so on through three nodes at most.             *)
(* The types hold after a race too, which leaves the positions of both     *)
(* threads in the map (PlacesInv).                                         *)
(***************************************************************************)
EXTENDS WorkerQueue, TLAPS

-------------------------------------------------------------------------------
(* The queue as it is, wherever its two threads are *)

\* The position in the map of the node with the next event to handle, and its slot.
HeadPos == IF consumer.pc \in {"free", "node"} THEN start.node + 1 ELSE start.node
HeadSlot ==
    IF Crossing THEN 0
    ELSE IF ConsumerAt("pop") THEN start.cur.slot + 1 ELSE start.cur.slot

\* The position of the node with the place for the next event, and of the last
\* node that is allocated; the event that is constructed last.
TailPos ==
    IF producer.pc \in {"first", "last"} THEN producer.at + producer.count - 1
    ELSE finish.node
LastPos == IF ProducerAt("publish") THEN TailPos + 1 ELSE TailPos
LastEvent == IF ProducerAt("publish") THEN pushed + 1 ELSE pushed

Span == TailPos - HeadPos
InUse == HeadPos .. LastPos
Base == Len(handled) - HeadSlot

Bounds ==
    /\ HeadPos \in Nat /\ LastPos < MapSize
    /\ finish.cur.slot \in 0 .. B - 1
    /\ start.cur.slot \in 0 .. B - 1
    /\ Span \in 0 .. 2
    /\ pushed - Len(handled) \in 0 .. MaxBacklog

Count ==
    \/ Span = 0 /\ pushed = Base + finish.cur.slot
    \/ Span = 1 /\ pushed = Base + B + finish.cur.slot
    \/ Span = 2 /\ pushed = Base + B + B + finish.cur.slot

\* The nodes in use are allocated, and are different nodes.
NodesInUse ==
    /\ \A i \in InUse : map[i] \in live
    /\ \A i, j \in InUse : map[i] = map[j] => i = j
    /\ map[TailPos] = finish.cur.node

\* The events that wait are where the worker will look for them.
Holds(i, base) ==
    i \in InUse =>
        \A j \in 0 .. B - 1 :
            base + j + 1 \in Len(handled) + 1 .. LastEvent =>
                memory[map[i]][j] = base + j + 1

Contents ==
    /\ Holds(HeadPos, Base)
    /\ Holds(HeadPos + 1, Base + B)
    /\ Holds(HeadPos + 2, Base + B + B)

View == Bounds /\ Count /\ NodesInUse /\ Contents /\ InOrder

\* The worker's iterator: at rest it names the first node; on the way to the next
\* one the old node is freed once, and its fields are set one by one.
ConsumerInv ==
    /\ ~ConsumerAt("wild")
    /\ ~Crossing =>
          /\ start.first = map[HeadPos] /\ start.last = map[HeadPos]
          /\ start.cur.node = map[HeadPos]
    /\ ConsumerAt("free") => start.first \in live /\ \A i \in InUse : map[i] # start.first
    /\ ConsumerAt("node") => consumer.at = start.node + 1
    /\ ConsumerAt("first") => consumer.at = start.node
    /\ ConsumerAt("last") => start.first = map[start.node]
    /\ ConsumerAt("cur") => start.first = map[start.node] /\ start.last = map[start.node]

\* A push that needs a new node, and the map's move: it has counted the nodes in
\* use, one or two, and copies them where they do not overlap.
ProducerInv ==
    /\ Moving => ~Crossing
    /\ ~ProducerAt("idle") =>
          /\ finish.cur.slot = B - 1
          /\ pushed - Len(handled) < MaxBacklog /\ pushed < MaxEvents
          /\ pushed - Len(handled) <= longest
    /\ producer.pc \in {"full", "copy", "node"} => finish.node = MapSize - 1
    /\ Moving =>
          /\ producer.count = Span + 1
          /\ producer.at = (MapSize - (producer.count + 1)) \div 2
    /\ ProducerAt("node") => \A i \in 0 .. Span : map[producer.at + i] = map[HeadPos + i]
    /\ producer.pc \in {"first", "last"} => start.node = producer.at
    /\ ProducerAt("append") => finish.node < MapSize - 1

QInv == QueueTypeOK /\ View /\ ConsumerInv /\ ProducerInv

-------------------------------------------------------------------------------
(* Steps that leave the queue as it is *)

LEMMA WriteTyped ==
    ASSUME NEW mem \in [Nodes -> [0 .. B - 1 -> 0 .. MaxEvents]],
           NEW n \in Nodes, NEW s \in 0 .. B - 1, NEW v \in 0 .. MaxEvents
    PROVE  [mem EXCEPT ![n][s] = v] \in [Nodes -> [0 .. B - 1 -> 0 .. MaxEvents]]
  <1> DEFINE new == [mem[n] EXCEPT ![s] = v]
  <1>1. new \in [0 .. B - 1 -> 0 .. MaxEvents] OBVIOUS
  <1>2. [mem EXCEPT ![n][s] = v] = [mem EXCEPT ![n] = new] OBVIOUS
  <1> HIDE DEF new
  <1> QED BY <1>1, <1>2

LEMMA Fields ==
    ASSUME QueueTypeOK
    PROVE  /\ B \in Nat \ {0} /\ MapSize \in Nat /\ MaxEvents \in Nat /\ MaxBacklog \in Nat
           /\ pushed \in Nat /\ Len(handled) \in Nat
           /\ start.node \in Positions /\ start.first \in Nodes /\ start.last \in Nodes
           /\ start.cur \in Places /\ start.cur.node \in Nodes /\ start.cur.slot \in 0 .. B
           /\ finish.node \in Positions
           /\ finish.cur \in Places /\ finish.cur.node \in Nodes /\ finish.cur.slot \in 0 .. B
  <1>1. start.cur \in Places /\ finish.cur \in Places BY DEF QueueTypeOK
  <1>2. /\ start.cur.node \in Nodes /\ start.cur.slot \in 0 .. B
        /\ finish.cur.node \in Nodes /\ finish.cur.slot \in 0 .. B
    BY <1>1 DEF Places
  <1>3. pushed \in Nat /\ Len(handled) \in Nat
    BY QueueAssumption DEF QueueTypeOK
  <1> QED BY <1>1, <1>2, <1>3, QueueAssumption DEF QueueTypeOK

LEMMA ViewStays ==
    ASSUME View, UNCHANGED <<memory, live, map, handled, pushed>>,
           finish'.cur = finish.cur, start'.cur.slot \in 0 .. B - 1,
           HeadPos' = HeadPos, HeadSlot' = HeadSlot, TailPos' = TailPos,
           LastPos' = LastPos, LastEvent' = LastEvent
    PROVE  View'
  <1>1. Span' = Span /\ Base' = Base /\ InUse' = InUse BY DEF Span, Base, InUse
  <1>2. Bounds' BY <1>1 DEF View, Bounds
  <1>3. Count' BY <1>1 DEF View, Count
  <1>4. NodesInUse' BY <1>1 DEF View, NodesInUse
  <1>5. Contents' BY <1>1 DEF View, Contents, Holds
  <1>6. InOrder' BY DEF View, InOrder
  <1> QED BY <1>2, <1>3, <1>4, <1>5, <1>6 DEF View

\* In a move one or two nodes are in use: fewer than two nodes of events wait.
LEMMA ShortSpan ==
    ASSUME QInv, ~ProducerAt("idle")
    PROVE  Span \in 0 .. 1
  <1>1. /\ B \in Nat \ {0} /\ finish.cur.slot = B - 1
        /\ pushed - Len(handled) < MaxBacklog /\ MaxBacklog < 2 * B /\ MaxBacklog \in Nat
        /\ pushed \in Nat /\ Len(handled) \in Nat
        /\ start.cur.slot \in 0 .. B - 1
    BY QueueAssumption DEF QInv, QueueTypeOK, View, Bounds, ProducerInv
  <1>2. HeadSlot \in 0 .. B BY <1>1 DEF HeadSlot
  <1> QED BY <1>1, <1>2 DEF QInv, View, Bounds, Count, Base

\* A step in which no pop crosses nodes while a push moves the map.
Unraced == raced' \in BOOLEAN /\ ~(Moving /\ Crossing)'

LEMMA LastOfNodeKeeps ==
    ASSUME QInv, PushLastOfNode, Unraced
    PROVE  QInv'
  <1>1. QueueTypeOK BY DEF QInv
  <1>2. /\ ProducerAt("idle") /\ pushed - Len(handled) < MaxBacklog /\ pushed < MaxEvents
        /\ longest' = IF Waiting > longest THEN Waiting ELSE longest
        /\ finish.cur.slot = B - 1
        /\ ProducerTo(IF finish.node = MapSize - 1 THEN "full" ELSE "append")
        /\ UNCHANGED <<memory, live, map, start, finish, consumer, pushed, handled>>
    BY DEF PushLastOfNode, PushBegins, NodeFull, Waiting
  <1>3. /\ pushed \in Nat /\ Len(handled) \in Nat /\ MaxBacklog \in Nat
        /\ MaxBacklog < 2 * B /\ B \in Nat /\ MapSize \in Nat
    BY <1>1, QueueAssumption DEF QueueTypeOK
  <1>4. /\ producer'.pc = IF finish.node = MapSize - 1 THEN "full" ELSE "append"
        /\ producer' \in [pc : ProducerPcs, count : Nat, at : 0 .. MapSize]
    BY <1>1, <1>2 DEF ProducerTo, QueueTypeOK, ProducerPcs
  <1>5. longest' \in 0 .. MaxBacklog /\ pushed - Len(handled) <= longest'
    BY <1>1, <1>2, <1>3 DEF QueueTypeOK, Waiting, QInv, View, Bounds
  <1>6. QueueTypeOK'
    BY <1>1, <1>2, <1>4, <1>5 DEF QueueTypeOK, Unraced
  <1>7. View'
    <2>1. HeadPos' = HeadPos /\ HeadSlot' = HeadSlot
      BY <1>2 DEF HeadPos, HeadSlot, Crossing, ConsumerAt
    <2>2. TailPos' = TailPos /\ LastPos' = LastPos /\ LastEvent' = LastEvent
      BY <1>2, <1>4 DEF TailPos, LastPos, LastEvent, ProducerAt
    <2>3. start'.cur.slot \in 0 .. B - 1 BY <1>2 DEF QInv, View, Bounds
    <2> QED BY <1>2, <2>1, <2>2, <2>3, ViewStays DEF QInv
  <1>8. ConsumerInv'
    BY <1>2, <1>4 DEF QInv, ConsumerInv, ConsumerAt, Crossing, HeadPos, InUse, LastPos,
                      TailPos, ProducerAt
  <1>9. ProducerInv'
    <2>1. finish.node # MapSize - 1 => finish.node < MapSize - 1
      BY <1>1, <1>3 DEF QueueTypeOK, Positions
    <2> QED BY <1>2, <1>3, <1>4, <1>5, <2>1
          DEF ProducerInv, ProducerAt, Moving
  <1> QED BY <1>6, <1>7, <1>8, <1>9 DEF QInv

-------------------------------------------------------------------------------
(* The move of the map *)

LEMMA CountKeeps ==
    ASSUME QInv, MoveCount, UNCHANGED longest, Unraced
    PROVE  QInv'
  <1>1. QueueTypeOK BY DEF QInv
  <1>2. /\ producer.pc = "full"
        /\ producer' = [pc |-> "copy", count |-> finish.node - start.node + 1,
                        at |-> (MapSize - (finish.node - start.node + 1 + 1)) \div 2]
        /\ UNCHANGED <<memory, live, map, start, finish, consumer, pushed, handled>>
    BY DEF MoveCount, ProducerAt
  <1>3. ~Crossing /\ ~Crossing'
    BY <1>2 DEF Unraced, Moving, Crossing
  <1>4. HeadPos = start.node /\ TailPos = finish.node
    BY <1>2, <1>3 DEF HeadPos, TailPos, Crossing
  <1>5. finish.node - start.node \in 0 .. 1
    BY <1>2, <1>4, ShortSpan DEF ProducerAt, Span
  <1>6. producer' \in [pc : ProducerPcs, count : Nat, at : 0 .. MapSize]
    BY <1>2, <1>5, QueueAssumption DEF ProducerPcs
  <1>7. QueueTypeOK' BY <1>1, <1>2, <1>6 DEF QueueTypeOK, Unraced
  <1>8. /\ HeadPos' = HeadPos /\ HeadSlot' = HeadSlot
        /\ TailPos' = TailPos /\ LastPos' = LastPos /\ LastEvent' = LastEvent
    BY <1>2 DEF HeadPos, HeadSlot, TailPos, LastPos, LastEvent, Crossing, ConsumerAt,
                ProducerAt
  <1>9. View'
    <2>1. start'.cur.slot \in 0 .. B - 1 BY <1>2 DEF QInv, View, Bounds
    <2> QED BY <1>2, <1>8, <2>1, ViewStays DEF QInv
  <1>10. ConsumerInv'
    BY <1>2, <1>3, <1>8 DEF QInv, ConsumerInv, ConsumerAt, Crossing, InUse
  <1>11. ProducerInv'
    <2>1. Span' = finish.node - start.node BY <1>4, <1>8 DEF Span
    <2> QED BY <1>2, <1>3, <2>1 DEF QInv, ProducerInv, ProducerAt, Moving
  <1> QED BY <1>7, <1>9, <1>10, <1>11 DEF QInv

\* The nodes in use are copied to places that none of them has.
LEMMA CopyKeeps ==
    ASSUME QInv, MoveCopy, UNCHANGED longest, Unraced
    PROVE  QInv'
  <1>1. QueueTypeOK BY DEF QInv
  <1>2. /\ producer.pc = "copy"
        /\ map' = [i \in Positions |->
                      IF i - producer.at \in 0 .. finish.node - start.node
                      THEN map[start.node + (i - producer.at)] ELSE map[i]]
        /\ ProducerTo("node")
        /\ UNCHANGED <<memory, live, start, finish, consumer, pushed, handled>>
    BY DEF MoveCopy, ProducerAt
  <1>3. /\ producer' = [producer EXCEPT !.pc = "node"]
        /\ producer' \in [pc : ProducerPcs, count : Nat, at : 0 .. MapSize]
        /\ producer'.pc = "node"
    BY <1>1, <1>2 DEF ProducerTo, QueueTypeOK, ProducerPcs
  <1>4. ~Crossing /\ ~Crossing' BY <1>2, <1>3 DEF Unraced, Moving, Crossing
  <1>5. HeadPos = start.node /\ TailPos = finish.node /\ LastPos = TailPos
    BY <1>2, <1>4 DEF HeadPos, TailPos, LastPos, Crossing, ProducerAt
  <1>6. /\ HeadPos' = HeadPos /\ HeadSlot' = HeadSlot
        /\ TailPos' = TailPos /\ LastPos' = LastPos /\ LastEvent' = LastEvent
    BY <1>2, <1>3 DEF HeadPos, HeadSlot, TailPos, LastPos, LastEvent, Crossing, ConsumerAt,
                ProducerAt
  <1>7. Span \in 0 .. 1 BY <1>2, ShortSpan DEF ProducerAt
  <1>8. /\ finish.node = MapSize - 1 /\ producer.count = Span + 1
        /\ producer.at = (MapSize - (producer.count + 1)) \div 2
    BY <1>2 DEF QInv, ProducerInv, Moving
  <1>9. /\ MapSize \in Nat /\ MapSize > 6 /\ start.node \in Positions
        /\ producer.at + 1 < start.node /\ producer.at \in Positions
        /\ Span = finish.node - start.node
    <2>1. MapSize \in Nat /\ MapSize > 6 BY QueueAssumption
    <2>2. start.node \in Positions BY <1>1 DEF QueueTypeOK
    <2>3. Span = finish.node - start.node BY <1>5 DEF Span
    <2> QED BY <1>7, <1>8, <2>1, <2>2, <2>3 DEF Positions
  <1>10. map \in [Positions -> Nodes \cup {NoNode}] BY <1>1 DEF QueueTypeOK
  <1>11. finish.node \in Positions /\ producer.at + (finish.node - start.node) < start.node
    BY <1>7, <1>8, <1>9 DEF Positions
  <1>12. /\ \A i \in start.node .. finish.node : map'[i] = map[i]
         /\ \A i \in 0 .. finish.node - start.node :
                map'[producer.at + i] = map[start.node + i]
    <2>1. producer.at \in Nat /\ MapSize \in Nat BY <1>9 DEF Positions
    <2>2. start.node \in 0 .. MapSize - 1 /\ finish.node \in 0 .. MapSize - 1
      BY <1>9, <1>11 DEF Positions
    <2>3. ASSUME NEW i \in start.node .. finish.node PROVE map'[i] = map[i]
      <3>1. i \in Positions /\ i - producer.at \notin 0 .. finish.node - start.node
        BY <1>11, <2>1, <2>2 DEF Positions
      <3> QED BY <1>2, <3>1
    <2>4. ASSUME NEW i \in 0 .. finish.node - start.node
          PROVE  map'[producer.at + i] = map[start.node + i]
      <3>1. producer.at + i \in Positions /\ (producer.at + i) - producer.at = i
        BY <1>11, <2>1, <2>2 DEF Positions
      <3> QED BY <1>2, <3>1
    <2> QED BY <2>3, <2>4
  <1>13. \A i \in InUse : i \in Positions /\ map'[i] = map[i]
    <2>1. InUse = start.node .. finish.node BY <1>5 DEF InUse
    <2>2. \A i \in start.node .. finish.node : i \in Positions BY <1>9, <1>11 DEF Positions
    <2> QED BY <1>12, <2>1, <2>2
  <1>14. \A i \in 0 .. Span : map'[producer.at + i] = map[HeadPos + i]
    BY <1>5, <1>9, <1>12
  <1>15. map' \in [Positions -> Nodes \cup {NoNode}]
    <2>1. ASSUME NEW i \in Positions, i - producer.at \in 0 .. finish.node - start.node
          PROVE  start.node + (i - producer.at) \in Positions
      BY <1>9, <1>11, <2>1 DEF Positions
    <2> QED BY <1>2, <1>10, <2>1
  <1>16. QueueTypeOK' BY <1>1, <1>2, <1>3, <1>15 DEF QueueTypeOK, Unraced
  <1>17. Span' = Span /\ Base' = Base /\ InUse' = InUse
    BY <1>2, <1>6 DEF Span, Base, InUse
  <1>18. HeadPos \in InUse /\ TailPos \in InUse
    <2>1. start.node \in start.node .. finish.node /\ finish.node \in start.node .. finish.node
      BY <1>7, <1>9, <1>11 DEF Positions
    <2> QED BY <1>5, <2>1 DEF InUse
  <1>19. View'
    <2>1. Bounds' /\ Count' BY <1>2, <1>6, <1>17 DEF QInv, View, Bounds, Count
    <2>2. NodesInUse'
      <3>1. NodesInUse BY DEF QInv, View
      <3>2. \A i \in InUse' : map'[i] = map[i] BY <1>13, <1>17
      <3>3. map'[TailPos'] = finish'.cur.node BY <1>2, <1>6, <1>13, <1>18, <3>1 DEF NodesInUse
      <3> QED BY <1>2, <1>17, <3>1, <3>2, <3>3 DEF NodesInUse
    <2>3. Contents'
      <3>1. ASSUME NEW i, NEW base, Holds(i, base) PROVE Holds(i, base)'
        BY <1>2, <1>6, <1>13, <1>17, <3>1 DEF Holds
      <3>2. Contents BY DEF QInv, View
      <3>3. (HeadPos + 1)' = HeadPos + 1 /\ (HeadPos + 2)' = HeadPos + 2
        BY <1>6
      <3> QED BY <1>6, <1>17, <3>1, <3>2, <3>3 DEF Contents
    <2>4. InOrder' BY <1>2 DEF QInv, View, InOrder
    <2> QED BY <2>1, <2>2, <2>3, <2>4 DEF View
  <1>20. ConsumerInv'
    BY <1>2, <1>4, <1>6, <1>13, <1>18 DEF QInv, ConsumerInv, ConsumerAt, Crossing
  <1>21. ProducerInv'
    <2>1. \A i \in 0 .. Span' : map'[producer'.at + i] = map'[HeadPos' + i]
      <3>1. \A i \in 0 .. Span : HeadPos + i \in InUse
        BY <1>5, <1>7, <1>8, <1>9 DEF InUse, Positions
      <3> QED BY <1>1, <1>3, <1>6, <1>13, <1>14, <1>17, <3>1 DEF QueueTypeOK
    <2>2. producer'.count = producer.count /\ producer'.at = producer.at
      BY <1>1, <1>3 DEF QueueTypeOK
    <2>3. /\ finish.cur.slot = B - 1
          /\ pushed - Len(handled) < MaxBacklog /\ pushed < MaxEvents
          /\ pushed - Len(handled) <= longest
      BY <1>2 DEF QInv, ProducerInv, ProducerAt
    <2> HIDE DEF ProducerInv
    <2> QED BY <1>2, <1>3, <1>4, <1>8, <1>17, <2>1, <2>2, <2>3 DEF ProducerInv, ProducerAt, Moving
  <1> QED BY <1>16, <1>19, <1>20, <1>21 DEF QInv

\* The queue begins at the copies from now on.
LEMMA NodeKeeps ==
    ASSUME QInv, MoveNode, UNCHANGED longest, Unraced
    PROVE  QInv'
  <1>1. QueueTypeOK BY DEF QInv
  <1>2. /\ producer.pc = "node"
        /\ start' = [start EXCEPT !.node = producer.at]
        /\ ProducerTo("first")
        /\ UNCHANGED <<memory, live, map, finish, consumer, pushed, handled>>
    BY DEF MoveNode, ProducerAt
  <1>3. /\ producer' = [producer EXCEPT !.pc = "first"]
        /\ producer' \in [pc : ProducerPcs, count : Nat, at : 0 .. MapSize]
        /\ producer'.pc = "first"
        /\ producer'.at = producer.at /\ producer'.count = producer.count
    BY <1>1, <1>2 DEF ProducerTo, QueueTypeOK, ProducerPcs
  <1>4. ~Crossing /\ ~Crossing' BY <1>2, <1>3 DEF Unraced, Moving, Crossing
  <1>5. HeadPos = start.node /\ TailPos = finish.node /\ LastPos = TailPos
        /\ LastEvent = pushed
    BY <1>2, <1>4 DEF HeadPos, TailPos, LastPos, LastEvent, Crossing, ProducerAt
  <1>6. Span \in 0 .. 1 BY <1>2, ShortSpan DEF ProducerAt
  <1>7. /\ finish.node = MapSize - 1 /\ producer.count = Span + 1
        /\ producer.at = (MapSize - (producer.count + 1)) \div 2
        /\ \A i \in 0 .. Span : map[producer.at + i] = map[HeadPos + i]
    BY <1>2 DEF QInv, ProducerInv, Moving, ProducerAt
  <1>8. MapSize \in Nat /\ MapSize > 6 BY QueueAssumption
  <1>9. producer.at \in Positions /\ producer.at + Span < MapSize /\ producer.at \in Nat
    BY <1>6, <1>7, <1>8 DEF Positions
  <1>10. /\ start'.node = producer.at /\ start'.cur = start.cur
         /\ start'.first = start.first /\ start'.last = start.last
         /\ start' \in [node : Positions, first : Nodes, last : Nodes, cur : Places]
    BY <1>1, <1>2, <1>9 DEF QueueTypeOK
  <1>11. QueueTypeOK' BY <1>1, <1>2, <1>3, <1>10 DEF QueueTypeOK, Unraced
  <1>12. HeadPos' = producer.at /\ HeadSlot' = HeadSlot
    BY <1>2, <1>4, <1>10 DEF HeadPos, HeadSlot, Crossing, ConsumerAt
  <1>13. TailPos' = producer.at + Span /\ LastPos' = TailPos' /\ LastEvent' = LastEvent
    BY <1>2, <1>3, <1>5, <1>6, <1>7, <1>9 DEF TailPos, LastPos, LastEvent, ProducerAt
  <1>14. Span' = Span /\ Base' = Base /\ InUse' = producer.at .. producer.at + Span
    BY <1>2, <1>6, <1>9, <1>12, <1>13 DEF Span, Base, InUse
  <1>15. /\ start.node \in Positions /\ Span = finish.node - start.node
         /\ InUse = HeadPos .. HeadPos + Span /\ HeadPos \in Nat
    <2>1. start.node \in Positions /\ finish.node \in Positions BY <1>1 DEF QueueTypeOK
    <2> QED BY <1>5, <1>8, <2>1 DEF InUse, Span, Positions
  \* Position i of the queue is position OldPos(i) of before.
  <1> DEFINE OldPos(i) == HeadPos + (i - producer.at)
  <1>16. \A i \in InUse' : OldPos(i) \in InUse /\ map'[i] = map[OldPos(i)]
    <2>1. SUFFICES ASSUME NEW i \in InUse' PROVE OldPos(i) \in InUse /\ map'[i] = map[OldPos(i)]
      OBVIOUS
    <2>2. i \in producer.at .. producer.at + Span BY <1>14
    <2>3. i - producer.at \in 0 .. Span /\ i \in Int /\ producer.at + (i - producer.at) = i
      BY <1>6, <1>9, <2>2
    <2>4. OldPos(i) \in InUse BY <1>6, <1>15, <2>3
    <2> QED BY <1>2, <1>7, <2>3, <2>4
  <1>17. Bounds' /\ Count'
    BY <1>2, <1>9, <1>10, <1>12, <1>13, <1>14 DEF QInv, View, Bounds, Count
  <1>18. NodesInUse'
    <2>1. NodesInUse BY DEF QInv, View
    <2>2. \A i \in InUse' : map'[i] \in live' BY <1>2, <1>16, <2>1 DEF NodesInUse
    <2>3. ASSUME NEW i \in InUse', NEW j \in InUse', map'[i] = map'[j] PROVE i = j
      <3>1. OldPos(i) = OldPos(j) BY <1>16, <2>1, <2>3 DEF NodesInUse
      <3>2. i \in Int /\ j \in Int BY <1>14
      <3> QED BY <1>9, <1>15, <3>1, <3>2
    <2>4. TailPos' \in InUse' /\ OldPos(TailPos') = TailPos
      <3>1. producer.at + Span \in producer.at .. producer.at + Span BY <1>6, <1>9
      <3>2. finish.node \in Int BY <1>7, <1>8
      <3>3. OldPos(producer.at + Span) = finish.node BY <1>5, <1>6, <1>9, <1>15, <3>2
      <3> QED BY <1>5, <1>13, <1>14, <3>1, <3>3
    <2>5. map'[TailPos'] = finish'.cur.node BY <1>2, <1>16, <2>1, <2>4 DEF NodesInUse
    <2> QED BY <2>2, <2>3, <2>5 DEF NodesInUse
  <1>19. Contents'
    <2>1. Contents BY DEF QInv, View
    <2>2. PICK at \in Nat : at = producer.at BY <1>9
    <2>3. ASSUME NEW k \in 0 .. 2, NEW base, Holds(HeadPos + k, base)
          PROVE  Holds(at + k, base)'
      <3>1. OldPos(at + k) = HeadPos + k BY <1>15, <2>2
      <3>2. ASSUME at + k \in InUse'
            PROVE  HeadPos + k \in InUse /\ map'[at + k] = map[HeadPos + k]
        BY <1>16, <3>1, <3>2
      <3> QED BY <1>2, <1>13, <2>3, <3>2 DEF Holds
    <2>4. Holds(HeadPos + 0, Base) /\ at + 0 = at BY <1>15, <2>1, <2>2 DEF Contents
    <2>5. (HeadPos + 1)' = at + 1 /\ (HeadPos + 2)' = at + 2 /\ HeadPos' = at
      BY <1>12, <2>2
    <2> QED BY <1>14, <2>1, <2>3, <2>4, <2>5 DEF Contents
  <1>20. ConsumerInv'
    <2>1. map'[producer.at] = map[HeadPos]
      <3>1. producer.at \in InUse' /\ OldPos(producer.at) = HeadPos
        BY <1>6, <1>9, <1>14, <1>15
      <3> QED BY <1>16, <3>1
    <2> QED BY <1>2, <1>4, <1>10, <1>12, <2>1 DEF QInv, ConsumerInv, ConsumerAt, Crossing
  <1>21. ProducerInv'
    <2>1. /\ finish.cur.slot = B - 1
          /\ pushed - Len(handled) < MaxBacklog /\ pushed < MaxEvents
          /\ pushed - Len(handled) <= longest
      BY <1>2 DEF QInv, ProducerInv, ProducerAt
    <2> QED BY <1>2, <1>3, <1>4, <1>7, <1>10, <1>14, <2>1
          DEF ProducerInv, ProducerAt, Moving
  <1>22. InOrder' BY <1>2 DEF QInv, View, InOrder
  <1> QED BY <1>11, <1>17, <1>18, <1>19, <1>20, <1>21, <1>22 DEF QInv, View

\* The first node, which is the last one too when one is in use.
LEMMA EndsInUse ==
    ASSUME QInv
    PROVE  /\ HeadPos \in InUse /\ TailPos \in InUse
           /\ map[HeadPos] \in live /\ map[HeadPos] \in Nodes
           /\ TailPos \in Positions
  <1>1. /\ HeadPos \in Nat /\ LastPos < MapSize /\ Span \in 0 .. 2 /\ MapSize \in Nat
        /\ live \subseteq Nodes
    BY QueueAssumption DEF QInv, View, Bounds, QueueTypeOK
  <1>2. TailPos \in Int
    <2>1. /\ producer.at \in Int /\ producer.count \in Int /\ finish.node \in Int
      BY DEF QInv, QueueTypeOK, Positions
    <2> QED BY <2>1 DEF TailPos
  <1>3. HeadPos <= TailPos /\ TailPos <= LastPos BY <1>1, <1>2 DEF Span, LastPos
  <1>4. LastPos \in Int BY <1>2 DEF LastPos
  <1>5. HeadPos \in InUse /\ TailPos \in InUse BY <1>1, <1>2, <1>3, <1>4 DEF InUse
  <1>6. TailPos \in Positions BY <1>1, <1>2, <1>3, <1>4 DEF Positions
  <1> QED BY <1>1, <1>5, <1>6 DEF QInv, View, NodesInUse

LEMMA FirstKeeps ==
    ASSUME QInv, MoveFirst, UNCHANGED longest, Unraced
    PROVE  QInv'
  <1>1. QueueTypeOK BY DEF QInv
  <1>2. /\ producer.pc = "first"
        /\ start' = [start EXCEPT !.first = map[producer.at]]
        /\ ProducerTo("last")
        /\ UNCHANGED <<memory, live, map, finish, consumer, pushed, handled>>
    BY DEF MoveFirst, ProducerAt
  <1>3. /\ producer' = [producer EXCEPT !.pc = "last"]
        /\ producer' \in [pc : ProducerPcs, count : Nat, at : 0 .. MapSize]
        /\ producer'.pc = "last"
        /\ producer'.at = producer.at /\ producer'.count = producer.count
    BY <1>1, <1>2 DEF ProducerTo, QueueTypeOK, ProducerPcs
  <1>4. ~Crossing /\ ~Crossing' BY <1>2, <1>3 DEF Unraced, Moving, Crossing
  <1>5. start.node = producer.at /\ HeadPos = start.node
    BY <1>2, <1>4 DEF QInv, ProducerInv, HeadPos, Crossing
  <1>6. map[producer.at] \in Nodes BY <1>5, EndsInUse
  <1>7. /\ start'.node = start.node /\ start'.cur = start.cur
        /\ start'.first = map[HeadPos] /\ start'.last = start.last
        /\ start' \in [node : Positions, first : Nodes, last : Nodes, cur : Places]
    BY <1>1, <1>2, <1>5, <1>6 DEF QueueTypeOK
  <1>8. QueueTypeOK' BY <1>1, <1>2, <1>3, <1>7 DEF QueueTypeOK, Unraced
  <1>9. /\ HeadPos' = HeadPos /\ HeadSlot' = HeadSlot
        /\ TailPos' = TailPos /\ LastPos' = LastPos /\ LastEvent' = LastEvent
    BY <1>2, <1>3, <1>7 DEF HeadPos, HeadSlot, TailPos, LastPos, LastEvent, Crossing, ConsumerAt,
                ProducerAt
  <1>10. View'
    <2>1. start'.cur.slot \in 0 .. B - 1 BY <1>7 DEF QInv, View, Bounds
    <2> QED BY <1>2, <1>9, <2>1, ViewStays DEF QInv
  <1>11. ConsumerInv'
    BY <1>2, <1>4, <1>7, <1>9 DEF QInv, ConsumerInv, ConsumerAt, Crossing
  <1>12. ProducerInv'
    <2>1. /\ finish.cur.slot = B - 1
          /\ pushed - Len(handled) < MaxBacklog /\ pushed < MaxEvents
          /\ pushed - Len(handled) <= longest
          /\ producer.count = Span + 1
          /\ producer.at = (MapSize - (producer.count + 1)) \div 2
      BY <1>2 DEF QInv, ProducerInv, ProducerAt, Moving
    <2>2. Span' = Span BY <1>9 DEF Span
    <2> QED BY <1>2, <1>3, <1>4, <1>5, <1>7, <2>1, <2>2
          DEF ProducerInv, ProducerAt, Moving
  <1> QED BY <1>8, <1>10, <1>11, <1>12 DEF QInv

LEMMA LastKeeps ==
    ASSUME QInv, MoveLast, UNCHANGED longest, Unraced
    PROVE  QInv'
  <1>1. QueueTypeOK BY DEF QInv
  <1>2. /\ producer.pc = "last"
        /\ start' = [start EXCEPT !.last = start.first]
        /\ finish' = [finish EXCEPT !.node = producer.at + producer.count - 1]
        /\ ProducerTo("append")
        /\ UNCHANGED <<memory, live, map, consumer, pushed, handled>>
    BY DEF MoveLast, ProducerAt
  <1>3. /\ producer' = [producer EXCEPT !.pc = "append"]
        /\ producer' \in [pc : ProducerPcs, count : Nat, at : 0 .. MapSize]
        /\ producer'.pc = "append"
    BY <1>1, <1>2 DEF ProducerTo, QueueTypeOK, ProducerPcs
  <1>4. ~Crossing /\ ~Crossing' BY <1>2 DEF Moving, Crossing, QInv, ProducerInv
  <1>5. TailPos = producer.at + producer.count - 1 /\ TailPos \in Positions
    BY <1>2, EndsInUse DEF TailPos
  <1>6. /\ finish'.node = TailPos /\ finish'.cur = finish.cur
        /\ finish' \in [node : Positions, cur : Places]
    BY <1>1, <1>2, <1>5 DEF QueueTypeOK
  <1>7. start.first = map[HeadPos] BY <1>4 DEF QInv, ConsumerInv
  <1>8. /\ start'.node = start.node /\ start'.cur = start.cur
        /\ start'.first = map[HeadPos] /\ start'.last = map[HeadPos]
        /\ start' \in [node : Positions, first : Nodes, last : Nodes, cur : Places]
    BY <1>1, <1>2, <1>7 DEF QueueTypeOK
  <1>9. QueueTypeOK' BY <1>1, <1>2, <1>3, <1>6, <1>8 DEF QueueTypeOK, Unraced
  <1>10. /\ HeadPos' = HeadPos /\ HeadSlot' = HeadSlot
         /\ TailPos' = TailPos /\ LastPos' = LastPos /\ LastEvent' = LastEvent
    BY <1>2, <1>3, <1>6, <1>8 DEF HeadPos, HeadSlot, TailPos, LastPos, LastEvent, Crossing,
                                  ConsumerAt, ProducerAt
  <1>11. View'
    <2>1. start'.cur.slot \in 0 .. B - 1 BY <1>8 DEF QInv, View, Bounds
    <2> QED BY <1>2, <1>6, <1>10, <2>1, ViewStays DEF QInv
  <1>12. ConsumerInv'
    BY <1>2, <1>4, <1>8, <1>10 DEF QInv, ConsumerInv, ConsumerAt, Crossing
  <1>13. ProducerInv'
    <2>1. /\ finish.cur.slot = B - 1
          /\ pushed - Len(handled) < MaxBacklog /\ pushed < MaxEvents
          /\ pushed - Len(handled) <= longest
          /\ producer.count = Span + 1
          /\ producer.at = (MapSize - (producer.count + 1)) \div 2
      BY <1>2 DEF QInv, ProducerInv, ProducerAt, Moving
    <2>2. Span \in 0 .. 1 BY <1>2, ShortSpan DEF ProducerAt
    <2>3. finish'.node < MapSize - 1
      BY <1>5, <1>6, <2>1, <2>2, QueueAssumption
    <2> QED BY <1>2, <1>3, <1>4, <1>6, <2>1, <2>3
          DEF ProducerInv, ProducerAt, Moving
  <1> QED BY <1>9, <1>11, <1>12, <1>13 DEF QInv

-------------------------------------------------------------------------------
(* The push *)

\* Event k of the three nodes is in slot j of node d, for one d and j only.
LEMMA PlaceOfLast ==
    ASSUME QInv, ~ProducerAt("publish"), NEW j \in 0 .. B - 1
    PROVE  /\ HeadPos \in InUse => (Base + j = pushed <=> TailPos = HeadPos /\ j = finish.cur.slot)
           /\ HeadPos + 1 \in InUse =>
                 (Base + B + j = pushed <=> TailPos = HeadPos + 1 /\ j = finish.cur.slot)
           /\ HeadPos + 2 \in InUse =>
                 (Base + B + B + j = pushed <=> TailPos = HeadPos + 2 /\ j = finish.cur.slot)
  <1>1. /\ B \in Nat \ {0} /\ finish.cur.slot \in 0 .. B - 1 /\ HeadPos \in Nat
        /\ Count /\ TailPos \in Int /\ pushed \in Nat
    <2>1. TailPos \in Int BY EndsInUse, Fields DEF QInv, Positions
    <2> QED BY <2>1, Fields DEF QInv, View, Bounds
  <1>2. TailPos = HeadPos + Span /\ Span \in 0 .. 2
    BY <1>1 DEF Span, QInv, View, Bounds
  <1>3. \A i \in InUse : i <= TailPos BY <1>1 DEF InUse, LastPos
  <1>4. Base \in Int
    <2>1. Len(handled) \in Int /\ start.cur.slot \in Int
      BY DEF QInv, QueueTypeOK, View, Bounds
    <2>2. HeadSlot \in Int BY <2>1 DEF HeadSlot
    <2> QED BY <2>1, <2>2 DEF Base
  <1>5. CASE Span = 0
    <2>1. pushed = Base + finish.cur.slot BY <1>1, <1>5 DEF Count
    <2>2. HeadPos + 1 \notin InUse /\ HeadPos + 2 \notin InUse BY <1>1, <1>2, <1>3, <1>5
    <2> QED BY <1>1, <1>2, <1>4, <1>5, <2>1, <2>2
  <1>6. CASE Span = 1
    <2>1. pushed = Base + B + finish.cur.slot BY <1>1, <1>6 DEF Count
    <2>2. HeadPos + 2 \notin InUse BY <1>1, <1>2, <1>3, <1>6
    <2> QED BY <1>1, <1>2, <1>4, <1>6, <2>1, <2>2
  <1>7. CASE Span = 2
    <2>1. pushed = Base + B + B + finish.cur.slot BY <1>1, <1>7 DEF Count
    <2> QED BY <1>1, <1>2, <1>4, <1>7, <2>1
  <1> QED BY <1>2, <1>5, <1>6, <1>7

\* An event is constructed at the end of the queue, and the others stay.
LEMMA ConstructHolds ==
    ASSUME QInv, ~ProducerAt("publish"),
           NEW i \in InUse, NEW base \in Int,
           \A j \in 0 .. B - 1 : base + j = pushed <=> TailPos = i /\ j = finish.cur.slot,
           Holds(i, base),
           memory'[map[i]] = [j \in 0 .. B - 1 |->
               IF map[i] = finish.cur.node /\ j = finish.cur.slot THEN pushed + 1
               ELSE memory[map[i]][j]],
           map'[i] = map[i], UNCHANGED handled, LastEvent' = pushed + 1
    PROVE  Holds(i, base)'
  <1>1. SUFFICES ASSUME NEW j \in 0 .. B - 1, base + j + 1 \in Len(handled) + 1 .. pushed + 1
                 PROVE  memory'[map[i]][j] = base + j + 1
    BY DEF Holds
  <1>2. /\ LastEvent = pushed /\ map[TailPos] = finish.cur.node /\ TailPos \in InUse
        /\ \A k \in InUse : map[k] = map[TailPos] => k = TailPos
        /\ pushed \in Int /\ B \in Int /\ Len(handled) \in Int
    <2>1. View /\ QueueTypeOK BY DEF QInv
    <2>2. LastEvent = pushed BY DEF LastEvent
    <2>3. map[TailPos] = finish.cur.node BY <2>1 DEF View, NodesInUse
    <2>4. TailPos \in InUse BY EndsInUse
    <2>5. \A k \in InUse : map[k] = map[TailPos] => k = TailPos
      BY <2>1, <2>4 DEF View, NodesInUse
    <2>6. pushed \in Int /\ B \in Int /\ Len(handled) \in Int BY <2>1, Fields
    <2> QED BY <2>2, <2>3, <2>4, <2>5, <2>6
  <1>3. CASE base + j = pushed
    BY <1>1, <1>2, <1>3
  <1>4. CASE base + j # pushed
    <2>1. ~(map[i] = finish.cur.node /\ j = finish.cur.slot) BY <1>2, <1>4
    <2>2. base + j + 1 \in Len(handled) + 1 .. LastEvent BY <1>1, <1>2, <1>4
    <2>3. memory[map[i]][j] = base + j + 1 BY <2>2 DEF Holds
    <2> QED BY <2>1, <2>3
  <1> QED BY <1>3, <1>4

LEMMA InNodeKeeps ==
    ASSUME QInv, PushInNode, Unraced
    PROVE  QInv'
  <1>1. QueueTypeOK BY DEF QInv
  <1>2. /\ producer.pc = "idle" /\ pushed < MaxEvents /\ pushed - Len(handled) < MaxBacklog
        /\ longest' = IF Waiting > longest THEN Waiting ELSE longest
        /\ finish.cur.slot # B - 1
        /\ memory' = [memory EXCEPT ![finish.cur.node][finish.cur.slot] = pushed + 1]
        /\ finish' = [finish EXCEPT !.cur.slot = @ + 1]
        /\ pushed' = pushed + 1
        /\ UNCHANGED <<live, map, start, producer, consumer, handled>>
    BY DEF PushInNode, PushBegins, NodeFull, Waiting, ProducerAt, Construct
  <1>3. /\ pushed \in Nat /\ Len(handled) \in Nat /\ MaxBacklog \in Nat /\ MaxEvents \in Nat
        /\ B \in Nat \ {0} /\ MapSize \in Nat /\ finish.cur.slot \in 0 .. B - 1
        /\ finish.cur.node \in Nodes /\ finish.cur \in Places
    BY <1>1, Fields DEF QInv, View, Bounds
  <1>4. longest' \in 0 .. MaxBacklog
    BY <1>1, <1>2, <1>3 DEF QueueTypeOK, Waiting, QInv, View, Bounds
  <1>5. /\ finish'.node = finish.node /\ finish'.cur.node = finish.cur.node
        /\ finish'.cur.slot = finish.cur.slot + 1
        /\ finish' \in [node : Positions, cur : Places]
    <2>1. [finish.cur EXCEPT !.slot = finish.cur.slot + 1] \in Places
      BY <1>2, <1>3 DEF Places
    <2>2. finish'.cur = [finish.cur EXCEPT !.slot = finish.cur.slot + 1]
          /\ finish' \in [node : Positions, cur : Places] /\ finish'.node = finish.node
      BY <1>1, <1>2, <2>1 DEF QueueTypeOK
    <2> QED BY <1>3, <2>2 DEF Places
  <1>6. \A n \in Nodes : memory'[n] = [j \in 0 .. B - 1 |->
            IF n = finish.cur.node /\ j = finish.cur.slot THEN pushed + 1 ELSE memory[n][j]]
    BY <1>1, <1>2, <1>3 DEF QueueTypeOK
  <1>7. memory' \in [Nodes -> [0 .. B - 1 -> 0 .. MaxEvents]]
    <2>1. pushed + 1 \in 0 .. MaxEvents BY <1>2, <1>3
    <2> QED BY <1>1, <1>2, <1>3, <2>1, WriteTyped DEF QueueTypeOK
  <1>8. QueueTypeOK'
    <2>1. pushed' \in 0 .. MaxEvents BY <1>2, <1>3
    <2>2. raced' \in BOOLEAN BY <1>1 DEF QueueTypeOK, Unraced
    <2> QED BY <1>1, <1>2, <1>4, <1>5, <1>7, <2>1, <2>2 DEF QueueTypeOK
  <1>9. /\ HeadPos' = HeadPos /\ HeadSlot' = HeadSlot
        /\ TailPos' = TailPos /\ LastPos' = LastPos /\ LastEvent' = pushed + 1
    BY <1>2, <1>5 DEF HeadPos, HeadSlot, TailPos, LastPos, LastEvent, Crossing, ConsumerAt,
                      ProducerAt
  <1>10. Span' = Span /\ Base' = Base /\ InUse' = InUse
    BY <1>2, <1>9 DEF Span, Base, InUse
  <1>11. Base \in Int
    <2>1. HeadSlot \in Int
      <3>1. start.cur.slot \in Int BY DEF QInv, View, Bounds
      <3> QED BY <3>1 DEF HeadSlot
    <2> QED BY <1>3, <2>1 DEF Base
  <1>12. Bounds'
    <2>1. Bounds BY DEF QInv, View
    <2>2. pushed' - Len(handled') \in 0 .. MaxBacklog BY <1>2, <1>3, <2>1 DEF Bounds
    <2>3. finish'.cur.slot \in 0 .. B - 1 BY <1>2, <1>3, <1>5
    <2> QED BY <1>2, <1>9, <1>10, <2>1, <2>2, <2>3 DEF Bounds
  <1>13. Count'
    <2>1. Count BY DEF QInv, View
    <2>2. pushed' = pushed + 1 /\ finish'.cur.slot = finish.cur.slot + 1
          /\ finish.cur.slot \in Int /\ B \in Int /\ pushed \in Int
      BY <1>2, <1>3, <1>5
    <2>3. CASE Span = 0 /\ pushed = Base + finish.cur.slot
      BY <1>10, <1>11, <2>2, <2>3 DEF Count
    <2>4. CASE Span = 1 /\ pushed = Base + B + finish.cur.slot
      BY <1>10, <1>11, <2>2, <2>4 DEF Count
    <2>5. CASE Span = 2 /\ pushed = Base + B + B + finish.cur.slot
      BY <1>10, <1>11, <2>2, <2>5 DEF Count
    <2> QED BY <2>1, <2>3, <2>4, <2>5 DEF Count
  <1>14. NodesInUse' BY <1>2, <1>5, <1>9, <1>10 DEF QInv, View, NodesInUse
  <1>15. Contents'
    <2>1. \A i \in InUse : map[i] \in Nodes BY <1>1 DEF QInv, View, NodesInUse, QueueTypeOK
    <2>2. ASSUME NEW i, NEW base \in Int, Holds(i, base),
                 i \in InUse => \A j \in 0 .. B - 1 :
                     base + j = pushed <=> TailPos = i /\ j = finish.cur.slot
          PROVE  Holds(i, base)'
      <3>1. CASE i \notin InUse BY <1>10, <3>1 DEF Holds
      <3>2. CASE i \in InUse
        <4>1. ~ProducerAt("publish") BY <1>2 DEF ProducerAt
        <4> QED BY <1>2, <1>6, <1>9, <2>1, <2>2, <3>2, <4>1, ConstructHolds
      <3> QED BY <3>1, <3>2
    <2>3. Contents /\ ~ProducerAt("publish") BY <1>2 DEF QInv, View, ProducerAt
    <2>4. /\ Base + B \in Int /\ Base + B + B \in Int BY <1>3, <1>11
    <2>5. Holds(HeadPos, Base)' /\ Holds(HeadPos + 1, Base + B)'
          /\ Holds(HeadPos + 2, Base + B + B)'
      <3>1. PICK h \in Int, b \in Int : h = HeadPos /\ b = Base
        BY <1>11 DEF QInv, View, Bounds
      <3>2. Holds(h, b)' BY <1>11, <2>2, <2>3, <3>1, PlaceOfLast DEF Contents
      <3>3. Holds(h + 1, b + B)' BY <2>2, <2>3, <2>4, <3>1, PlaceOfLast DEF Contents
      <3>4. Holds(h + 2, b + B + B)' BY <2>2, <2>3, <2>4, <3>1, PlaceOfLast DEF Contents
      <3>5. HeadPos' = h /\ Base' = b BY <1>9, <1>10, <3>1
      <3> QED BY <3>2, <3>3, <3>4, <3>5
    <2> QED BY <2>5 DEF Contents
  <1>16. InOrder' BY <1>2 DEF QInv, View, InOrder
  <1>17. ConsumerInv'
    BY <1>2, <1>9, <1>10 DEF QInv, ConsumerInv, ConsumerAt, Crossing
  <1>18. ProducerInv' BY <1>2 DEF ProducerInv, ProducerAt, Moving
  <1> QED BY <1>8, <1>12, <1>13, <1>14, <1>15, <1>16, <1>17, <1>18 DEF QInv, View

LEMMA PushNodeKeeps ==
    ASSUME QInv, PushNode, UNCHANGED longest, Unraced
    PROVE  QInv'
  <1>1. QueueTypeOK BY DEF QInv
  <1>2. PICK n \in Nodes \ live :
            /\ live' = live \cup {n}
            /\ map' = [map EXCEPT ![finish.node + 1] = n]
            /\ memory' = [[memory EXCEPT ![n] = Blank]
                             EXCEPT ![finish.cur.node][finish.cur.slot] = pushed + 1]
    BY DEF PushNode, Construct
  <1>3. /\ producer.pc = "append" /\ ProducerTo("publish")
        /\ UNCHANGED <<start, finish, consumer, pushed, handled>>
    BY DEF PushNode, ProducerAt
  <1>4. /\ producer' = [producer EXCEPT !.pc = "publish"]
        /\ producer' \in [pc : ProducerPcs, count : Nat, at : 0 .. MapSize]
        /\ producer'.pc = "publish"
    BY <1>1, <1>3 DEF ProducerTo, QueueTypeOK, ProducerPcs
  <1>5. /\ finish.cur.slot = B - 1 /\ finish.node < MapSize - 1
        /\ pushed - Len(handled) < MaxBacklog /\ pushed < MaxEvents
        /\ pushed - Len(handled) <= longest
    BY <1>3 DEF QInv, ProducerInv, ProducerAt
  <1>6. /\ TailPos = finish.node /\ LastPos = finish.node /\ LastEvent = pushed
        /\ ~ProducerAt("idle") /\ ~ProducerAt("publish")
    BY <1>3 DEF TailPos, LastPos, LastEvent, ProducerAt
  <1>7. /\ HeadPos' = HeadPos /\ HeadSlot' = HeadSlot
        /\ TailPos' = TailPos /\ LastPos' = TailPos + 1 /\ LastEvent' = pushed + 1
    BY <1>3, <1>4, <1>6 DEF HeadPos, HeadSlot, TailPos, LastPos, LastEvent, Crossing,
                            ConsumerAt, ProducerAt
  <1>8. Span' = Span /\ Base' = Base /\ Span \in 0 .. 1
    BY <1>3, <1>6, <1>7, ShortSpan DEF Span, Base
  <1>9. /\ B \in Nat \ {0} /\ MapSize \in Nat /\ finish.node \in Positions
        /\ finish.node + 1 \in Positions /\ HeadPos \in Nat /\ TailPos = HeadPos + Span
        /\ pushed \in Nat
    <2>1. HeadPos \in Nat BY DEF QInv, View, Bounds
    <2>2. finish.node + 1 \in Positions BY <1>1, <1>5, Fields DEF Positions
    <2>3. TailPos = HeadPos + Span
      <3>1. finish.node \in Int BY <1>1, Fields DEF Positions
      <3> QED BY <1>6, <2>1, <3>1 DEF Span
    <2> QED BY <1>1, <2>1, <2>2, <2>3, Fields
  <1>10. InUse = HeadPos .. TailPos /\ InUse' = InUse \cup {TailPos + 1}
    <2>1. TailPos \in Nat /\ HeadPos <= TailPos BY <1>8, <1>9
    <2> QED BY <1>6, <1>7, <1>9, <2>1 DEF InUse
  <1>11. \A i \in InUse : i \in Positions /\ i # finish.node + 1 /\ map'[i] = map[i]
    <2>1. \A i \in InUse : i \in Positions /\ i # finish.node + 1
      BY <1>6, <1>9, <1>10 DEF Positions
    <2> QED BY <1>1, <1>2, <2>1 DEF QueueTypeOK
  <1>12. map'[TailPos + 1] = n BY <1>1, <1>2, <1>6, <1>9 DEF QueueTypeOK
  <1>13. /\ \A i \in InUse : map[i] \in live /\ map[i] \in Nodes /\ map[i] # n
         /\ finish.cur.node \in live /\ finish.cur.node # n
    BY <1>1, <1>2, EndsInUse DEF QInv, View, NodesInUse, QueueTypeOK
  <1>14. memory' \in [Nodes -> [0 .. B - 1 -> 0 .. MaxEvents]]
    <2>1. Blank \in [0 .. B - 1 -> 0 .. MaxEvents]
      BY <1>1, Fields DEF Blank
    <2>2. [memory EXCEPT ![n] = Blank] \in [Nodes -> [0 .. B - 1 -> 0 .. MaxEvents]]
      BY <1>1, <2>1 DEF QueueTypeOK
    <2>3. pushed + 1 \in 0 .. MaxEvents /\ finish.cur.slot \in 0 .. B - 1
          /\ finish.cur.node \in Nodes
      BY <1>1, <1>5, <1>9, Fields
    <2> QED BY <1>2, <2>2, <2>3, WriteTyped
  <1>15. QueueTypeOK'
    <2>1. map' \in [Positions -> Nodes \cup {NoNode}] BY <1>1, <1>2 DEF QueueTypeOK
    <2> QED BY <1>1, <1>2, <1>3, <1>4, <1>14, <2>1 DEF QueueTypeOK, Unraced
  <1>16. Bounds' /\ Count'
    <2>1. LastPos' < MapSize BY <1>6, <1>7, <1>5, <1>9 DEF Positions
    <2> QED BY <1>3, <1>7, <1>8, <2>1 DEF QInv, View, Bounds, Count
  <1>17. NodesInUse'
    <2>1. NodesInUse BY DEF QInv, View
    <2>2. \A i \in InUse' : map'[i] \in live'
      BY <1>2, <1>10, <1>11, <1>12, <2>1 DEF NodesInUse
    <2>3. \A i, j \in InUse' : map'[i] = map'[j] => i = j
      BY <1>10, <1>11, <1>12, <1>13, <2>1 DEF NodesInUse
    <2>4. map'[TailPos'] = finish'.cur.node
      BY <1>3, <1>7, <1>11, <2>1, EndsInUse DEF NodesInUse
    <2> QED BY <2>2, <2>3, <2>4 DEF NodesInUse
  <1>18. Contents'
    <2>1. Base \in Int
      <3>1. start.cur.slot \in Int /\ Len(handled) \in Int BY <1>1, Fields
      <3>2. HeadSlot \in Int BY <3>1 DEF HeadSlot
      <3> QED BY <3>1, <3>2 DEF Base
    <2>2. PICK h \in Nat, b \in Int : h = HeadPos /\ b = Base BY <1>9, <2>1
    <2>3. \A i \in InUse : memory'[map[i]] = [j \in 0 .. B - 1 |->
              IF map[i] = finish.cur.node /\ j = finish.cur.slot THEN pushed + 1
              ELSE memory[map[i]][j]]
      BY <1>1, <1>2, <1>13 DEF QueueTypeOK
    <2>4. ASSUME NEW i \in InUse, NEW base \in Int, Holds(i, base),
                 \A j \in 0 .. B - 1 : base + j = pushed <=> TailPos = i /\ j = finish.cur.slot
          PROVE  Holds(i, base)'
      BY <1>3, <1>6, <1>7, <1>11, <2>3, <2>4, ConstructHolds
    \* The new node is behind the last event.
    <2>5. ASSUME NEW i, NEW base \in Int, i = TailPos + 1, base = pushed + 1
          PROVE  Holds(i, base)'
      BY <1>7, <1>9, <2>5 DEF Holds
    <2>6. Contents /\ Count /\ b + B \in Int /\ b + B + B \in Int
      BY <1>9, <2>2 DEF QInv, View
    <2>7. CASE Span = 0
      <3>1. HeadPos \in InUse /\ HeadPos + 1 = TailPos + 1 BY <1>9, <2>7, EndsInUse
      <3>2. Holds(h, b)' BY <1>6, <2>2, <2>4, <2>6, <3>1, PlaceOfLast DEF Contents
      <3>3. b + B = pushed + 1 BY <1>5, <1>9, <2>2, <2>6, <2>7 DEF Count
      <3>4. Holds(h + 1, b + B)' BY <2>2, <2>5, <2>6, <3>1, <3>3
      <3>5. h + 2 \notin InUse' BY <1>9, <1>10, <2>2, <2>7
      <3>6. Holds(h + 2, b + B + B)' BY <3>5 DEF Holds
      <3>7. HeadPos' = h /\ Base' = b BY <1>7, <1>8, <2>2
      <3> QED BY <3>2, <3>4, <3>6, <3>7 DEF Contents
    <2>8. CASE Span = 1
      <3>1. HeadPos \in InUse /\ HeadPos + 1 \in InUse /\ HeadPos + 2 = TailPos + 1
        BY <1>9, <2>8, EndsInUse
      <3>2. Holds(h, b)' BY <1>6, <2>2, <2>4, <2>6, <3>1, PlaceOfLast DEF Contents
      <3>3. Holds(h + 1, b + B)' BY <1>6, <2>2, <2>4, <2>6, <3>1, PlaceOfLast DEF Contents
      <3>4. b + B + B = pushed + 1 BY <1>5, <1>9, <2>2, <2>6, <2>8 DEF Count
      <3>5. Holds(h + 2, b + B + B)' BY <2>2, <2>5, <2>6, <3>1, <3>4
      <3>6. HeadPos' = h /\ Base' = b BY <1>7, <1>8, <2>2
      <3> QED BY <3>2, <3>3, <3>5, <3>6 DEF Contents
    <2> QED BY <1>8, <2>7, <2>8
  <1>19. ConsumerInv'
    <2>1. ConsumerInv BY DEF QInv
    <2>2. map'[HeadPos] = map[HeadPos] BY <1>11, EndsInUse
    <2>3. consumer.pc \in {"last", "cur"} => map'[start.node] = map[start.node]
      <3>1. consumer.pc \in {"last", "cur"} => start.node = HeadPos BY DEF HeadPos
      <3> QED BY <2>2, <3>1
    <2>4. ConsumerAt("free") => start.first \in live' /\ \A i \in InUse' : map'[i] # start.first
      BY <1>2, <1>10, <1>11, <1>12, <2>1 DEF ConsumerInv
    <2>5. (Crossing' <=> Crossing) /\ \A pc : ConsumerAt(pc)' <=> ConsumerAt(pc)
      BY <1>3 DEF Crossing, ConsumerAt
    <2> QED BY <1>3, <1>7, <2>1, <2>2, <2>3, <2>4, <2>5 DEF ConsumerInv, ConsumerAt
  <1>20. ProducerInv'
    BY <1>3, <1>4, <1>5 DEF ProducerInv, ProducerAt, Moving
  <1>21. InOrder' BY <1>3 DEF QInv, View, InOrder
  <1> QED BY <1>15, <1>16, <1>17, <1>18, <1>19, <1>20, <1>21 DEF QInv, View

LEMMA PublishKeeps ==
    ASSUME QInv, PushPublish, UNCHANGED longest, Unraced
    PROVE  QInv'
  <1>1. QueueTypeOK BY DEF QInv
  <1>2. /\ producer.pc = "publish"
        /\ finish' = [node |-> finish.node + 1,
                      cur |-> [node |-> map[finish.node + 1], slot |-> 0]]
        /\ pushed' = pushed + 1
        /\ producer' = [producer EXCEPT !.pc = "idle"]
        /\ UNCHANGED <<memory, live, map, start, consumer, handled>>
    BY DEF PushPublish, ProducerAt, ProducerTo
  <1>3. /\ producer' \in [pc : ProducerPcs, count : Nat, at : 0 .. MapSize]
        /\ producer'.pc = "idle"
    BY <1>1, <1>2 DEF QueueTypeOK, ProducerPcs
  <1>4. /\ finish.cur.slot = B - 1 /\ pushed < MaxEvents
        /\ pushed - Len(handled) < MaxBacklog
    BY <1>2 DEF QInv, ProducerInv, ProducerAt
  <1>5. /\ TailPos = finish.node /\ LastPos = finish.node + 1 /\ LastEvent = pushed + 1
    BY <1>2 DEF TailPos, LastPos, LastEvent, ProducerAt
  <1>6. /\ HeadPos' = HeadPos /\ HeadSlot' = HeadSlot
        /\ TailPos' = finish.node + 1 /\ LastPos' = LastPos /\ LastEvent' = LastEvent
    BY <1>2, <1>3, <1>5 DEF HeadPos, HeadSlot, TailPos, LastPos, LastEvent, Crossing,
                            ConsumerAt, ProducerAt
  <1>7. Span \in 0 .. 1 BY <1>2, ShortSpan DEF ProducerAt
  <1>8. /\ finish.node \in Nat /\ finish.node + 1 \in Positions /\ finish.node + 1 \in InUse
        /\ HeadPos \in Nat /\ B \in Nat \ {0} /\ pushed \in Nat /\ Len(handled) \in Nat
        /\ MaxEvents \in Nat /\ MaxBacklog \in Nat
    <2>1. finish.node \in Positions BY <1>1, Fields
    <2>2. HeadPos \in Nat /\ LastPos < MapSize BY DEF QInv, View, Bounds
    <2>3. HeadPos <= finish.node BY <1>5, <1>7, <2>1, <2>2 DEF Span, Positions
    <2> QED BY <1>1, <1>5, <2>1, <2>2, <2>3, Fields DEF Positions, InUse
  <1>9. Span' = Span + 1 /\ Base' = Base /\ InUse' = InUse
    BY <1>2, <1>5, <1>6, <1>8 DEF Span, Base, InUse
  <1>10. map[finish.node + 1] \in Nodes
    BY <1>1, <1>8 DEF QInv, View, NodesInUse, QueueTypeOK
  <1>11. /\ finish'.node = finish.node + 1 /\ finish'.cur.node = map[finish.node + 1]
         /\ finish'.cur.slot = 0
         /\ finish' \in [node : Positions, cur : Places]
    <2>1. [node |-> map[finish.node + 1], slot |-> 0] \in Places
      BY <1>8, <1>10 DEF Places
    <2> QED BY <1>2, <1>8, <2>1
  <1>12. QueueTypeOK'
    <2>1. pushed' \in 0 .. MaxEvents BY <1>2, <1>4, <1>8
    <2> QED BY <1>1, <1>2, <1>3, <1>11, <2>1 DEF QueueTypeOK, Unraced
  <1>13. Bounds'
    <2>1. Bounds BY DEF QInv, View
    <2>2. pushed' - Len(handled') \in 0 .. MaxBacklog BY <1>2, <1>4, <1>8, <2>1 DEF Bounds
    <2>3. finish'.cur.slot \in 0 .. B - 1 BY <1>8, <1>11
    <2> QED BY <1>2, <1>6, <1>7, <1>9, <2>1, <2>2, <2>3 DEF Bounds
  <1>14. Count'
    <2>1. Base \in Int
      <3>1. start.cur.slot \in Int BY DEF QInv, View, Bounds
      <3>2. HeadSlot \in Int BY <3>1 DEF HeadSlot
      <3> QED BY <1>8, <3>2 DEF Base
    <2>2. CASE Span = 0
      <3>1. pushed = Base + (B - 1) BY <1>4, <2>2 DEF QInv, View, Count
      <3> QED BY <1>2, <1>8, <1>9, <1>11, <2>1, <2>2, <3>1 DEF Count
    <2>3. CASE Span = 1
      <3>1. pushed = Base + B + (B - 1) BY <1>4, <2>3 DEF QInv, View, Count
      <3> QED BY <1>2, <1>8, <1>9, <1>11, <2>1, <2>3, <3>1 DEF Count
    <2> QED BY <1>7, <2>2, <2>3
  <1>15. NodesInUse'
    BY <1>2, <1>6, <1>9, <1>11 DEF QInv, View, NodesInUse
  <1>16. Contents' BY <1>2, <1>6, <1>9 DEF QInv, View, Contents, Holds
  <1>17. InOrder' BY <1>2 DEF QInv, View, InOrder
  <1>18. ConsumerInv'
    BY <1>2, <1>6, <1>9 DEF QInv, ConsumerInv, ConsumerAt, Crossing
  <1>19. ProducerInv' BY <1>3 DEF ProducerInv, ProducerAt, Moving
  <1> QED BY <1>12, <1>13, <1>14, <1>15, <1>16, <1>17, <1>18, <1>19 DEF QInv, View

-------------------------------------------------------------------------------
(* The worker *)

\* What a step of the worker leaves to the producer.
LEMMA ProducerStays ==
    ASSUME QInv, UNCHANGED <<finish, producer, pushed, map, longest>>, Unraced,
           Moving => HeadPos' = HeadPos /\ start'.node = start.node,
           Len(handled') \in Nat, Len(handled') >= Len(handled)
    PROVE  /\ ProducerInv'
           /\ TailPos' = TailPos /\ LastPos' = LastPos /\ LastEvent' = LastEvent
  <1>1. TailPos' = TailPos /\ LastPos' = LastPos /\ LastEvent' = LastEvent
    BY DEF TailPos, LastPos, LastEvent, ProducerAt
  <1>2. Moving' <=> Moving BY DEF Moving
  <1>3. Moving => Span' = Span BY <1>1 DEF Span
  <1>4. ProducerInv BY DEF QInv
  <1>5. (Moving => ~Crossing)' BY DEF Unraced
  <1>6. (~ProducerAt("idle") => finish.cur.slot = B - 1
             /\ pushed - Len(handled) < MaxBacklog /\ pushed < MaxEvents
             /\ pushed - Len(handled) <= longest)'
    <2>1. /\ pushed \in Int /\ Len(handled) \in Int /\ MaxBacklog \in Int /\ longest \in Int
      BY Fields, QueueAssumption DEF QInv, QueueTypeOK
    <2> QED BY <1>4, <2>1 DEF ProducerInv, ProducerAt
  <1>7. (Moving => /\ producer.count = Span + 1
                   /\ producer.at = (MapSize - (producer.count + 1)) \div 2)'
    BY <1>2, <1>3, <1>4 DEF ProducerInv
  <1>8. (ProducerAt("node") => \A i \in 0 .. Span : map[producer.at + i] = map[HeadPos + i])'
    <2>1. ProducerAt("node") => Moving BY DEF ProducerAt, Moving
    <2> QED BY <1>3, <1>4, <2>1 DEF ProducerInv, ProducerAt
  <1>9. (producer.pc \in {"first", "last"} => start.node = producer.at)'
    BY <1>4 DEF ProducerInv, Moving
  <1>10. (ProducerAt("append") => finish.node < MapSize - 1)'
         /\ (producer.pc \in {"full", "copy", "node"} => finish.node = MapSize - 1)'
    BY <1>4 DEF ProducerInv, ProducerAt
  <1> QED BY <1>1, <1>5, <1>6, <1>7, <1>8, <1>9, <1>10 DEF ProducerInv

\* The worker's step from one program counter to another.
LEMMA ConsumerTyped ==
    ASSUME QueueTypeOK, NEW pc \in ConsumerPcs, ConsumerTo(pc)
    PROVE  /\ consumer' \in [pc : ConsumerPcs, at : 0 .. MapSize]
           /\ consumer'.pc = pc /\ consumer'.at = consumer.at
  BY DEF QueueTypeOK, ConsumerTo

\* The next event to handle is at begin().
LEMMA FrontKeeps ==
    ASSUME QInv, Front, UNCHANGED longest, Unraced
    PROVE  QInv'
  <1>1. QueueTypeOK BY DEF QInv
  <1>2. /\ consumer.pc = "idle" /\ start.cur # finish.cur
        /\ UNCHANGED <<memory, live, map, start, finish, producer, pushed>>
    BY DEF Front, ConsumerAt, Empty
  <1>3. /\ HeadPos = start.node /\ HeadSlot = start.cur.slot
        /\ start.first = map[HeadPos] /\ start.last = map[HeadPos]
        /\ start.cur.node = map[HeadPos]
    BY <1>2 DEF HeadPos, HeadSlot, Crossing, ConsumerAt, QInv, ConsumerInv
  <1>4. /\ B \in Nat \ {0} /\ pushed \in 0 .. MaxEvents /\ Len(handled) \in Nat
        /\ MaxEvents \in Nat /\ MaxBacklog \in Nat
        /\ start.cur.slot \in 0 .. B - 1 /\ finish.cur.slot \in 0 .. B - 1
        /\ pushed - Len(handled) \in 0 .. MaxBacklog
        /\ Base = Len(handled) - start.cur.slot
    BY <1>1, <1>3, Fields DEF QInv, View, Bounds, Base, QueueTypeOK
  <1>5. Len(handled) < pushed
    <2>1. SUFFICES ASSUME pushed = Len(handled) PROVE FALSE BY <1>4
    <2>2. Span = 0 /\ finish.cur.slot = start.cur.slot
      <3>1. Count BY DEF QInv, View
      <3>2. PICK s \in 0 .. B - 1, f \in 0 .. B - 1, b \in Int :
                s = start.cur.slot /\ f = finish.cur.slot /\ b = Base
        BY <1>4
      <3>3. pushed = b + s /\ pushed \in Nat BY <1>4, <2>1, <3>2
      <3>4. CASE Span = 0 /\ pushed = b + f BY <3>2, <3>4, <3>3
      <3>5. CASE Span = 1 /\ pushed = b + B + f BY <1>4, <3>5, <3>3
      <3>6. CASE Span = 2 /\ pushed = b + B + B + f BY <1>4, <3>6, <3>3
      <3> QED BY <3>1, <3>2, <3>4, <3>5, <3>6 DEF Count
    <2>3. TailPos = HeadPos
      <3>1. HeadPos \in Int /\ TailPos \in Int
        BY EndsInUse DEF QInv, View, Bounds, Positions
      <3> QED BY <2>2, <3>1 DEF Span
    <2>4. finish.cur.node = start.cur.node BY <1>3, <2>3 DEF QInv, View, NodesInUse
    <2>5. start.cur \in Places /\ finish.cur \in Places BY <1>1, Fields
    <2> QED BY <1>2, <2>2, <2>4, <2>5 DEF Places
  <1>6. start.cur.node \in live /\ memory[start.cur.node][start.cur.slot] = Len(handled) + 1
    <2>1. HeadPos \in InUse /\ map[HeadPos] \in live BY EndsInUse
    <2>2. Holds(HeadPos, Base) BY DEF QInv, View, Contents
    <2>3. Base + start.cur.slot + 1 = Len(handled) + 1 BY <1>4
    <2>4. Len(handled) + 1 \in Len(handled) + 1 .. LastEvent BY <1>4, <1>5 DEF LastEvent
    <2> QED BY <1>3, <1>4, <2>1, <2>2, <2>3, <2>4 DEF Holds
  <1>7. Readable(start.cur) BY <1>4, <1>6 DEF Readable
  <1>8. handled' = Append(handled, Len(handled) + 1) /\ ConsumerTo("pop")
    BY <1>6, <1>7 DEF Front
  <1>9. /\ handled' \in Seq(1 .. MaxEvents) /\ Len(handled') = Len(handled) + 1
    <2>1. Len(handled) + 1 \in 1 .. MaxEvents BY <1>4, <1>5
    <2> QED BY <1>1, <1>8, <2>1 DEF QueueTypeOK
  <1>10. /\ consumer' \in [pc : ConsumerPcs, at : 0 .. MapSize] /\ consumer'.pc = "pop"
    BY <1>1, <1>8, ConsumerTyped DEF ConsumerPcs
  <1>11. QueueTypeOK' BY <1>1, <1>2, <1>9, <1>10 DEF QueueTypeOK, Unraced
  <1>12. HeadPos' = HeadPos /\ HeadSlot' = HeadSlot + 1 /\ start'.node = start.node
    BY <1>2, <1>3, <1>10 DEF HeadPos, HeadSlot, Crossing, ConsumerAt
  <1>13. /\ ProducerInv'
         /\ TailPos' = TailPos /\ LastPos' = LastPos /\ LastEvent' = LastEvent
    <2>1. Len(handled') \in Nat /\ Len(handled') >= Len(handled) BY <1>4, <1>9
    <2>2. UNCHANGED <<finish, producer, pushed, map, longest>> BY <1>2
    <2> QED BY <1>12, <2>1, <2>2, ProducerStays
  <1>14. Span' = Span /\ InUse' = InUse /\ Base' = Base
    <2>1. Base' = (Len(handled) + 1) - (start.cur.slot + 1)
      BY <1>3, <1>9, <1>12 DEF Base
    <2>2. Base' = Base BY <1>4, <2>1
    <2> QED BY <1>12, <1>13, <2>2 DEF Span, InUse
  <1>15. Bounds' /\ Count'
    <2>1. pushed' - Len(handled') \in 0 .. MaxBacklog BY <1>2, <1>4, <1>5, <1>9
    <2> QED BY <1>2, <1>12, <1>13, <1>14, <2>1 DEF QInv, View, Bounds, Count
  <1>16. NodesInUse' BY <1>2, <1>13, <1>14 DEF QInv, View, NodesInUse
  <1>17. Contents'
    <2>1. LastEvent \in Int BY <1>4 DEF LastEvent
    <2>2. Len(handled') + 1 .. LastEvent' \subseteq Len(handled) + 1 .. LastEvent
      BY <1>4, <1>9, <1>13, <2>1
    <2>3. ASSUME NEW i, NEW base, Holds(i, base) PROVE Holds(i, base)'
      BY <1>2, <1>14, <2>2, <2>3 DEF Holds
    <2> QED BY <1>12, <1>14, <2>3 DEF QInv, View, Contents
  <1>18. InOrder'
    <2>1. ASSUME NEW i \in DOMAIN handled' PROVE handled'[i] = i
      <3>1. i \in 1 .. Len(handled) + 1 BY <1>9, <2>1
      <3>2. CASE i = Len(handled) + 1 BY <1>1, <1>8, <3>2 DEF QueueTypeOK
      <3>3. CASE i \in 1 .. Len(handled)
        <4>1. i \in DOMAIN handled /\ handled'[i] = handled[i]
          BY <1>1, <1>8, <3>3 DEF QueueTypeOK
        <4> QED BY <4>1 DEF QInv, View, InOrder
      <3> QED BY <1>4, <3>1, <3>2, <3>3
    <2> QED BY <2>1 DEF InOrder
  <1>19. ConsumerInv'
    BY <1>2, <1>3, <1>10, <1>12 DEF ConsumerInv, ConsumerAt, Crossing
  <1> QED BY <1>11, <1>13, <1>15, <1>16, <1>17, <1>18, <1>19 DEF QInv, View

\* The destroyed event is one that has been handled.
LEMMA PopKeeps ==
    ASSUME QInv, Pop, UNCHANGED longest, Unraced
    PROVE  QInv'
  <1>1. QueueTypeOK BY DEF QInv
  <1>2. /\ consumer.pc = "pop"
        /\ memory' = [memory EXCEPT ![start.cur.node][start.cur.slot] = 0]
        /\ UNCHANGED <<live, map, finish, producer, pushed, handled>>
    BY DEF Pop, ConsumerAt, Destroyed
  <1>3. /\ HeadPos = start.node /\ HeadSlot = start.cur.slot + 1
        /\ start.first = map[HeadPos] /\ start.last = map[HeadPos]
        /\ start.cur.node = map[HeadPos]
    BY <1>2 DEF HeadPos, HeadSlot, Crossing, ConsumerAt, QInv, ConsumerInv
  <1>4. PICK h \in Nat, b \in Int, s \in 0 .. B - 1 :
            h = HeadPos /\ b = Base /\ s = start.cur.slot
    <2>1. HeadPos \in Nat /\ start.cur.slot \in 0 .. B - 1 BY DEF QInv, View, Bounds
    <2>2. Base \in Int
      <3>1. Len(handled) \in Int BY <1>1, Fields
      <3> QED BY <1>3, <2>1, <3>1 DEF Base
    <2> QED BY <2>1, <2>2
  <1>5. /\ B \in Nat \ {0} /\ pushed \in Nat /\ Len(handled) \in Nat /\ MaxEvents \in Nat
        /\ Len(handled) = b + s + 1
    <2>1. Len(handled) \in Int BY <1>1, Fields
    <2>2. b = Len(handled) - (s + 1) BY <1>3, <1>4 DEF Base
    <2>3. s \in Int BY <1>1, <1>4, Fields
    <2>4. Len(handled) = b + s + 1 BY <2>1, <2>2, <2>3
    <2> QED BY <1>1, <2>4, Fields
  <1>6. /\ HeadPos \in InUse /\ TailPos \in InUse
        /\ map[HeadPos] \in live /\ map[HeadPos] \in Nodes
        /\ \A i \in InUse : map[i] \in Nodes /\ (map[i] = map[HeadPos] => i = HeadPos)
    <2>1. \A i \in InUse : map[i] \in live BY DEF QInv, View, NodesInUse
    <2> QED BY <1>1, <2>1, EndsInUse DEF QInv, View, NodesInUse, QueueTypeOK
  <1>7. memory' \in [Nodes -> [0 .. B - 1 -> 0 .. MaxEvents]]
    <2>1. start.cur.node \in Nodes /\ start.cur.slot \in 0 .. B - 1 /\ 0 \in 0 .. MaxEvents
      BY <1>3, <1>4, <1>5, <1>6
    <2> QED BY <1>1, <1>2, <2>1, WriteTyped DEF QueueTypeOK
  \* An event that still waits is not the one that is destroyed.
  <1>8. ASSUME NEW i \in InUse, NEW base \in Int, i = h => base = b, Holds(i, base),
               NEW j \in 0 .. B - 1, base + j + 1 \in Len(handled) + 1 .. LastEvent
        PROVE  memory'[map[i]][j] = base + j + 1
    <2>1. ~(i = h /\ j = s) BY <1>5, <1>8
    <2>2. ~(map[i] = start.cur.node /\ j = start.cur.slot) BY <1>3, <1>4, <1>6, <2>1
    <2>3. memory'[map[i]][j] = memory[map[i]][j]
      BY <1>1, <1>2, <1>6, <2>2 DEF QueueTypeOK
    <2> QED BY <1>8, <2>3 DEF Holds
  <1>9. Holds(h, b) /\ Holds(h + 1, b + B) /\ Holds(h + 2, b + B + B)
    BY <1>4 DEF QInv, View, Contents
  <1>10. CASE start.cur # [node |-> start.last, slot |-> B - 1]
    <2>1. start' = [start EXCEPT !.cur.slot = @ + 1] /\ ConsumerTo("idle")
      BY <1>10 DEF Pop
    <2>2. s + 1 \in 0 .. B - 1
      <3>1. s # B - 1
        <4>1. start.cur \in Places BY <1>1, Fields
        <4> QED BY <1>3, <1>4, <1>10, <4>1 DEF Places
      <3> QED BY <1>4, <1>5, <3>1
    <2>3. /\ start'.node = start.node /\ start'.first = start.first /\ start'.last = start.last
          /\ start'.cur.node = start.cur.node /\ start'.cur.slot = s + 1
          /\ start' \in [node : Positions, first : Nodes, last : Nodes, cur : Places]
      <3>1. [start.cur EXCEPT !.slot = s + 1] \in Places
        BY <1>1, <1>5, <2>2, Fields DEF Places
      <3>2. start' = [start EXCEPT !.cur = [start.cur EXCEPT !.slot = s + 1]]
        BY <1>1, <1>4, <2>1 DEF QueueTypeOK
      <3>3. start'.cur = [start.cur EXCEPT !.slot = s + 1]
        BY <1>1, <3>2 DEF QueueTypeOK
      <3>4. start.cur \in Places BY <1>1, Fields
      <3>5. start'.cur.node = start.cur.node /\ start'.cur.slot = s + 1
        BY <3>3, <3>4 DEF Places
      <3> QED BY <1>1, <3>1, <3>2, <3>5 DEF QueueTypeOK
    <2>4. /\ consumer' \in [pc : ConsumerPcs, at : 0 .. MapSize] /\ consumer'.pc = "idle"
      BY <1>1, <2>1, ConsumerTyped DEF ConsumerPcs
    <2>5. QueueTypeOK' BY <1>1, <1>2, <1>7, <2>3, <2>4 DEF QueueTypeOK, Unraced
    <2>6. HeadPos' = HeadPos /\ HeadSlot' = HeadSlot
      BY <1>3, <1>4, <2>3, <2>4 DEF HeadPos, HeadSlot, Crossing, ConsumerAt
    <2>7. /\ ProducerInv'
          /\ TailPos' = TailPos /\ LastPos' = LastPos /\ LastEvent' = LastEvent
      <3>1. Len(handled') \in Nat /\ Len(handled') >= Len(handled) BY <1>2, <1>5
      <3>2. UNCHANGED <<finish, producer, pushed, map, longest>> BY <1>2
      <3> QED BY <2>3, <2>6, <3>1, <3>2, ProducerStays
    <2>8. Span' = Span /\ InUse' = InUse /\ Base' = Base
      BY <1>2, <2>6, <2>7 DEF Span, InUse, Base
    <2>9. Bounds' /\ Count' /\ NodesInUse' /\ InOrder'
      <3>1. start'.cur.slot \in 0 .. B - 1 BY <2>2, <2>3
      <3> QED BY <1>2, <2>6, <2>7, <2>8, <3>1 DEF QInv, View, Bounds, Count, NodesInUse, InOrder
    <2>10. Contents'
      <3>1. ASSUME NEW i, NEW base \in Int, i = h => base = b, Holds(i, base)
            PROVE  Holds(i, base)'
        BY <1>2, <1>8, <2>7, <2>8, <3>1 DEF Holds
      <3>2. Holds(h, b)' BY <1>9, <3>1
      <3>3. Holds(h + 1, b + B)' BY <1>4, <1>5, <1>9, <3>1
      <3>4. Holds(h + 2, b + B + B)' BY <1>4, <1>5, <1>9, <3>1
      <3>5. HeadPos' = h /\ Base' = b BY <1>4, <2>6, <2>8
      <3> QED BY <3>2, <3>3, <3>4, <3>5 DEF Contents
    <2>11. ConsumerInv'
      BY <1>2, <1>3, <2>3, <2>4, <2>6 DEF ConsumerInv, ConsumerAt, Crossing
    <2> QED BY <2>5, <2>7, <2>9, <2>10, <2>11 DEF QInv, View
  <1>11. CASE start.cur = [node |-> start.last, slot |-> B - 1]
    <2>1. UNCHANGED start /\ ConsumerTo("free") /\ s = B - 1
      BY <1>4, <1>11 DEF Pop
    <2>2. /\ consumer' \in [pc : ConsumerPcs, at : 0 .. MapSize] /\ consumer'.pc = "free"
      BY <1>1, <2>1, ConsumerTyped DEF ConsumerPcs
    <2>3. QueueTypeOK' BY <1>1, <1>2, <1>7, <2>1, <2>2 DEF QueueTypeOK, Unraced
    <2>4. ~Moving
      BY <1>2, <2>2 DEF Unraced, Moving, Crossing
    <2>5. HeadPos' = h + 1 /\ HeadSlot' = 0
      BY <1>3, <1>4, <2>1, <2>2 DEF HeadPos, HeadSlot, Crossing
    <2>6. /\ ProducerInv'
          /\ TailPos' = TailPos /\ LastPos' = LastPos /\ LastEvent' = LastEvent
      <3>1. Len(handled') \in Nat /\ Len(handled') >= Len(handled) BY <1>2, <1>5
      <3>2. UNCHANGED <<finish, producer, pushed, map, longest>> BY <1>2
      <3> QED BY <2>4, <3>1, <3>2, ProducerStays
    <2>7. TailPos \in Int /\ TailPos = h + Span /\ Span \in 0 .. 2
      <3>1. TailPos \in Int BY EndsInUse DEF Positions
      <3> QED BY <1>4, <3>1 DEF Span, QInv, View, Bounds
    \* There is a next node: otherwise fewer events were pushed than handled.
    <2>8. Span >= 1
      <3>1. PICK f \in 0 .. B - 1 : f = finish.cur.slot BY DEF QInv, View, Bounds
      <3>2. pushed >= Len(handled) BY <1>5 DEF QInv, View, Bounds
      <3>3. Span = 0 => pushed = b + f BY <1>4, <3>1 DEF QInv, View, Count
      <3> QED BY <1>4, <1>5, <2>1, <2>7, <3>1, <3>2, <3>3
    <2>9. Span' = Span - 1 /\ Base' = b + B
      <3>1. HeadPos \in Int BY <1>4
      <3>2. Span' = Span - 1 BY <1>4, <2>5, <2>6, <2>7, <3>1 DEF Span
      <3>3. Base' = b + B BY <1>2, <1>4, <1>5, <2>1, <2>5 DEF Base
      <3> QED BY <3>2, <3>3
    <2>10. LastPos \in h + 1 .. h + 2
      <3>1. CASE ProducerAt("publish")
        <4>1. Span \in 0 .. 1 BY <3>1, ShortSpan DEF ProducerAt
        <4> QED BY <2>7, <2>8, <3>1, <4>1 DEF LastPos
      <3>2. CASE ~ProducerAt("publish") BY <2>7, <2>8, <3>2 DEF LastPos
      <3> QED BY <3>1, <3>2
    <2>11. InUse = h .. LastPos /\ InUse' = h + 1 .. LastPos
      BY <1>4, <2>5, <2>6 DEF InUse
    <2>12. Bounds'
      <3>1. Bounds BY DEF QInv, View
      <3> QED BY <1>2, <2>1, <2>5, <2>6, <2>7, <2>8, <2>9, <3>1 DEF Bounds
    <2>13. Count'
      <3>1. PICK f \in 0 .. B - 1 : f = finish.cur.slot BY DEF QInv, View, Bounds
      <3>2. \/ Span = 1 /\ pushed = b + B + f
            \/ Span = 2 /\ pushed = b + B + B + f
        BY <1>4, <2>8, <3>1 DEF QInv, View, Count
      <3> QED BY <1>2, <1>4, <1>5, <2>9, <3>1, <3>2 DEF Count
    <2>14. NodesInUse'
      <3>1. \A i \in InUse' : i \in InUse BY <2>11
      <3> QED BY <1>2, <2>6, <3>1 DEF QInv, View, NodesInUse
    <2>15. Contents'
      <3>1. ASSUME NEW i, NEW base \in Int, i # h, Holds(i, base) PROVE Holds(i, base)'
        <4>1. i \in InUse' => i \in InUse BY <2>11
        <4> QED BY <1>2, <1>8, <2>6, <3>1, <4>1 DEF Holds
      <3>2. Holds(h + 1, b + B)' BY <1>4, <1>5, <1>9, <3>1
      <3>3. Holds(h + 2, b + B + B)' BY <1>4, <1>5, <1>9, <3>1
      <3>4. Holds(h + 3, b + B + B + B)'
        <4>1. h + 3 \notin InUse' BY <2>10, <2>11
        <4> QED BY <4>1 DEF Holds
      <3>5. HeadPos' = h + 1 /\ Base' = b + B BY <2>5, <2>9
      <3>6. (h + 1) + 1 = h + 2 /\ (h + 1) + 2 = h + 3 OBVIOUS
      <3> QED BY <3>2, <3>3, <3>4, <3>5, <3>6 DEF Contents
    <2>16. InOrder' BY <1>2 DEF QInv, View, InOrder
    <2>17. ConsumerInv'
      <3>1. start.first \in live /\ \A i \in InUse' : map[i] # start.first
        BY <1>3, <1>4, <1>6, <2>11
      <3> QED BY <1>2, <2>1, <2>2, <3>1 DEF ConsumerInv, ConsumerAt, Crossing
    <2> QED BY <2>3, <2>6, <2>12, <2>13, <2>14, <2>15, <2>16, <2>17 DEF QInv, View
  <1> QED BY <1>10, <1>11

\* The node that is freed is allocated and out of use.
LEMMA PopFreeKeeps ==
    ASSUME QInv, PopFree, UNCHANGED longest, Unraced
    PROVE  QInv'
  <1>1. QueueTypeOK BY DEF QInv
  <1>2. /\ consumer.pc = "free"
        /\ UNCHANGED <<memory, map, start, finish, producer, pushed, handled>>
    BY DEF PopFree, ConsumerAt
  <1>3. start.first \in live /\ \A i \in InUse : map[i] # start.first
    BY <1>2 DEF QInv, ConsumerInv, ConsumerAt
  <1>4. start.node + 1 \in Positions
    <2>1. HeadPos = start.node + 1 BY <1>2 DEF HeadPos
    <2>2. HeadPos \in InUse /\ LastPos < MapSize /\ HeadPos \in Nat
      BY EndsInUse DEF QInv, View, Bounds
    <2>3. LastPos \in Int /\ MapSize \in Nat
      <3>1. TailPos \in Int BY EndsInUse DEF Positions
      <3> QED BY <3>1, QueueAssumption DEF LastPos
    <2> QED BY <2>1, <2>2, <2>3 DEF InUse, Positions
  <1>5. live' = live \ {start.first} /\ consumer' = [pc |-> "node", at |-> start.node + 1]
    BY <1>3, <1>4 DEF PopFree
  <1>6. QueueTypeOK'
    <2>1. consumer' \in [pc : ConsumerPcs, at : 0 .. MapSize]
      BY <1>4, <1>5, QueueAssumption DEF ConsumerPcs, Positions
    <2> QED BY <1>1, <1>2, <1>5, <2>1 DEF QueueTypeOK, Unraced
  <1>7. ~Moving BY <1>2 DEF Crossing, QInv, ProducerInv
  <1>8. HeadPos' = HeadPos /\ HeadSlot' = HeadSlot
    BY <1>2, <1>5 DEF HeadPos, HeadSlot, Crossing
  <1>9. /\ ProducerInv'
        /\ TailPos' = TailPos /\ LastPos' = LastPos /\ LastEvent' = LastEvent
    <2>1. Len(handled') \in Nat /\ Len(handled') >= Len(handled) BY <1>1, <1>2, Fields
    <2>2. UNCHANGED <<finish, producer, pushed, map, longest>> BY <1>2
    <2> QED BY <1>7, <2>1, <2>2, ProducerStays
  <1>10. Span' = Span /\ InUse' = InUse /\ Base' = Base
    BY <1>2, <1>8, <1>9 DEF Span, InUse, Base
  <1>11. Bounds' /\ Count' /\ InOrder'
    BY <1>2, <1>8, <1>9, <1>10 DEF QInv, View, Bounds, Count, InOrder
  <1>12. NodesInUse' BY <1>2, <1>3, <1>5, <1>9, <1>10 DEF QInv, View, NodesInUse
  <1>13. Contents' BY <1>2, <1>8, <1>9, <1>10 DEF QInv, View, Contents, Holds
  <1>14. ConsumerInv' BY <1>2, <1>5 DEF ConsumerInv, ConsumerAt, Crossing
  <1> QED BY <1>6, <1>9, <1>11, <1>12, <1>13, <1>14 DEF QInv, View

\* The stores to start between the two nodes.
LEMMA PopStoresKeep ==
    ASSUME QInv, PopNode \/ PopFirst \/ PopLast \/ PopCur, UNCHANGED longest, Unraced
    PROVE  QInv'
  <1>1. QueueTypeOK BY DEF QInv
  <1>2. /\ consumer.pc \in {"node", "first", "last", "cur"}
        /\ UNCHANGED <<memory, live, map, finish, producer, pushed, handled>>
    BY DEF PopNode, PopFirst, PopLast, PopCur, ConsumerAt
  <1>3. ~Moving BY <1>2 DEF Crossing, QInv, ProducerInv
  <1>4. /\ B \in Nat \ {0} /\ start.cur.slot \in 0 .. B - 1 /\ HeadSlot = 0
        /\ Len(handled) \in Nat /\ start.node \in Positions
        /\ map[HeadPos] \in Nodes /\ HeadPos \in Positions
    <2>1. HeadPos \in Positions
      <3>1. HeadPos \in InUse /\ LastPos < MapSize /\ HeadPos \in Nat
        BY EndsInUse DEF QInv, View, Bounds
      <3>2. LastPos \in Int /\ MapSize \in Nat
        <4>1. TailPos \in Int BY EndsInUse DEF Positions
        <4> QED BY <4>1, QueueAssumption DEF LastPos
      <3> QED BY <3>1, <3>2 DEF InUse, Positions
    <2> QED BY <1>1, <1>2, <2>1, Fields, EndsInUse DEF QInv, View, Bounds, HeadSlot, Crossing
  <1>5. SUFFICES /\ start' \in [node : Positions, first : Nodes, last : Nodes, cur : Places]
                 /\ consumer' \in [pc : ConsumerPcs, at : 0 .. MapSize]
                 /\ HeadPos' = HeadPos /\ HeadSlot' = 0 /\ start'.cur.slot \in 0 .. B - 1
                 /\ ConsumerInv'
    <2>1. ASSUME HeadPos' = HeadPos, HeadSlot' = 0, start'.cur.slot \in 0 .. B - 1
          PROVE  View' /\ ProducerInv'
      <3>1. Len(handled') \in Nat /\ Len(handled') >= Len(handled) BY <1>2, <1>4
      <3>2. UNCHANGED <<finish, producer, pushed, map, longest>> BY <1>2
      <3>3. /\ ProducerInv'
            /\ TailPos' = TailPos /\ LastPos' = LastPos /\ LastEvent' = LastEvent
        BY <1>3, <3>1, <3>2, ProducerStays
      <3> QED BY <1>2, <1>4, <2>1, <3>3, ViewStays DEF QInv
    <2>2. ASSUME start' \in [node : Positions, first : Nodes, last : Nodes, cur : Places],
                 consumer' \in [pc : ConsumerPcs, at : 0 .. MapSize]
          PROVE  QueueTypeOK'
      BY <1>1, <1>2, <2>2 DEF QueueTypeOK, Unraced
    <2> QED BY <2>1, <2>2 DEF QInv
  <1>6. CASE PopNode
    <2>1. /\ consumer.pc = "node" /\ consumer.at = start.node + 1
          /\ start' = [start EXCEPT !.node = start.node + 1] /\ ConsumerTo("first")
      BY <1>6 DEF PopNode, ConsumerAt, QInv, ConsumerInv
    <2>2. HeadPos = start.node + 1 BY <2>1 DEF HeadPos
    <2>3. /\ consumer' \in [pc : ConsumerPcs, at : 0 .. MapSize]
          /\ consumer'.pc = "first" /\ consumer'.at = start.node + 1
      BY <1>1, <2>1, ConsumerTyped DEF ConsumerPcs
    <2>4. /\ start' \in [node : Positions, first : Nodes, last : Nodes, cur : Places]
          /\ start'.node = start.node + 1 /\ start'.cur = start.cur
      BY <1>1, <1>4, <2>1, <2>2 DEF QueueTypeOK
    <2>5. HeadPos' = HeadPos /\ HeadSlot' = 0
      BY <2>2, <2>3, <2>4 DEF HeadPos, HeadSlot, Crossing
    <2>6. ConsumerInv' BY <2>3, <2>4 DEF ConsumerInv, ConsumerAt, Crossing
    <2> QED BY <1>4, <2>3, <2>4, <2>5, <2>6
  <1>7. CASE PopFirst
    <2>1. consumer.pc = "first" /\ consumer.at = start.node /\ HeadPos = start.node
      BY <1>7 DEF PopFirst, ConsumerAt, QInv, ConsumerInv, HeadPos
    <2>2. start' = [start EXCEPT !.first = map[HeadPos]] /\ ConsumerTo("last")
      BY <1>4, <1>7, <2>1 DEF PopFirst
    <2>3. /\ consumer' \in [pc : ConsumerPcs, at : 0 .. MapSize] /\ consumer'.pc = "last"
      BY <1>1, <2>2, ConsumerTyped DEF ConsumerPcs
    <2>4. /\ start' \in [node : Positions, first : Nodes, last : Nodes, cur : Places]
          /\ start'.node = start.node /\ start'.cur = start.cur /\ start'.first = map[HeadPos]
      BY <1>1, <1>4, <2>2 DEF QueueTypeOK
    <2>5. HeadPos' = HeadPos /\ HeadSlot' = 0
      BY <2>1, <2>3, <2>4 DEF HeadPos, HeadSlot, Crossing
    <2>6. ConsumerInv' BY <1>2, <2>1, <2>3, <2>4 DEF ConsumerInv, ConsumerAt, Crossing
    <2> QED BY <1>4, <2>3, <2>4, <2>5, <2>6
  <1>8. CASE PopLast
    <2>1. /\ consumer.pc = "last" /\ HeadPos = start.node
          /\ start.first = map[start.node]
          /\ start' = [start EXCEPT !.last = start.first] /\ ConsumerTo("cur")
      BY <1>8 DEF PopLast, ConsumerAt, QInv, ConsumerInv, HeadPos
    <2>2. /\ consumer' \in [pc : ConsumerPcs, at : 0 .. MapSize] /\ consumer'.pc = "cur"
      BY <1>1, <2>1, ConsumerTyped DEF ConsumerPcs
    <2>3. /\ start' \in [node : Positions, first : Nodes, last : Nodes, cur : Places]
          /\ start'.node = start.node /\ start'.cur = start.cur
          /\ start'.first = start.first /\ start'.last = start.first
      BY <1>1, <2>1 DEF QueueTypeOK
    <2>4. HeadPos' = HeadPos /\ HeadSlot' = 0
      BY <2>1, <2>2, <2>3 DEF HeadPos, HeadSlot, Crossing
    <2>5. ConsumerInv' BY <1>2, <2>1, <2>2, <2>3 DEF ConsumerInv, ConsumerAt, Crossing
    <2> QED BY <1>4, <2>2, <2>3, <2>4, <2>5
  <1>9. CASE PopCur
    <2>1. /\ consumer.pc = "cur" /\ HeadPos = start.node
          /\ start.first = map[HeadPos] /\ start.last = map[HeadPos]
          /\ start' = [start EXCEPT !.cur = [node |-> start.first, slot |-> 0]]
          /\ ConsumerTo("idle")
      BY <1>9 DEF PopCur, ConsumerAt, QInv, ConsumerInv, HeadPos
    <2>2. /\ consumer' \in [pc : ConsumerPcs, at : 0 .. MapSize] /\ consumer'.pc = "idle"
      BY <1>1, <2>1, ConsumerTyped DEF ConsumerPcs
    <2>3. /\ start' \in [node : Positions, first : Nodes, last : Nodes, cur : Places]
          /\ start'.node = start.node /\ start'.first = start.first /\ start'.last = start.last
          /\ start'.cur.node = map[HeadPos] /\ start'.cur.slot = 0
      <3>1. [node |-> start.first, slot |-> 0] \in Places
        BY <1>1, <1>4, Fields DEF Places
      <3>2. start'.cur = [node |-> start.first, slot |-> 0]
        BY <1>1, <2>1 DEF QueueTypeOK
      <3>3. start'.cur.node = map[HeadPos] /\ start'.cur.slot = 0 BY <2>1, <3>2
      <3> QED BY <1>1, <2>1, <3>1, <3>3 DEF QueueTypeOK
    <2>4. HeadPos' = HeadPos /\ HeadSlot' = 0
      BY <2>1, <2>2, <2>3 DEF HeadPos, HeadSlot, Crossing, ConsumerAt
    <2>5. ConsumerInv' BY <1>2, <2>1, <2>2, <2>3, <2>4 DEF ConsumerInv, ConsumerAt, Crossing
    <2> QED BY <1>4, <2>2, <2>3, <2>4, <2>5
  <1> QED BY <1>6, <1>7, <1>8, <1>9

-------------------------------------------------------------------------------
(* All steps *)

LEMMA InitQInv == QueueInit => QInv /\ ~raced
  <1>1. SUFFICES ASSUME QueueInit PROVE QInv /\ ~raced OBVIOUS
  <1>2. PICK n \in Nodes :
            /\ memory = [m \in Nodes |-> Blank]
            /\ live = {n}
            /\ map = [i \in Positions |-> IF i = (MapSize - 1) \div 2 THEN n ELSE NoNode]
            /\ start = [node |-> (MapSize - 1) \div 2, first |-> n, last |-> n,
                        cur |-> [node |-> n, slot |-> 0]]
            /\ finish = [node |-> (MapSize - 1) \div 2, cur |-> [node |-> n, slot |-> 0]]
    BY <1>1 DEF QueueInit
  <1>3. /\ producer = [pc |-> "idle", count |-> 0, at |-> 0]
        /\ consumer = [pc |-> "idle", at |-> 0]
        /\ pushed = 0 /\ handled = <<>> /\ raced = FALSE /\ longest = 0
    BY <1>1 DEF QueueInit
  <1>4. PICK middle \in Positions : middle = (MapSize - 1) \div 2 /\ map[middle] = n
    <2>1. (MapSize - 1) \div 2 \in Positions BY QueueAssumption DEF Positions
    <2> QED BY <1>2, <2>1
  <1>5. B \in Nat \ {0} /\ MaxEvents \in Nat /\ MaxBacklog \in Nat /\ MapSize \in Nat
    BY QueueAssumption
  <1>6. /\ start.node = middle /\ start.first = n /\ start.last = n
        /\ start.cur.node = n /\ start.cur.slot = 0
        /\ finish.node = middle /\ finish.cur.node = n /\ finish.cur.slot = 0
    BY <1>2, <1>4
  <1>7. QueueTypeOK
    <2>1. [node |-> n, slot |-> 0] \in Places BY <1>5 DEF Places
    <2>2. Blank \in [0 .. B - 1 -> 0 .. MaxEvents] BY <1>5 DEF Blank
    <2>3. memory \in [Nodes -> [0 .. B - 1 -> 0 .. MaxEvents]] BY <1>2, <2>2
    <2>4. map \in [Positions -> Nodes \cup {NoNode}] BY <1>2
    <2>5. producer \in [pc : ProducerPcs, count : Nat, at : 0 .. MapSize]
          /\ consumer \in [pc : ConsumerPcs, at : 0 .. MapSize]
      BY <1>3, <1>5 DEF ProducerPcs, ConsumerPcs
    <2>6. /\ start \in [node : Positions, first : Nodes, last : Nodes, cur : Places]
          /\ finish \in [node : Positions, cur : Places]
      BY <1>2, <1>4, <2>1
    <2>7. handled \in Seq(1 .. MaxEvents) /\ pushed \in 0 .. MaxEvents
          /\ longest \in 0 .. MaxBacklog /\ live \subseteq Nodes /\ raced \in BOOLEAN
      <3>1. handled \in Seq(1 .. MaxEvents) BY <1>3
      <3>2. pushed \in 0 .. MaxEvents /\ longest \in 0 .. MaxBacklog BY <1>3, <1>5
      <3> QED BY <1>2, <1>3, <3>1, <3>2
    <2> QED BY <2>3, <2>4, <2>5, <2>6, <2>7 DEF QueueTypeOK
  <1>8. /\ HeadPos = middle /\ HeadSlot = 0 /\ TailPos = middle /\ LastPos = middle
        /\ LastEvent = 0 /\ Len(handled) = 0
    BY <1>3, <1>6 DEF HeadPos, HeadSlot, TailPos, LastPos, LastEvent, Crossing, ConsumerAt,
                      ProducerAt
  <1>9. Span = 0 /\ Base = 0 /\ InUse = {middle}
    BY <1>5, <1>8 DEF Span, Base, InUse, Positions
  <1>10. Bounds /\ Count
    BY <1>3, <1>5, <1>6, <1>8, <1>9 DEF Bounds, Count, Positions
  <1>11. NodesInUse BY <1>2, <1>4, <1>6, <1>8, <1>9 DEF NodesInUse
  <1>12. Contents
    <2>1. Len(handled) + 1 .. LastEvent = {} BY <1>8
    <2> QED BY <2>1 DEF Contents, Holds
  <1>13. InOrder BY <1>3 DEF InOrder
  <1>14. ConsumerInv
    BY <1>3, <1>4, <1>6, <1>8 DEF ConsumerInv, ConsumerAt, Crossing
  <1>15. ProducerInv BY <1>3 DEF ProducerInv, ProducerAt, Moving
  <1> QED BY <1>3, <1>7, <1>10, <1>11, <1>12, <1>13, <1>14, <1>15 DEF QInv, View

\* A race lasts: raced is never taken back.
LEMMA NextQInv ==
    ASSUME ~raced => QInv, raced \in BOOLEAN, [QueueNext]_qvars
    PROVE  (~raced => QInv)' /\ raced' \in BOOLEAN
  <1>1. CASE UNCHANGED qvars
    <2>1. SUFFICES ASSUME QInv PROVE QInv' BY <1>1 DEF qvars
    <2>2. QueueTypeOK' BY <1>1, <2>1 DEF qvars, QInv, QueueTypeOK
    <2>3. /\ HeadPos' = HeadPos /\ HeadSlot' = HeadSlot
          /\ TailPos' = TailPos /\ LastPos' = LastPos /\ LastEvent' = LastEvent
      BY <1>1 DEF qvars, HeadPos, HeadSlot, TailPos, LastPos, LastEvent, Crossing, ConsumerAt,
                  ProducerAt
    <2>4. View'
      <3>1. start'.cur.slot \in 0 .. B - 1 BY <1>1, <2>1 DEF qvars, QInv, View, Bounds
      <3> QED BY <1>1, <2>1, <2>3, <3>1, ViewStays DEF QInv, qvars
    <2>5. Span' = Span /\ InUse' = InUse BY <2>3 DEF Span, InUse
    <2>6. ConsumerInv'
      BY <1>1, <2>1, <2>3, <2>5 DEF qvars, QInv, ConsumerInv, ConsumerAt, Crossing
    <2>7. ProducerInv'
      BY <1>1, <2>1, <2>3, <2>5 DEF qvars, QInv, ProducerInv, ProducerAt, Moving, Crossing
    <2> QED BY <2>2, <2>4, <2>6, <2>7 DEF QInv
  <1>2. CASE QueueNext
    <2>1. NoteRace BY <1>2 DEF QueueNext, PushArrives, PushStep, WorkerLoop
    <2>2. raced' \in BOOLEAN /\ (raced => raced') BY <2>1 DEF NoteRace
    <2>3. SUFFICES ASSUME ~raced' PROVE QInv' BY <2>2
    <2>4. QInv /\ Unraced BY <2>1, <2>2, <2>3 DEF NoteRace, Unraced
    <2>5. CASE PushArrives
      BY <2>4, <2>5, InNodeKeeps, LastOfNodeKeeps DEF PushArrives
    <2>6. CASE PushStep
      BY <2>4, <2>6, CountKeeps, CopyKeeps, NodeKeeps, FirstKeeps, LastKeeps, PushNodeKeeps,
         PublishKeeps DEF PushStep
    <2>7. CASE WorkerLoop
      BY <2>4, <2>7, FrontKeeps, PopKeeps, PopFreeKeeps, PopStoresKeep DEF WorkerLoop
    <2> QED BY <1>2, <2>5, <2>6, <2>7 DEF QueueNext
  <1> QED BY <1>1, <1>2

\* As long as the unlocked pops and the move of the map have not met, the queue
\* is the one of the code's two threads: the view of it is the events between
\* what the worker handled and what put_data pushed.
THEOREM QueueAsSeen == QueueSpec => [](~raced => QInv)
  <1>1. QueueInit => (~raced => QInv) /\ raced \in BOOLEAN BY InitQInv DEF QueueInit
  <1>2. ((~raced => QInv) /\ raced \in BOOLEAN) /\ [QueueNext]_qvars
            => ((~raced => QInv) /\ raced \in BOOLEAN)'
    BY NextQInv
  <1> QED BY <1>1, <1>2, PTL DEF QueueSpec

\* put_data and worker_loop: unless a pop goes from one node to the next while a
\* push moves the map, the worker handles every event once and in order.
THEOREM Fifo == QueueSpec => []FifoUnlessRaced
  <1>1. (~raced => QInv) => FifoUnlessRaced
    BY DEF FifoUnlessRaced, QInv, View, ConsumerInv
  <1> QED BY <1>1, QueueAsSeen, PTL

-------------------------------------------------------------------------------
(* When a race can happen *)

\* What holds of the history, raced or not.
History ==
    /\ raced \in BOOLEAN /\ pushed \in Nat /\ longest \in Nat
    /\ \E S : handled \in Seq(S)
    /\ raced => longest >= B - 1

\* Only a push moves longest, and never down.
LEMMA LongestGrows ==
    ASSUME History, QueueNext
    PROVE  /\ longest' \in Nat /\ longest' >= longest /\ pushed' \in Nat
           /\ \E S : handled' \in Seq(S)
  <1>1. PICK S : handled \in Seq(S) BY DEF History
  <1>2. Len(handled) \in Nat /\ pushed \in Nat /\ longest \in Nat BY <1>1 DEF History
  <1>3. CASE PushArrives
    <2>1. longest' = IF pushed - Len(handled) > longest THEN pushed - Len(handled) ELSE longest
      BY <1>3 DEF PushArrives, PushInNode, PushLastOfNode, PushBegins, Waiting
    <2>2. longest' \in Nat /\ longest' >= longest BY <1>2, <2>1
    <2>3. pushed' \in {pushed, pushed + 1} /\ handled' = handled
      BY <1>3 DEF PushArrives, PushInNode, PushLastOfNode
    <2> QED BY <1>1, <1>2, <2>2, <2>3
  <1>4. CASE PushStep
    <2>1. longest' = longest /\ pushed' \in {pushed, pushed + 1} /\ handled' = handled
      BY <1>4 DEF PushStep, MoveCount, MoveCopy, MoveNode, MoveFirst, MoveLast, PushNode,
                  PushPublish
    <2> QED BY <1>1, <1>2, <2>1
  <1>5. CASE WorkerLoop
    <2>1. longest' = longest /\ pushed' = pushed
      BY <1>5 DEF WorkerLoop, Front, Pop, PopFree, PopNode, PopFirst, PopLast, PopCur
    <2>2. CASE Front
      <3>1. CASE UNCHANGED handled BY <1>1, <1>2, <2>1, <3>1
      <3>2. PICK e : UNCHANGED handled \/ handled' = Append(handled, e) BY <2>2 DEF Front
      <3>3. CASE handled' = Append(handled, e)
        <4>1. handled \in Seq(S \cup {e}) BY <1>1
        <4>2. handled' \in Seq(S \cup {e}) BY <3>3, <4>1
        <4> QED BY <1>2, <2>1, <4>2
      <3> QED BY <3>1, <3>2, <3>3
    <2>3. CASE UNCHANGED handled BY <1>1, <1>2, <2>1, <2>3
    <2> QED BY <1>5, <2>2, <2>3 DEF WorkerLoop, Pop, PopFree, PopNode, PopFirst, PopLast, PopCur
  <1> QED BY <1>3, <1>4, <1>5 DEF QueueNext

\* The race begins where the worker leaves a node while the map is moved, or the
\* move begins where the worker leaves a node.  The push found the last node full
\* and the next event to handle is the first of a node, or the one before it was.
LEMMA RaceNeedsBacklog ==
    ASSUME QInv, QueueNext, (Moving /\ Crossing)'
    PROVE  longest' >= B - 1
  <1>1. ~(Moving /\ Crossing) BY DEF QInv, ProducerInv
  <1>2. B \in Nat \ {0} /\ pushed \in Nat /\ Len(handled) \in Nat /\ Base \in Int
        /\ longest \in Nat
    <2>1. start.cur.slot \in Int /\ Len(handled) \in Int
      BY Fields DEF QInv, View, Bounds
    <2>2. HeadSlot \in Int BY <2>1 DEF HeadSlot
    <2> QED BY <2>1, <2>2, Fields, QueueAssumption DEF QInv, QueueTypeOK, Base
  <1>3. ~ProducerAt("idle") /\ UNCHANGED longest
    <2>1. CASE PushArrives
      <3>1. UNCHANGED consumer /\ producer'.pc \in {producer.pc, "full", "append"}
        <4>1. CASE PushInNode BY <4>1 DEF PushInNode
        <4>2. CASE PushLastOfNode
          BY <4>2 DEF PushLastOfNode, ProducerTo, QInv, QueueTypeOK
        <4> QED BY <2>1, <4>1, <4>2 DEF PushArrives
      <3>2. producer.pc = "idle"
        BY <2>1 DEF PushArrives, PushInNode, PushLastOfNode, PushBegins, ProducerAt
      <3> QED BY <3>1, <3>2 DEF Moving
    <2>2. CASE PushStep
      BY <2>2 DEF PushStep, MoveCount, MoveCopy, MoveNode, MoveFirst, MoveLast, PushNode,
                  PushPublish, ProducerAt
    <2>3. CASE WorkerLoop
      BY <2>3 DEF WorkerLoop, Front, Pop, PopFree, PopNode, PopFirst, PopLast, PopCur, Moving,
                  ProducerAt
    <2> QED BY <2>1, <2>2, <2>3 DEF QueueNext
  <1>4. finish.cur.slot = B - 1 /\ pushed - Len(handled) <= longest
    BY <1>3 DEF QInv, ProducerInv
  <1>5. HeadSlot \in {0, B}
    <2>1. CASE Crossing BY <2>1 DEF HeadSlot
    <2>2. CASE ~Crossing
      <3>1. WorkerLoop
        <4>1. ~PushArrives BY <1>3 DEF PushArrives, PushInNode, PushLastOfNode, PushBegins
        <4>2. ~PushStep
          <5>1. PushStep => UNCHANGED consumer
            BY DEF PushStep, MoveCount, MoveCopy, MoveNode, MoveFirst, MoveLast, PushNode,
                   PushPublish
          <5> QED BY <2>2, <5>1 DEF Crossing
        <4> QED BY <4>1, <4>2 DEF QueueNext
      <3>2. Pop
        <4>1. Front => consumer'.pc \in {"pop", "wild"}
          BY DEF Front, ConsumerTo, QInv, QueueTypeOK
        <4>2. ~Front BY <4>1 DEF Crossing
        <4>3. consumer.pc \notin {"free", "node", "first", "last", "cur"} BY <2>2 DEF Crossing
        <4> QED BY <3>1, <4>2, <4>3
              DEF WorkerLoop, PopFree, PopNode, PopFirst, PopLast, PopCur, ConsumerAt
      <3>3. start.cur = [node |-> start.last, slot |-> B - 1]
        <4>1. ConsumerTo("idle") => consumer'.pc = "idle"
          BY DEF ConsumerTo, QInv, QueueTypeOK
        <4> QED BY <3>2, <4>1 DEF Pop, Crossing
      <3>4. start.cur.slot = B - 1 BY <3>3
      <3> QED BY <1>2, <2>2, <3>2, <3>4 DEF HeadSlot, Pop
    <2> QED BY <2>1, <2>2
  <1>6. pushed - Len(handled) >= B - 1
    <2>1. Count /\ pushed - Len(handled) >= 0 BY DEF QInv, View, Bounds
    <2>2. Len(handled) = Base + HeadSlot BY <1>2, <1>5 DEF Base
    <2>3. CASE pushed = Base + (B - 1) BY <1>2, <1>5, <2>1, <2>2, <2>3
    <2>4. CASE pushed = Base + B + (B - 1) BY <1>2, <1>5, <2>2, <2>4
    <2>5. CASE pushed = Base + B + B + (B - 1) BY <1>2, <1>5, <2>2, <2>5
    <2> QED BY <1>4, <2>1, <2>3, <2>4, <2>5 DEF Count
  <1> QED BY <1>2, <1>3, <1>4, <1>6

\* put_data and worker_loop: while no push finds B - 1 events waiting, the race
\* cannot happen at all, and nothing is lost, repeated or garbled.
THEOREM ShortQueueIsFifo == QueueSpec => []FifoWhileShort
  <1> DEFINE Inv == (~raced => QInv) /\ History
  <1>1. QueueInit => Inv
    <2>1. SUFFICES ASSUME QueueInit PROVE Inv OBVIOUS
    <2>2. handled \in Seq({}) /\ raced = FALSE /\ pushed = 0 /\ longest = 0
      BY <2>1 DEF QueueInit
    <2>3. History BY <2>2 DEF History
    <2> QED BY <2>1, <2>3, InitQInv
  <1>2. Inv /\ [QueueNext]_qvars => Inv'
    <2>1. SUFFICES ASSUME Inv, [QueueNext]_qvars PROVE Inv' OBVIOUS
    <2>2. (~raced => QInv)' /\ raced' \in BOOLEAN BY <2>1, NextQInv DEF History
    <2>3. CASE UNCHANGED qvars BY <2>1, <2>2, <2>3 DEF qvars, History
    <2>4. CASE QueueNext
      <3>1. /\ longest' \in Nat /\ longest' >= longest /\ pushed' \in Nat
            /\ \E S : handled' \in Seq(S)
        BY <2>1, <2>4, LongestGrows
      <3>2. raced' => raced \/ (Moving /\ Crossing)'
        BY <2>4 DEF QueueNext, PushArrives, PushStep, WorkerLoop, NoteRace
      <3>3. raced' => longest' >= B - 1
        <4>1. CASE raced
          <5>1. longest >= B - 1 /\ longest \in Nat BY <2>1, <4>1 DEF History
          <5> QED BY <3>1, <5>1, QueueAssumption
        <4>2. CASE ~raced BY <2>1, <2>4, <3>2, <4>2, RaceNeedsBacklog
        <4> QED BY <4>1, <4>2
      <3> QED BY <2>2, <3>1, <3>3 DEF History
    <2> QED BY <2>1, <2>3, <2>4
  <1>3. Inv => FifoWhileShort
    <2>1. Inv /\ longest < B - 1 => QInv BY QueueAssumption DEF History
    <2> QED BY <2>1 DEF FifoWhileShort, QInv, View, ConsumerInv
  <1> QED BY <1>1, <1>2, <1>3, PTL DEF QueueSpec

-------------------------------------------------------------------------------
(* Types, after a race too *)

Middle == (MapSize - 1) \div 2

\* A push that has found the map full, and the map from its middle on.
Full == producer.pc \in {"full", "copy", "node", "first", "last"}
FilledTo(last) == \A i \in Middle .. last : map[i] \in Nodes

\* Where the fields can point when a race has mixed them up.
PlacesInv ==
    /\ finish.cur.slot < B
    /\ ConsumerAt("pop") => start.cur.slot < B
    /\ start.node >= Middle - 1 /\ map[start.node] \in Nodes
    /\ consumer.pc \in {"node", "first"} => consumer.at \in Middle .. MapSize - 1
    /\ FilledTo(finish.node)
    /\ raced \/ Full => FilledTo(MapSize - 1)
    /\ producer.pc \in {"full", "copy", "node", "first", "last"} => finish.node = MapSize - 1
    /\ Full /\ ~ProducerAt("full") =>
          producer.count \in 1 .. 2 /\ producer.at = (MapSize - (producer.count + 1)) \div 2
    /\ producer.pc \in {"node", "first", "last"} => map[producer.at] \in Nodes
    /\ producer.pc \in {"append", "publish"} => finish.node < MapSize - 1
    /\ ProducerAt("publish") => map[finish.node + 1] \in Nodes
    /\ ~ProducerAt("idle") => pushed < MaxEvents

\* What no step of the other thread can disturb.
LEMMA ProducerPlaces ==
    ASSUME QueueTypeOK, PlacesInv, MapSize <= 8, raced' \in BOOLEAN, raced' => raced \/ Full,
           PushInNode \/ PushLastOfNode \/ ((MoveCount \/ MoveCopy \/ MoveNode \/ MoveFirst
               \/ MoveLast \/ PushNode \/ PushPublish) /\ UNCHANGED longest)
    PROVE  QueueTypeOK' /\ PlacesInv'
  <1>1. /\ MapSize \in {7, 8} /\ Middle = 3 /\ Positions = 0 .. MapSize - 1
        /\ B \in Nat \ {0} /\ MaxEvents \in Nat /\ MaxBacklog \in Nat
    BY QueueAssumption DEF Middle, Positions
  <1>2. /\ pushed \in 0 .. MaxEvents /\ Len(handled) \in Nat
        /\ start.node \in Positions /\ finish.node \in Positions
        /\ finish.cur \in Places /\ finish.cur.node \in Nodes /\ finish.cur.slot \in 0 .. B - 1
        /\ map \in [Positions -> Nodes \cup {NoNode}]
        /\ producer \in [pc : ProducerPcs, count : Nat, at : 0 .. MapSize]
    <2>1. finish.cur.slot \in 0 .. B /\ finish.cur.slot < B BY Fields DEF PlacesInv
    <2>2. finish.cur.slot \in 0 .. B - 1 BY <1>1, <2>1
    <2>3. pushed \in 0 .. MaxEvents /\ Len(handled) \in Nat BY Fields DEF QueueTypeOK
    <2>4. /\ start.node \in Positions /\ finish.node \in Positions
          /\ finish.cur \in Places /\ finish.cur.node \in Nodes
      BY Fields
    <2> QED BY <2>2, <2>3, <2>4 DEF QueueTypeOK
  <1>3. ASSUME NEW pc \in ProducerPcs, ProducerTo(pc)
        PROVE  /\ producer' \in [pc : ProducerPcs, count : Nat, at : 0 .. MapSize]
               /\ producer'.pc = pc /\ producer'.at = producer.at
               /\ producer'.count = producer.count
    BY <1>2, <1>3 DEF ProducerTo
  <1>4. ASSUME PushBegins PROVE longest' \in 0 .. MaxBacklog
    BY <1>1, <1>2, <1>4 DEF PushBegins, Waiting, QueueTypeOK
  <1>5. CASE PushInNode
    <2>1. /\ producer.pc = "idle" /\ pushed < MaxEvents /\ finish.cur.slot # B - 1
          /\ memory' = [memory EXCEPT ![finish.cur.node][finish.cur.slot] = pushed + 1]
          /\ finish' = [finish EXCEPT !.cur.slot = @ + 1]
          /\ pushed' = pushed + 1 /\ longest' \in 0 .. MaxBacklog
          /\ UNCHANGED <<live, map, start, producer, consumer, handled>>
      BY <1>4, <1>5 DEF PushInNode, PushBegins, NodeFull, ProducerAt, Construct
    <2>2. pushed + 1 \in 0 .. MaxEvents
      <3>1. pushed \in 0 .. MaxEvents /\ pushed < MaxEvents /\ MaxEvents \in Nat
        BY <1>1, <1>2, <2>1
      <3> QED BY <3>1
    <2>3. memory' \in [Nodes -> [0 .. B - 1 -> 0 .. MaxEvents]]
      BY <1>2, <2>1, <2>2, WriteTyped DEF QueueTypeOK
    <2>4. /\ finish' \in [node : Positions, cur : Places] /\ finish'.node = finish.node
          /\ finish'.cur.slot = finish.cur.slot + 1
      <3>1. [finish.cur EXCEPT !.slot = finish.cur.slot + 1] \in Places
        <4>1. finish.cur.slot + 1 \in 0 .. B BY <1>1, <1>2
        <4> QED BY <1>2, <4>1 DEF Places
      <3>2. finish'.cur = [finish.cur EXCEPT !.slot = finish.cur.slot + 1]
            /\ finish' \in [node : Positions, cur : Places] /\ finish'.node = finish.node
        BY <1>2, <2>1, <3>1 DEF QueueTypeOK
      <3> QED BY <1>2, <3>2 DEF Places
    <2>5. QueueTypeOK' BY <2>1, <2>2, <2>3, <2>4 DEF QueueTypeOK
    <2>6. finish'.cur.slot < B
      <3>1. /\ finish.cur.slot \in 0 .. B - 1 /\ finish.cur.slot # B - 1 /\ B \in Nat \ {0}
            /\ finish'.cur.slot = finish.cur.slot + 1
        BY <1>1, <1>2, <2>1, <2>4
      <3> QED BY <3>1
    <2> QED BY <2>1, <2>4, <2>5, <2>6
          DEF PlacesInv, FilledTo, Full, ProducerAt, ConsumerAt
  <1>6. CASE PushLastOfNode
    <2>1. /\ pushed < MaxEvents /\ longest' \in 0 .. MaxBacklog
          /\ ProducerTo(IF finish.node = MapSize - 1 THEN "full" ELSE "append")
          /\ UNCHANGED <<memory, live, map, start, finish, consumer, pushed, handled>>
      BY <1>4, <1>6 DEF PushLastOfNode, PushBegins
    <2>2. /\ producer' \in [pc : ProducerPcs, count : Nat, at : 0 .. MapSize]
          /\ producer'.pc = IF finish.node = MapSize - 1 THEN "full" ELSE "append"
      BY <1>3, <2>1 DEF ProducerPcs
    <2>3. QueueTypeOK' BY <2>1, <2>2 DEF QueueTypeOK
    <2>4. finish.node # MapSize - 1 => finish.node < MapSize - 1 BY <1>1, <1>2
    <2> QED BY <2>1, <2>2, <2>3, <2>4 DEF PlacesInv, FilledTo, Full, ProducerAt, ConsumerAt
  <1>7. CASE MoveCount /\ UNCHANGED longest
    <2>1. PICK c : /\ c = finish.node - start.node + 1 /\ MapSize > 2 * (c + 1)
                   /\ producer' = [pc |-> "copy", count |-> c, at |-> (MapSize - (c + 1)) \div 2]
      BY <1>7 DEF MoveCount
    <2>2. /\ producer.pc = "full" /\ finish.node = MapSize - 1
          /\ UNCHANGED <<memory, live, map, start, finish, consumer, pushed, handled>>
      BY <1>7 DEF MoveCount, ProducerAt, PlacesInv
    <2>3. c \in 1 .. 2
      <3>1. start.node \in 0 .. MapSize - 1 /\ c = MapSize - start.node BY <1>1, <1>2, <2>1, <2>2
      <3> QED BY <1>1, <2>1, <3>1
    <2>4. producer' \in [pc : ProducerPcs, count : Nat, at : 0 .. MapSize]
      BY <1>1, <2>1, <2>3 DEF ProducerPcs
    <2>5. QueueTypeOK' BY <1>7, <2>2, <2>4 DEF QueueTypeOK
    <2> QED BY <2>1, <2>2, <2>3, <2>5 DEF PlacesInv, FilledTo, Full, ProducerAt, ConsumerAt
  <1>8. CASE MoveCopy /\ UNCHANGED longest
    <2>1. /\ producer.pc = "copy" /\ finish.node = MapSize - 1
          /\ map' = [i \in Positions |->
                        IF i - producer.at \in 0 .. finish.node - start.node
                        THEN map[start.node + (i - producer.at)] ELSE map[i]]
          /\ ProducerTo("node")
          /\ UNCHANGED <<memory, live, start, finish, consumer, pushed, handled>>
      BY <1>8 DEF MoveCopy, ProducerAt, PlacesInv
    <2>2. /\ producer' \in [pc : ProducerPcs, count : Nat, at : 0 .. MapSize]
          /\ producer'.pc = "node" /\ producer'.at = producer.at
          /\ producer'.count = producer.count
      BY <1>3, <2>1 DEF ProducerPcs
    <2>3. /\ producer.count \in 1 .. 2 /\ producer.at = (MapSize - (producer.count + 1)) \div 2
          /\ FilledTo(MapSize - 1)
      BY <2>1 DEF PlacesInv, Full, ProducerAt
    <2>4. producer.at \in 2 .. 3 /\ start.node \in 2 .. MapSize - 1
      BY <1>1, <1>2, <2>3 DEF PlacesInv
    <2>5. \A i \in start.node .. MapSize - 1 : map[i] \in Nodes
      BY <1>1, <2>3, <2>4 DEF PlacesInv, FilledTo
    <2>6. ASSUME NEW i \in Positions, i - producer.at \in 0 .. finish.node - start.node
          PROVE  map[start.node + (i - producer.at)] \in Nodes
      <3>1. start.node + (i - producer.at) \in start.node .. MapSize - 1
        BY <1>1, <2>1, <2>4, <2>6
      <3> QED BY <2>5, <3>1
    <2>7. map' \in [Positions -> Nodes \cup {NoNode}]
          /\ \A i \in Positions : map[i] \in Nodes => map'[i] \in Nodes
      BY <1>2, <2>1, <2>6
    <2>8. map'[producer.at] \in Nodes
      <3>1. producer.at \in Positions /\ producer.at - producer.at \in 0 .. finish.node - start.node
        BY <1>1, <2>1, <2>4
      <3> QED BY <2>1, <2>6, <3>1
    <2>9. QueueTypeOK' BY <1>8, <2>1, <2>2, <2>7 DEF QueueTypeOK
    <2>10. FilledTo(MapSize - 1)'
      <3>1. \A i \in 3 .. MapSize - 1 : i \in Positions BY <1>1
      <3> QED BY <1>1, <2>3, <2>7, <3>1 DEF FilledTo, Middle
    <2> QED BY <1>2, <2>1, <2>2, <2>3, <2>7, <2>8, <2>9, <2>10
          DEF PlacesInv, Full, ProducerAt, ConsumerAt
  <1>9. CASE MoveNode /\ UNCHANGED longest
    <2>1. /\ producer.pc = "node" /\ start' = [start EXCEPT !.node = producer.at]
          /\ ProducerTo("first")
          /\ UNCHANGED <<memory, live, map, finish, consumer, pushed, handled>>
      BY <1>9 DEF MoveNode, ProducerAt
    <2>2. /\ producer' \in [pc : ProducerPcs, count : Nat, at : 0 .. MapSize]
          /\ producer'.pc = "first" /\ producer'.at = producer.at
          /\ producer'.count = producer.count
      BY <1>3, <2>1 DEF ProducerPcs
    <2>3. /\ producer.count \in 1 .. 2 /\ producer.at = (MapSize - (producer.count + 1)) \div 2
          /\ map[producer.at] \in Nodes
      BY <2>1 DEF PlacesInv, Full, ProducerAt
    <2>4. producer.at \in 2 .. 3 /\ producer.at \in Positions BY <1>1, <2>3
    <2>5. /\ start' \in [node : Positions, first : Nodes, last : Nodes, cur : Places]
          /\ start'.node = producer.at /\ start'.cur = start.cur
      BY <2>1, <2>4 DEF QueueTypeOK
    <2>6. QueueTypeOK' BY <1>9, <2>1, <2>2, <2>5 DEF QueueTypeOK
    <2>7. start'.node >= Middle - 1 BY <1>1, <2>4, <2>5
    <2> QED BY <2>1, <2>2, <2>3, <2>5, <2>6, <2>7
          DEF PlacesInv, FilledTo, Full, ProducerAt, ConsumerAt
  <1>10. CASE MoveFirst /\ UNCHANGED longest
    <2>1. /\ producer.pc = "first" /\ start' = [start EXCEPT !.first = map[producer.at]]
          /\ ProducerTo("last") /\ map[producer.at] \in Nodes
          /\ UNCHANGED <<memory, live, map, finish, consumer, pushed, handled>>
      BY <1>10 DEF MoveFirst, ProducerAt, PlacesInv
    <2>2. /\ producer' \in [pc : ProducerPcs, count : Nat, at : 0 .. MapSize]
          /\ producer'.pc = "last" /\ producer'.at = producer.at
          /\ producer'.count = producer.count
      BY <1>3, <2>1 DEF ProducerPcs
    <2>3. /\ start' \in [node : Positions, first : Nodes, last : Nodes, cur : Places]
          /\ start'.node = start.node /\ start'.cur = start.cur
      BY <2>1 DEF QueueTypeOK
    <2>4. QueueTypeOK' BY <1>10, <2>1, <2>2, <2>3 DEF QueueTypeOK
    <2> QED BY <2>1, <2>2, <2>3, <2>4 DEF PlacesInv, FilledTo, Full, ProducerAt, ConsumerAt
  <1>11. CASE MoveLast /\ UNCHANGED longest
    <2>1. /\ producer.pc = "last" /\ start' = [start EXCEPT !.last = start.first]
          /\ finish' = [finish EXCEPT !.node = producer.at + producer.count - 1]
          /\ ProducerTo("append") /\ finish.node = MapSize - 1
          /\ UNCHANGED <<memory, live, map, consumer, pushed, handled>>
      BY <1>11 DEF MoveLast, ProducerAt, PlacesInv
    <2>2. /\ producer' \in [pc : ProducerPcs, count : Nat, at : 0 .. MapSize]
          /\ producer'.pc = "append"
      BY <1>3, <2>1 DEF ProducerPcs
    <2>3. /\ producer.count \in 1 .. 2 /\ producer.at = (MapSize - (producer.count + 1)) \div 2
          /\ FilledTo(MapSize - 1) /\ pushed < MaxEvents
      BY <2>1 DEF PlacesInv, Full, ProducerAt
    <2>4. producer.at + producer.count - 1 \in 2 .. MapSize - 2 BY <1>1, <2>3
    <2>5. /\ finish' \in [node : Positions, cur : Places] /\ finish'.cur = finish.cur
          /\ finish'.node \in 2 .. MapSize - 2
      <3>1. producer.at + producer.count - 1 \in Positions BY <1>1, <2>4
      <3> QED BY <1>2, <2>1, <2>4, <3>1 DEF QueueTypeOK
    <2>6. /\ start' \in [node : Positions, first : Nodes, last : Nodes, cur : Places]
          /\ start'.node = start.node /\ start'.cur = start.cur
      BY <2>1 DEF QueueTypeOK
    <2>7. QueueTypeOK' BY <1>11, <2>1, <2>2, <2>5, <2>6 DEF QueueTypeOK
    <2>8. FilledTo(finish.node)' /\ finish'.node < MapSize - 1
      BY <1>1, <2>1, <2>3, <2>5 DEF FilledTo, Middle
    <2> QED BY <2>1, <2>2, <2>3, <2>5, <2>6, <2>7, <2>8
          DEF PlacesInv, FilledTo, Full, ProducerAt, ConsumerAt
  <1>12. CASE PushNode /\ UNCHANGED longest
    <2>1. PICK n \in Nodes \ live :
              /\ live' = live \cup {n}
              /\ map' = [map EXCEPT ![finish.node + 1] = n]
              /\ memory' = [[memory EXCEPT ![n] = Blank]
                               EXCEPT ![finish.cur.node][finish.cur.slot] = pushed + 1]
      BY <1>12 DEF PushNode, Construct
    <2>2. /\ producer.pc = "append" /\ ProducerTo("publish")
          /\ finish.node < MapSize - 1 /\ pushed < MaxEvents
          /\ UNCHANGED <<start, finish, consumer, pushed, handled>>
      BY <1>12 DEF PushNode, ProducerAt, PlacesInv
    <2>3. /\ producer' \in [pc : ProducerPcs, count : Nat, at : 0 .. MapSize]
          /\ producer'.pc = "publish"
      BY <1>3, <2>2 DEF ProducerPcs
    <2>4. finish.node + 1 \in Positions BY <1>1, <1>2, <2>2
    <2>5. /\ map' \in [Positions -> Nodes \cup {NoNode}] /\ map'[finish.node + 1] \in Nodes
          /\ \A i \in Positions : map[i] \in Nodes => map'[i] \in Nodes
      BY <1>2, <2>1, <2>4
    <2>6. memory' \in [Nodes -> [0 .. B - 1 -> 0 .. MaxEvents]]
      <3>1. Blank \in [0 .. B - 1 -> 0 .. MaxEvents] BY <1>1 DEF Blank
      <3>2. [memory EXCEPT ![n] = Blank] \in [Nodes -> [0 .. B - 1 -> 0 .. MaxEvents]]
        BY <3>1 DEF QueueTypeOK
      <3>3. pushed + 1 \in 0 .. MaxEvents BY <1>1, <1>2, <2>2
      <3> QED BY <1>2, <2>1, <3>2, <3>3, WriteTyped
    <2>7. QueueTypeOK' BY <1>12, <2>1, <2>2, <2>3, <2>5, <2>6 DEF QueueTypeOK
    <2>8. FilledTo(finish.node)' /\ (raced' => FilledTo(MapSize - 1)')
      <3>1. \A last \in {finish.node, MapSize - 1} : \A i \in 3 .. last : i \in Positions
        BY <1>1, <1>2
      <3> QED BY <1>1, <2>2, <2>5, <3>1 DEF PlacesInv, FilledTo, Middle
    <2> QED BY <1>2, <2>2, <2>3, <2>5, <2>7, <2>8 DEF PlacesInv, Full, ProducerAt, ConsumerAt
  <1>13. CASE PushPublish /\ UNCHANGED longest
    <2>1. /\ producer.pc = "publish" /\ ProducerTo("idle")
          /\ finish' = [node |-> finish.node + 1,
                        cur |-> [node |-> map[finish.node + 1], slot |-> 0]]
          /\ pushed' = pushed + 1
          /\ finish.node < MapSize - 1 /\ pushed < MaxEvents /\ map[finish.node + 1] \in Nodes
          /\ UNCHANGED <<memory, live, map, start, consumer, handled>>
      BY <1>13 DEF PushPublish, ProducerAt, PlacesInv
    <2>2. /\ producer' \in [pc : ProducerPcs, count : Nat, at : 0 .. MapSize]
          /\ producer'.pc = "idle"
      BY <1>3, <2>1 DEF ProducerPcs
    <2>3. /\ finish' \in [node : Positions, cur : Places] /\ finish'.cur.slot = 0
          /\ finish'.node = finish.node + 1
      <3>1. [node |-> map[finish.node + 1], slot |-> 0] \in Places BY <1>1, <2>1 DEF Places
      <3>2. finish.node + 1 \in Positions BY <1>1, <1>2, <2>1
      <3> QED BY <2>1, <3>1, <3>2
    <2>4. pushed' \in 0 .. MaxEvents BY <1>1, <1>2, <2>1
    <2>5. QueueTypeOK' BY <1>13, <2>1, <2>2, <2>3, <2>4 DEF QueueTypeOK
    <2>6. FilledTo(finish.node)'
      <3>1. \A i \in 3 .. finish.node + 1 : i \in 3 .. finish.node \/ i = finish.node + 1
        BY <1>1, <1>2
      <3> QED BY <1>1, <2>1, <2>3, <3>1 DEF PlacesInv, FilledTo, Middle
    <2>7. 0 < B BY <1>1
    <2> QED BY <2>1, <2>2, <2>3, <2>5, <2>6, <2>7
          DEF PlacesInv, FilledTo, Full, ProducerAt, ConsumerAt
  <1> QED BY <1>5, <1>6, <1>7, <1>8, <1>9, <1>10, <1>11, <1>12, <1>13

LEMMA ConsumerPlaces ==
    ASSUME QueueTypeOK, PlacesInv, ~raced => QInv, MapSize <= 8,
           raced' \in BOOLEAN, raced' => raced \/ Full, UNCHANGED longest,
           Front \/ Pop \/ PopFree \/ PopNode \/ PopFirst \/ PopLast \/ PopCur
    PROVE  QueueTypeOK' /\ PlacesInv'
  <1>1. /\ MapSize \in {7, 8} /\ Middle = 3 /\ Positions = 0 .. MapSize - 1
        /\ B \in Nat \ {0} /\ MaxEvents \in Nat
    BY QueueAssumption DEF Middle, Positions
  <1>2. /\ start.node \in Positions /\ start.node >= 2 /\ map[start.node] \in Nodes
        /\ start.first \in Nodes /\ start.cur \in Places
        /\ start.cur.node \in Nodes /\ start.cur.slot \in 0 .. B
    BY <1>1, Fields DEF PlacesInv
  <1>3. UNCHANGED <<map, finish, producer, pushed>>
    BY DEF Front, Pop, PopFree, PopNode, PopFirst, PopLast, PopCur
  <1>4. SUFFICES /\ memory' \in [Nodes -> [0 .. B - 1 -> 0 .. MaxEvents]]
                 /\ live' \subseteq Nodes
                 /\ start' \in [node : Positions, first : Nodes, last : Nodes, cur : Places]
                 /\ consumer' \in [pc : ConsumerPcs, at : 0 .. MapSize]
                 /\ handled' \in Seq(1 .. MaxEvents)
                 /\ consumer'.pc = "pop" => start'.cur.slot < B
                 /\ start'.node >= 2 /\ map[start'.node] \in Nodes
                 /\ consumer'.pc \in {"node", "first"} => consumer'.at \in 3 .. MapSize - 1
    <2>1. ASSUME memory' \in [Nodes -> [0 .. B - 1 -> 0 .. MaxEvents]],
                 live' \subseteq Nodes,
                 start' \in [node : Positions, first : Nodes, last : Nodes, cur : Places],
                 consumer' \in [pc : ConsumerPcs, at : 0 .. MapSize],
                 handled' \in Seq(1 .. MaxEvents)
          PROVE  QueueTypeOK'
      BY <1>3, <2>1 DEF QueueTypeOK
    <2>2. ASSUME consumer'.pc = "pop" => start'.cur.slot < B,
                 start'.node >= 2, map[start'.node] \in Nodes,
                 consumer'.pc \in {"node", "first"} => consumer'.at \in 3 .. MapSize - 1
          PROVE  PlacesInv'
      BY <1>1, <1>3, <2>2 DEF PlacesInv, FilledTo, Full, ProducerAt, ConsumerAt, Middle
    <2> QED BY <2>1, <2>2
  <1>5. ASSUME NEW pc \in ConsumerPcs, ConsumerTo(pc)
        PROVE  /\ consumer' \in [pc : ConsumerPcs, at : 0 .. MapSize]
               /\ consumer'.pc = pc /\ consumer'.at = consumer.at
    BY <1>5, ConsumerTyped
  <1>6. CASE Front
    <2>1. UNCHANGED <<memory, live, start>> BY <1>6 DEF Front
    <2>2. CASE Readable(start.cur)
      <3>1. /\ handled' = Append(handled, memory[start.cur.node][start.cur.slot])
            /\ ConsumerTo("pop")
        BY <1>6, <2>2 DEF Front
      <3>2. start.cur.slot \in 0 .. B - 1 /\ memory[start.cur.node][start.cur.slot] # 0
        BY <1>1, <1>2, <2>2 DEF Readable
      <3>3. memory[start.cur.node][start.cur.slot] \in 1 .. MaxEvents
        <4>1. memory[start.cur.node][start.cur.slot] \in 0 .. MaxEvents
          <5>1. memory \in [Nodes -> [0 .. B - 1 -> 0 .. MaxEvents]] BY DEF QueueTypeOK
          <5>2. memory[start.cur.node] \in [0 .. B - 1 -> 0 .. MaxEvents] BY <1>2, <5>1
          <5> QED BY <3>2, <5>2
        <4> QED BY <1>1, <3>2, <4>1
      <3>4. handled' \in Seq(1 .. MaxEvents) BY <3>1, <3>3 DEF QueueTypeOK
      <3>5. /\ consumer' \in [pc : ConsumerPcs, at : 0 .. MapSize] /\ consumer'.pc = "pop"
        BY <1>5, <3>1 DEF ConsumerPcs
      <3>6. start.cur.slot < B BY <1>1, <3>2
      <3> QED BY <1>2, <2>1, <3>4, <3>5, <3>6 DEF QueueTypeOK
    <2>3. CASE ~Readable(start.cur)
      <3>1. ConsumerTo("wild") /\ UNCHANGED handled BY <1>6, <2>3 DEF Front
      <3>2. /\ consumer' \in [pc : ConsumerPcs, at : 0 .. MapSize] /\ consumer'.pc = "wild"
        BY <1>5, <3>1 DEF ConsumerPcs
      <3> QED BY <1>2, <2>1, <3>1, <3>2 DEF QueueTypeOK
    <2> QED BY <2>2, <2>3
  <1>7. CASE Pop
    <2>1. /\ consumer.pc = "pop" /\ UNCHANGED <<live, handled>>
          /\ memory' = [memory EXCEPT ![start.cur.node][start.cur.slot] = 0]
      BY <1>7 DEF Pop, ConsumerAt, Destroyed
    <2>2. start.cur.slot \in 0 .. B - 1
      <3>1. start.cur.slot < B BY <2>1 DEF PlacesInv, ConsumerAt
      <3> QED BY <1>1, <1>2, <3>1
    <2>3. memory' \in [Nodes -> [0 .. B - 1 -> 0 .. MaxEvents]]
      <3>1. 0 \in 0 .. MaxEvents BY <1>1
      <3> QED BY <1>2, <2>1, <2>2, <3>1, WriteTyped DEF QueueTypeOK
    <2>4. CASE start' = [start EXCEPT !.cur.slot = @ + 1] /\ ConsumerTo("idle")
      <3>1. start.cur.slot + 1 \in 0 .. B BY <1>1, <2>2
      <3>2. [start.cur EXCEPT !.slot = start.cur.slot + 1] \in Places BY <1>2, <3>1 DEF Places
      <3>3. start' = [start EXCEPT !.cur = [start.cur EXCEPT !.slot = start.cur.slot + 1]]
        BY <2>4 DEF QueueTypeOK
      <3>4. /\ start' \in [node : Positions, first : Nodes, last : Nodes, cur : Places]
            /\ start'.node = start.node
        BY <3>2, <3>3 DEF QueueTypeOK
      <3>5. /\ consumer' \in [pc : ConsumerPcs, at : 0 .. MapSize] /\ consumer'.pc = "idle"
        BY <1>5, <2>4 DEF ConsumerPcs
      <3> QED BY <1>2, <2>1, <2>3, <3>4, <3>5 DEF QueueTypeOK
    <2>5. CASE ConsumerTo("free") /\ UNCHANGED start
      <3>1. /\ consumer' \in [pc : ConsumerPcs, at : 0 .. MapSize] /\ consumer'.pc = "free"
        BY <1>5, <2>5 DEF ConsumerPcs
      <3> QED BY <1>2, <2>1, <2>3, <2>5, <3>1 DEF QueueTypeOK
    <2> QED BY <1>7, <2>4, <2>5 DEF Pop
  <1>8. CASE PopFree
    <2>1. UNCHANGED <<memory, start, handled>> BY <1>8 DEF PopFree
    <2>2. CASE start.node + 1 \in Positions /\ live' = live \ {start.first}
               /\ consumer' = [pc |-> "node", at |-> start.node + 1]
      <3>1. start.node + 1 \in 3 .. MapSize - 1 BY <1>1, <1>2, <2>2
      <3>2. start.node + 1 \in 0 .. MapSize BY <1>1, <3>1
      <3>3. /\ consumer' \in [pc : ConsumerPcs, at : 0 .. MapSize]
            /\ consumer'.at = start.node + 1 /\ consumer'.pc = "node"
        BY <2>2, <3>2 DEF ConsumerPcs
      <3> QED BY <1>2, <2>1, <2>2, <3>1, <3>3 DEF QueueTypeOK
    <2>3. CASE ConsumerTo("wild") /\ UNCHANGED live
      <3>1. /\ consumer' \in [pc : ConsumerPcs, at : 0 .. MapSize] /\ consumer'.pc = "wild"
        BY <1>5, <2>3 DEF ConsumerPcs
      <3> QED BY <1>2, <2>1, <2>3, <3>1 DEF QueueTypeOK
    <2> QED BY <1>8, <2>2, <2>3 DEF PopFree
  \* The worker goes to a node that is there: before a race it is the next one,
  \* and after it the whole map has been filled.
  <1>9. CASE PopNode
    <2>1. /\ consumer.pc = "node" /\ start' = [start EXCEPT !.node = consumer.at]
          /\ ConsumerTo("first") /\ UNCHANGED <<memory, live, handled>>
      BY <1>9 DEF PopNode, ConsumerAt
    <2>2. consumer.at \in 3 .. MapSize - 1 BY <1>1, <2>1 DEF PlacesInv
    <2>3. map[consumer.at] \in Nodes
      <3>1. CASE raced BY <1>1, <2>2, <3>1 DEF PlacesInv, FilledTo
      <3>2. CASE ~raced
        <4>1. consumer.at = HeadPos /\ QInv
          BY <2>1, <3>2 DEF QInv, ConsumerInv, ConsumerAt, HeadPos
        <4> QED BY <4>1, EndsInUse
      <3> QED BY <3>1, <3>2
    <2>4. /\ start' \in [node : Positions, first : Nodes, last : Nodes, cur : Places]
          /\ start'.node = consumer.at
      <3>1. consumer.at \in Positions BY <1>1, <2>2
      <3> QED BY <2>1, <3>1 DEF QueueTypeOK
    <2>5. /\ consumer' \in [pc : ConsumerPcs, at : 0 .. MapSize]
          /\ consumer'.pc = "first" /\ consumer'.at = consumer.at
      BY <1>5, <2>1 DEF ConsumerPcs
    <2>6. start'.node >= 2 BY <1>1, <2>2, <2>4
    <2> QED BY <2>1, <2>2, <2>3, <2>4, <2>5, <2>6 DEF QueueTypeOK
  <1>10. CASE PopFirst
    <2>1. UNCHANGED <<memory, live, handled>> BY <1>10 DEF PopFirst
    <2>2. CASE map[consumer.at] \in Nodes
      <3>1. start' = [start EXCEPT !.first = map[consumer.at]] /\ ConsumerTo("last")
        BY <1>10, <2>2 DEF PopFirst
      <3>2. /\ start' \in [node : Positions, first : Nodes, last : Nodes, cur : Places]
            /\ start'.node = start.node
        BY <2>2, <3>1 DEF QueueTypeOK
      <3>3. /\ consumer' \in [pc : ConsumerPcs, at : 0 .. MapSize] /\ consumer'.pc = "last"
        BY <1>5, <3>1 DEF ConsumerPcs
      <3> QED BY <1>2, <2>1, <3>2, <3>3 DEF QueueTypeOK
    <2>3. CASE map[consumer.at] \notin Nodes
      <3>1. UNCHANGED start /\ ConsumerTo("wild") BY <1>10, <2>3 DEF PopFirst
      <3>2. /\ consumer' \in [pc : ConsumerPcs, at : 0 .. MapSize] /\ consumer'.pc = "wild"
        BY <1>5, <3>1 DEF ConsumerPcs
      <3> QED BY <1>2, <2>1, <3>1, <3>2 DEF QueueTypeOK
    <2> QED BY <2>2, <2>3
  <1>11. CASE PopLast
    <2>1. /\ start' = [start EXCEPT !.last = start.first] /\ ConsumerTo("cur")
          /\ UNCHANGED <<memory, live, handled>>
      BY <1>11 DEF PopLast
    <2>2. /\ start' \in [node : Positions, first : Nodes, last : Nodes, cur : Places]
          /\ start'.node = start.node
      BY <1>2, <2>1 DEF QueueTypeOK
    <2>3. /\ consumer' \in [pc : ConsumerPcs, at : 0 .. MapSize] /\ consumer'.pc = "cur"
      BY <1>5, <2>1 DEF ConsumerPcs
    <2> QED BY <1>2, <2>1, <2>2, <2>3 DEF QueueTypeOK
  <1>12. CASE PopCur
    <2>1. /\ start' = [start EXCEPT !.cur = [node |-> start.first, slot |-> 0]]
          /\ ConsumerTo("idle") /\ UNCHANGED <<memory, live, handled>>
      BY <1>12 DEF PopCur
    <2>2. [node |-> start.first, slot |-> 0] \in Places BY <1>1, <1>2 DEF Places
    <2>3. /\ start' \in [node : Positions, first : Nodes, last : Nodes, cur : Places]
          /\ start'.node = start.node
      BY <2>1, <2>2 DEF QueueTypeOK
    <2>4. /\ consumer' \in [pc : ConsumerPcs, at : 0 .. MapSize] /\ consumer'.pc = "idle"
      BY <1>5, <2>1 DEF ConsumerPcs
    <2> QED BY <1>2, <2>1, <2>3, <2>4 DEF QueueTypeOK
  <1> QED BY <1>6, <1>7, <1>8, <1>9, <1>10, <1>11, <1>12

\* Every field of the deque keeps its type in a map of the libstdc++ size, even
\* when a race has mixed up the stores of push and pop: the model is closed.
THEOREM QueueTypes ==
    ASSUME MapSize <= 8
    PROVE  QueueSpec => []QueueTypeOK
  <1> DEFINE Inv == QueueTypeOK /\ PlacesInv /\ (~raced => QInv)
  <1>1. QueueInit => Inv
    <2>1. SUFFICES ASSUME QueueInit PROVE PlacesInv BY InitQInv DEF QInv
    <2>2. /\ finish.cur.slot = 0 /\ producer.pc = "idle" /\ consumer.pc = "idle"
          /\ start.node = Middle /\ finish.node = Middle /\ raced = FALSE
      BY <2>1 DEF QueueInit, Middle
    <2>3. map[Middle] \in Nodes
      <3>1. Middle \in Positions BY QueueAssumption DEF Middle, Positions
      <3> QED BY <2>1, <3>1 DEF QueueInit, Middle
    <2>4. Middle \in Nat /\ 0 < B BY QueueAssumption DEF Middle
    <2> QED BY <2>2, <2>3, <2>4 DEF PlacesInv, FilledTo, Full, ProducerAt, ConsumerAt
  <1>2. Inv /\ [QueueNext]_qvars => Inv'
    <2>1. SUFFICES ASSUME Inv, [QueueNext]_qvars PROVE QueueTypeOK' /\ PlacesInv'
      BY NextQInv DEF QueueTypeOK
    <2>2. CASE UNCHANGED qvars
      BY <2>1, <2>2 DEF qvars, QueueTypeOK, PlacesInv, FilledTo, Full, ProducerAt, ConsumerAt
    <2>3. CASE QueueNext
      <3>1. NoteRace /\ raced' \in BOOLEAN
        BY <2>1, <2>3 DEF QueueNext, PushArrives, PushStep, WorkerLoop, NoteRace, QueueTypeOK
      <3>2. Moving' => Full
        <4>1. producer'.pc \in {"copy", "node", "first", "last"} => Full
          <5>1. CASE PushArrives
            BY <2>1, <5>1 DEF PushArrives, PushInNode, PushLastOfNode, PushBegins, ProducerAt,
                              ProducerTo, QueueTypeOK
          <5>2. CASE PushStep
            BY <2>1, <5>2 DEF PushStep, MoveCount, MoveCopy, MoveNode, MoveFirst, MoveLast,
                              PushNode, PushPublish, ProducerAt, ProducerTo, QueueTypeOK, Full
          <5>3. CASE WorkerLoop
            BY <5>3 DEF WorkerLoop, Front, Pop, PopFree, PopNode, PopFirst, PopLast, PopCur, Full
          <5> QED BY <2>3, <5>1, <5>2, <5>3 DEF QueueNext
        <4> QED BY <4>1 DEF Moving
      <3>3. raced' => raced \/ Full BY <3>1, <3>2 DEF NoteRace
      <3> QED BY <2>1, <2>3, <3>1, <3>3, ProducerPlaces, ConsumerPlaces
            DEF QueueNext, PushArrives, PushStep, WorkerLoop
    <2> QED BY <2>1, <2>2, <2>3
  <1>3. Inv => QueueTypeOK OBVIOUS
  <1> QED BY <1>1, <1>2, <1>3, PTL DEF QueueSpec
===============================================================================
