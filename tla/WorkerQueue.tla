------------------------------ MODULE WorkerQueue ------------------------------
(***************************************************************************)
(* One worker's std::queue<_event>.  The HTTP thread pushes under          *)
(* ServerBiz::_mutex (put_data); the worker tests, reads and pops without  *)
(* it (worker_loop).  The queue is a std::deque of libstdc++: nodes of B   *)
(* events, a map of MapSize pointers to nodes, and two iterators.  push    *)
(* works on the iterator finish and pop on the iterator start, but when    *)
(* finish reaches the end of the map a push moves the pointers to the      *)
(* middle of it and rewrites start too.                                    *)
(*                                                                         *)
(* One action is one load or store the other thread can tell apart.  The   *)
(* makefile builds with DEBUG=YES, that is without optimisation, and x86   *)
(* makes the stores of a thread visible in their order.                    *)
(***************************************************************************)
EXTENDS Integers, Sequences

CONSTANTS
    B,           \* events in a node: 2 or 8, with either layout of std::string
    MapSize,     \* pointers in the map: 8
    Nodes,       \* chunks of memory
    NoNode,
    MaxEvents,   \* bound: how many events the clients send
    MaxBacklog   \* bound: how many of them wait at a time

ASSUME QueueAssumption ==
    /\ B \in Nat \ {0} /\ MapSize \in Nat /\ MapSize > 6
    /\ NoNode \notin Nodes
    /\ MaxEvents \in Nat /\ MaxBacklog \in Nat
    \* At most two nodes are in use when the map is full, which are moved within
    \* the map; with more of them a larger map would be allocated.
    /\ MaxBacklog < 2 * B

VARIABLES
    memory,    \* memory[n]: the events in node n; 0 is no event
    live,      \* the nodes that are allocated
    map,       \* the pointers
    start,     \* begin(): node is a position in the map, first and last stand for
               \* the bounds of the node, cur is the place of an event
    finish,    \* end(), the place of the next event; its bounds follow from cur
    producer,  \* where push is, and its locals
    consumer,  \* where the worker is, and its local
    pushed,    \* events pushed; they are numbered in that order
    handled,   \* events handled
    raced,     \* history: a pop went to the next node while a push moved the map
    longest    \* history: the most events that were waiting when one more came

qvars == <<memory, live, map, start, finish, producer, consumer, pushed, handled,
           raced, longest>>

Positions == 0 .. MapSize - 1
Places == [node : Nodes, slot : 0 .. B]
Blank == [i \in 0 .. B - 1 |-> 0]

ProducerPcs == {"idle", "full", "copy", "node", "first", "last", "append", "publish"}
ConsumerPcs == {"idle", "pop", "free", "node", "first", "last", "cur", "wild"}

QueueTypeOK ==
    /\ memory \in [Nodes -> [0 .. B - 1 -> 0 .. MaxEvents]]
    /\ live \subseteq Nodes
    /\ map \in [Positions -> Nodes \cup {NoNode}]
    /\ start \in [node : Positions, first : Nodes, last : Nodes, cur : Places]
    /\ finish \in [node : Positions, cur : Places]
    /\ producer \in [pc : ProducerPcs, count : Nat, at : 0 .. MapSize]
    /\ consumer \in [pc : ConsumerPcs, at : 0 .. MapSize]
    /\ pushed \in 0 .. MaxEvents
    /\ handled \in Seq(1 .. MaxEvents)
    /\ raced \in BOOLEAN
    /\ longest \in 0 .. MaxBacklog

\* The deque's constructor: one node, in the middle of the map.
QueueInit ==
    \E n \in Nodes :
        LET middle == (MapSize - 1) \div 2
            begin  == [node |-> n, slot |-> 0]
        IN  /\ memory = [m \in Nodes |-> Blank]
            /\ live = {n}
            /\ map = [i \in Positions |-> IF i = middle THEN n ELSE NoNode]
            /\ start = [node |-> middle, first |-> n, last |-> n, cur |-> begin]
            /\ finish = [node |-> middle, cur |-> begin]
            /\ producer = [pc |-> "idle", count |-> 0, at |-> 0]
            /\ consumer = [pc |-> "idle", at |-> 0]
            /\ pushed = 0
            /\ handled = <<>>
            /\ raced = FALSE
            /\ longest = 0

ProducerAt(pc) == producer.pc = pc
ProducerTo(pc) == producer' = [producer EXCEPT !.pc = pc]
ConsumerAt(pc) == consumer.pc = pc
ConsumerTo(pc) == consumer' = [consumer EXCEPT !.pc = pc]

-------------------------------------------------------------------------------
(* push, under the mutex: one at a time *)

Waiting == pushed - Len(handled)

PushBegins ==
    /\ ProducerAt("idle")
    /\ pushed < MaxEvents
    /\ Waiting < MaxBacklog
    /\ longest' = IF Waiting > longest THEN Waiting ELSE longest

\* Mutant: push_back without the test for the end of the node.
NodeNeverFull == FALSE

NodeFull == finish.cur.slot = B - 1

Construct(nodes) == [nodes EXCEPT ![finish.cur.node][finish.cur.slot] = pushed + 1]

\* push_back with room in the node.
PushInNode ==
    /\ PushBegins
    /\ ~NodeFull
    /\ memory' = Construct(memory)
    /\ finish' = [finish EXCEPT !.cur.slot = @ + 1]
    /\ pushed' = pushed + 1
    /\ UNCHANGED <<live, map, start, producer, consumer, handled>>

\* _M_push_back_aux, _M_reserve_map_at_back: is there a place for a next node?
PushLastOfNode ==
    /\ PushBegins
    /\ NodeFull
    /\ ProducerTo(IF finish.node = MapSize - 1 THEN "full" ELSE "append")
    /\ UNCHANGED <<memory, live, map, start, finish, consumer, pushed, handled>>

\* _M_reallocate_map: the nodes are counted, and their new place computed.
MoveCount ==
    /\ ProducerAt("full")
    /\ LET count == finish.node - start.node + 1
       IN  \* With more nodes, which a race can leave, a larger map is allocated.
           /\ MapSize > 2 * (count + 1)
           /\ producer' = [pc |-> "copy", count |-> count,
                           at |-> (MapSize - (count + 1)) \div 2]
    /\ UNCHANGED <<memory, live, map, start, finish, consumer, pushed, handled>>

\* std::copy from what start.node is now.
MoveCopy ==
    /\ ProducerAt("copy")
    /\ map' = [i \in Positions |->
                  IF i - producer.at \in 0 .. finish.node - start.node
                  THEN map[start.node + (i - producer.at)] ELSE map[i]]
    /\ ProducerTo("node")
    /\ UNCHANGED <<memory, live, start, finish, consumer, pushed, handled>>

\* start._M_set_node, three stores.
MoveNode ==
    /\ ProducerAt("node")
    /\ start' = [start EXCEPT !.node = producer.at]
    /\ ProducerTo("first")
    /\ UNCHANGED <<memory, live, map, finish, consumer, pushed, handled>>

MoveFirst ==
    /\ ProducerAt("first")
    /\ start' = [start EXCEPT !.first = map[producer.at]]
    /\ ProducerTo("last")
    /\ UNCHANGED <<memory, live, map, finish, consumer, pushed, handled>>

\* The worker never looks at the rest of finish, so its move is not split.
MoveLast ==
    /\ ProducerAt("last")
    /\ start' = [start EXCEPT !.last = start.first]
    /\ finish' = [finish EXCEPT !.node = producer.at + producer.count - 1]
    /\ ProducerTo("append")
    /\ UNCHANGED <<memory, live, map, consumer, pushed, handled>>

\* A node is allocated for the next event, and this one is constructed.
PushNode ==
    /\ ProducerAt("append")
    /\ \E n \in Nodes \ live :
          /\ live' = live \cup {n}
          /\ map' = [map EXCEPT ![finish.node + 1] = n]
          /\ memory' = Construct([memory EXCEPT ![n] = Blank])
    /\ ProducerTo("publish")
    /\ UNCHANGED <<start, finish, consumer, pushed, handled>>

\* finish._M_set_node and finish.cur: the worker sees the event.
PushPublish ==
    /\ ProducerAt("publish")
    /\ finish' = [node |-> finish.node + 1,
                   cur |-> [node |-> map[finish.node + 1], slot |-> 0]]
    /\ pushed' = pushed + 1
    /\ ProducerTo("idle")
    /\ UNCHANGED <<memory, live, map, start, consumer, handled>>

-------------------------------------------------------------------------------
(* The worker, without the mutex *)

\* Mutant: empty() is not tested.
NeverEmpty == FALSE

\* Mutant: places in one node are taken for equal.
SameNode == start.cur.node = finish.cur.node

\* empty() compares nothing but the two places.
Empty == start.cur = finish.cur

\* An event is at the place p.
Readable(p) == p.node \in live /\ p.slot < B /\ memory[p.node][p.slot] # 0

\* ev = q->front(), and the event is handled.  What is read from a place that
\* holds no event is undefined: a crash, or the handling of garbage.
Front ==
    /\ ConsumerAt("idle")
    /\ ~Empty
    /\ IF Readable(start.cur)
       THEN /\ handled' = Append(handled, memory[start.cur.node][start.cur.slot])
            /\ ConsumerTo("pop")
       ELSE ConsumerTo("wild") /\ UNCHANGED handled
    /\ UNCHANGED <<memory, live, map, start, finish, producer, pushed>>

Destroyed == [memory EXCEPT ![start.cur.node][start.cur.slot] = 0]

\* pop(): within a node, or _M_pop_front_aux.
Pop ==
    /\ ConsumerAt("pop")
    /\ memory' = Destroyed
    /\ IF start.cur # [node |-> start.last, slot |-> B - 1]
       THEN start' = [start EXCEPT !.cur.slot = @ + 1] /\ ConsumerTo("idle")
       ELSE ConsumerTo("free") /\ UNCHANGED start
    /\ UNCHANGED <<live, map, finish, producer, pushed, handled>>

\* The node is freed, and the position of the next one is computed.
PopFree ==
    /\ ConsumerAt("free")
    /\ IF start.first \in live /\ start.node + 1 \in Positions
       THEN /\ live' = live \ {start.first}
            /\ consumer' = [pc |-> "node", at |-> start.node + 1]
       ELSE ConsumerTo("wild") /\ UNCHANGED live
    /\ UNCHANGED <<memory, map, start, finish, producer, pushed, handled>>

\* start._M_set_node, three stores, and start.cur.
PopNode ==
    /\ ConsumerAt("node")
    /\ start' = [start EXCEPT !.node = consumer.at]
    /\ ConsumerTo("first")
    /\ UNCHANGED <<memory, live, map, finish, producer, pushed, handled>>

PopFirst ==
    /\ ConsumerAt("first")
    /\ IF map[consumer.at] \in Nodes
       THEN start' = [start EXCEPT !.first = map[consumer.at]] /\ ConsumerTo("last")
       ELSE ConsumerTo("wild") /\ UNCHANGED start
    /\ UNCHANGED <<memory, live, map, finish, producer, pushed, handled>>

PopLast ==
    /\ ConsumerAt("last")
    /\ start' = [start EXCEPT !.last = start.first]
    /\ ConsumerTo("cur")
    /\ UNCHANGED <<memory, live, map, finish, producer, pushed, handled>>

PopCur ==
    /\ ConsumerAt("cur")
    /\ start' = [start EXCEPT !.cur = [node |-> start.first, slot |-> 0]]
    /\ ConsumerTo("idle")
    /\ UNCHANGED <<memory, live, map, finish, producer, pushed, handled>>

-------------------------------------------------------------------------------

\* The history: raced, and longest where a push begins.
Moving == producer.pc \in {"copy", "node", "first", "last"}
Crossing == consumer.pc \in {"free", "node", "first", "last", "cur"}
NoteRace == raced' = (raced \/ (Moving' /\ Crossing'))

PushArrives == (PushInNode \/ PushLastOfNode) /\ NoteRace

PushStep ==
    /\ \/ MoveCount \/ MoveCopy \/ MoveNode \/ MoveFirst \/ MoveLast
       \/ PushNode \/ PushPublish
    /\ NoteRace
    /\ UNCHANGED longest

WorkerLoop ==
    /\ \/ Front \/ Pop \/ PopFree \/ PopNode \/ PopFirst \/ PopLast \/ PopCur
    /\ NoteRace
    /\ UNCHANGED longest

QueueNext == PushArrives \/ PushStep \/ WorkerLoop

QueueSpec == QueueInit /\ [][QueueNext]_qvars

\* A push that has begun goes on, and the worker thread is scheduled; nothing
\* obliges a client to send.
FairQueueSpec ==
    /\ QueueSpec
    /\ WF_qvars(PushStep)
    /\ WF_qvars(WorkerLoop)

-------------------------------------------------------------------------------
(* Properties *)

InOrder == \A i \in DOMAIN handled : handled[i] = i

\* The unlocked queue hands every event to the worker once and in order, as long
\* as no pop went from one node to the next while a push moved the map
\* (put_data, worker_loop).
FifoUnlessRaced == ~raced => InOrder /\ ~ConsumerAt("wild")

\* Such a race needs a backlog: a queue that no push found with B - 1 events
\* waiting has not lost, repeated or garbled one.
FifoWhileShort == longest < B - 1 => InOrder /\ ~ConsumerAt("wild")

\* Every event that was accepted is handled, unless the queue was broken by the
\* race (worker_loop: nothing but its own pops makes empty() true).
EveryEventHandled ==
    \A k \in 1 .. MaxEvents : pushed >= k ~> Len(handled) >= k \/ raced
===============================================================================
