--------------------------- MODULE PullServerProofs ---------------------------
(***************************************************************************)
(* The server with its REST interface implements ProcessCtl, for every     *)
(* value of the constants; so what is proved of ProcessCtl holds of it.    *)
(* And the status of a reply tells whether the request was queued.         *)
(***************************************************************************)
EXTENDS PullServer, ProcessCtlOwnership, ServiceProofs

\* What an accepted request becomes is an event the workers are specified for:
\* start and stop have checked the sid (CRestApi::start, stop, start_i, stop_i).
LEMMA AcceptedIsEvent ==
    ASSUME NEW cmd \in Rest!Commands, NEW b \in Rest!Bodies, Rest!Accepts(cmd, b)
    PROVE  Rest!EventOf(cmd, b) \in Events
  <1>1. b.sid \in Sids \cup {NoSid}
    BY DEF Rest!Bodies, Rest!Unusable, Rest!Objects, Rest!MistypedObjects
  <1>2. cmd \in {"start", "stop"} => b.sid \in Sids
    BY <1>1 DEF Rest!Accepts, Rest!Incomplete
  <1>3. CASE cmd = "start" BY <1>2, <1>3 DEF Rest!EventOf, Events
  <1>4. CASE cmd = "stop" BY <1>2, <1>4 DEF Rest!EventOf, Events
  <1>5. CASE cmd = "start_i" BY <1>1, <1>5 DEF Rest!EventOf, Events
  <1>6. CASE cmd = "stop_i" BY <1>6 DEF Rest!EventOf, Events
  <1> QED BY <1>3, <1>4, <1>5, <1>6 DEF Rest!Commands

\* Status 200 is for accepted requests only.
LEMMA ReplyTells ==
    ASSUME NEW cmd \in Rest!Commands, NEW b \in Rest!Bodies
    PROVE  /\ Rest!Reply(cmd, b) \in Rest!Replies
           /\ Rest!Reply(cmd, b).http = 200 <=> Rest!Accepts(cmd, b)
  <1>1. b.document \in {"null", "garbled", "not an object", "object"}
    BY DEF Rest!Bodies, Rest!Unusable, Rest!Objects, Rest!MistypedObjects
  <1>2. CASE b.document = "null"
    <2>1. ASSUME cmd \in {"start", "stop"}
          PROVE  Rest!Reply(cmd, b).http = 403 /\ Rest!Reply(cmd, b) \in Rest!Replies
      BY <1>2, <2>1 DEF Rest!Reply, Rest!Replies
    <2>2. ASSUME cmd \notin {"start", "stop"}
          PROVE  Rest!Reply(cmd, b).http = 400 /\ Rest!Reply(cmd, b) \in Rest!Replies
      BY <1>2, <2>2 DEF Rest!Reply, Rest!Replies
    <2> QED BY <1>2, <2>1, <2>2 DEF Rest!Accepts
  <1>3. CASE b.document = "garbled"
    <2>1. Rest!Reply(cmd, b) = [http |-> 400, ret |-> 0] BY <1>3 DEF Rest!Reply
    <2> QED BY <1>3, <2>1 DEF Rest!Accepts, Rest!Replies
  <1>4. CASE b.document = "not an object" \/ (b.document = "object" /\ Rest!Throws(cmd, b))
    <2>1. Rest!Reply(cmd, b) = [http |-> 403, ret |-> 403] BY <1>4 DEF Rest!Reply
    <2>2. ~Rest!Accepts(cmd, b) BY <1>4 DEF Rest!Accepts
    <2>3. Rest!Reply(cmd, b).http = 403 /\ Rest!Reply(cmd, b) \in Rest!Replies
      BY <2>1 DEF Rest!Replies
    <2> QED BY <2>2, <2>3
  <1>5. CASE b.document = "object" /\ ~Rest!Throws(cmd, b) /\ Rest!Incomplete(cmd, b)
    <2>1. Rest!Reply(cmd, b) = [http |-> 400, ret |-> 0] BY <1>5 DEF Rest!Reply
    <2> QED BY <1>5, <2>1 DEF Rest!Accepts, Rest!Replies
  <1>6. CASE b.document = "object" /\ ~Rest!Throws(cmd, b) /\ ~Rest!Incomplete(cmd, b)
    <2>1. Rest!Reply(cmd, b) = [http |-> 200, ret |-> 0] BY <1>6 DEF Rest!Reply
    <2> QED BY <1>6, <2>1 DEF Rest!Accepts, Rest!Replies
  <1> QED BY <1>1, <1>2, <1>3, <1>4, <1>5, <1>6

-------------------------------------------------------------------------------
(* The refinement *)

\* A request is a put_data or changes nothing; the health probe is a crash.
LEMMA HttpStepImplements ==
    ASSUME NEW h \in Hosts, HttpStep(h)
    PROVE  [Next]_vars
  <1>1. ASSUME NEW cmd \in Rest!Commands, NEW b \in Rest!Bodies, HttpCommand(h, cmd, b)
        PROVE  [Next]_vars
    <2>1. CASE Rest!Accepts(cmd, b)
      <3>1. put_data(h, Rest!EventOf(cmd, b)) BY <1>1, <2>1 DEF HttpCommand
      <3> QED BY <2>1, <3>1, AcceptedIsEvent DEF HostStep, Next
    <2>2. CASE ~Rest!Accepts(cmd, b) BY <1>1, <2>2 DEF HttpCommand
    <2> QED BY <2>1, <2>2
  <1>2. ASSUME HttpHealth(h) PROVE [Next]_vars
    <2>1. Crash(h) BY <1>2 DEF HttpHealth, Crash
    <2> QED BY <2>1 DEF HostStep, Next
  <1> QED BY <1>1, <1>2 DEF HttpStep

LEMMA ServerStepImplements == [ServerNext]_svars => [Next]_vars
  <1> SUFFICES ASSUME [ServerNext]_svars PROVE [Next]_vars
    OBVIOUS
  <1>1. ASSUME NEW h \in Hosts, HttpStep(h) PROVE [Next]_vars
    BY <1>1, HttpStepImplements
  <1>2. ASSUME NEW h \in Hosts, BackgroundStep(h) PROVE [Next]_vars
    BY <1>2 DEF BackgroundStep, HostStep, Next
  <1>3. CASE UNCHANGED svars BY <1>3 DEF svars
  <1> QED BY <1>1, <1>2, <1>3 DEF ServerNext

\* The handlers hand the workers only events they are specified for, and touch
\* nothing else of theirs.
THEOREM ServerCorrect == ServerSpec => ImplementsProcessCtl
  <1>1. ServerInit => Init BY DEF ServerInit
  <1> QED BY <1>1, ServerStepImplements, PTL DEF ServerSpec, ImplementsProcessCtl, Spec

\* The server keeps its types: those of ProcessCtl, and every reply is one that the
\* handlers write.
THEOREM ServerTypeCorrect == ServerSpec => []ServerTypeOK
  <1> DEFINE LastTyped ==
          last \in [Hosts -> [cmd : Rest!Commands \cup {"none", "health/live"},
                              sid : Sids \cup {NoSid},
                              reply : Rest!Replies \cup {NoReply}]]
  <1>1. ServerInit => LastTyped BY DEF ServerInit, Idle
  <1>2. LastTyped /\ [ServerNext]_svars => LastTyped'
    <2> SUFFICES ASSUME LastTyped, [ServerNext]_svars PROVE LastTyped'
      OBVIOUS
    <2>1. ASSUME NEW h \in Hosts, NEW cmd \in Rest!Commands, NEW b \in Rest!Bodies,
                 HttpCommand(h, cmd, b)
          PROVE  LastTyped'
      <3>1. b.sid \in Sids \cup {NoSid}
        BY DEF Rest!Bodies, Rest!Unusable, Rest!Objects, Rest!MistypedObjects
      <3>2. Rest!Reply(cmd, b) \in Rest!Replies BY ReplyTells
      <3>3. last' = [last EXCEPT ![h] = [cmd |-> cmd, sid |-> b.sid,
                                         reply |-> Rest!Reply(cmd, b)]]
        BY <2>1 DEF HttpCommand
      <3> QED BY <3>1, <3>2, <3>3
    <2>2. ASSUME NEW h \in Hosts, HttpHealth(h) PROVE LastTyped'
      BY <2>2 DEF HttpHealth, Idle
    <2>3. ASSUME NEW h \in Hosts, BackgroundStep(h) PROVE LastTyped'
      BY <2>3 DEF BackgroundStep
    <2>4. CASE UNCHANGED svars BY <2>4 DEF svars
    <2> QED BY <2>1, <2>2, <2>3, <2>4 DEF ServerNext, HttpStep
  <1>3. ServerSpec => []TypeOK BY ServerCorrect, TypeCorrect, PTL DEF ImplementsProcessCtl
  <1>4. ServerTypeOK <=> TypeOK /\ LastTyped BY DEF ServerTypeOK
  <1> QED BY <1>1, <1>2, <1>3, <1>4, PTL DEF ServerSpec

-------------------------------------------------------------------------------
(* The status *)

\* A queue that got an event is not what it was.
LEMMA PutDataQueues ==
    ASSUME TypeOK, NEW h \in Hosts, NEW ev \in Events, put_data(h, ev)
    PROVE  queue'[h] # queue[h]
  <1> DEFINE w == index[h]
  <1>1. w \in Workers /\ queue \in [Hosts -> [Workers -> Seq(Events)]] BY DEF TypeOK
  <1>2. queue' = [queue EXCEPT ![h][w] = Append(@, ev)] BY DEF put_data
  <1>3. queue'[h][w] = Append(queue[h][w], ev) BY <1>1, <1>2
  <1>4. Append(queue[h][w], ev) # queue[h][w]
    <2>1. queue[h][w] \in Seq(Events) BY <1>1
    <2>2. Len(Append(queue[h][w], ev)) = Len(queue[h][w]) + 1 /\ Len(queue[h][w]) \in Nat
      BY <2>1
    <2> QED BY <2>2
  <1> QED BY <1>3, <1>4

LEMMA StatusTells ==
    ASSUME TypeOK, ServerTypeOK, [ServerNext]_svars, NEW g \in Hosts,
           last'[g] # last[g], last'[g].cmd \in Rest!Commands
    PROVE  last'[g].reply.http = 200 <=> queue'[g] # queue[g]
  <1>1. last \in [Hosts -> [cmd : Rest!Commands \cup {"none", "health/live"},
                            sid : Sids \cup {NoSid},
                            reply : Rest!Replies \cup {NoReply}]]
    BY DEF ServerTypeOK
  <1>2. ASSUME NEW h \in Hosts, NEW cmd \in Rest!Commands, NEW b \in Rest!Bodies,
               HttpCommand(h, cmd, b)
        PROVE  last'[g].reply.http = 200 <=> queue'[g] # queue[g]
    <2>1. last' = [last EXCEPT ![h] = [cmd |-> cmd, sid |-> b.sid,
                                       reply |-> Rest!Reply(cmd, b)]]
      BY <1>2 DEF HttpCommand
    <2>2. g = h BY <1>1, <2>1
    <2>3. last'[g].reply = Rest!Reply(cmd, b) BY <1>1, <2>1, <2>2
    <2>4. CASE Rest!Accepts(cmd, b)
      <3>1. put_data(h, Rest!EventOf(cmd, b)) BY <1>2, <2>4 DEF HttpCommand
      <3>2. queue'[h] # queue[h] BY <2>4, <3>1, AcceptedIsEvent, PutDataQueues
      <3> QED BY <2>2, <2>3, <2>4, <3>2, ReplyTells
    <2>5. CASE ~Rest!Accepts(cmd, b)
      <3>1. UNCHANGED queue BY <1>2, <2>5 DEF HttpCommand, vars
      <3> QED BY <2>3, <2>5, <3>1, ReplyTells
    <2> QED BY <2>4, <2>5
  <1>3. ASSUME NEW h \in Hosts, HttpHealth(h) PROVE FALSE
    <2>1. last' = [last EXCEPT ![h] = [Idle EXCEPT !.cmd = "health/live"]]
      BY <1>3 DEF HttpHealth
    <2>2. g = h BY <1>1, <2>1
    <2>3. last'[g].cmd = "health/live" BY <1>1, <2>1, <2>2 DEF Idle
    <2> QED BY <2>3 DEF Rest!Commands
  <1>4. ASSUME NEW h \in Hosts, BackgroundStep(h) PROVE FALSE BY <1>4 DEF BackgroundStep
  <1>5. CASE UNCHANGED svars BY <1>5 DEF svars
  <1> QED BY <1>2, <1>3, <1>4, <1>5 DEF ServerNext, HttpStep

\* A client that reads status 200 has a request in a queue, and one that was refused
\* has none.
THEOREM StatusCorrect == ServerSpec => OkIffQueued
  <1>1. ServerTypeOK /\ [ServerNext]_svars =>
          [\A h \in Hosts :
              last'[h] # last[h] /\ last'[h].cmd \in Rest!Commands =>
                  (last'[h].reply.http = 200 <=> queue'[h] # queue[h])]_svars
    BY StatusTells DEF ServerTypeOK
  <1> QED BY <1>1, ServerTypeCorrect, PTL DEF ServerSpec, OkIffQueued

-------------------------------------------------------------------------------
(* What the refinement carries over *)

\* On one machine without pid reuse, no request a client can send makes a record
\* name another stream's process, or a stop kill one.
THEOREM ServerKeepsOwnership ==
    ASSUME SingleHost, ~PidReuse
    PROVE  ServerSpec => [](RecordsNameOwnStream /\ StopKillsOwnStream)
  BY ServerCorrect, RecordsCorrect, StopCorrect, PTL DEF ImplementsProcessCtl

\* The same of the process that is out of reach: starts and one stop, over HTTP, lose none.
THEOREM ServerLosesNone ==
    ASSUME SingleHost, ~PidReuse
    PROVE  ServerSpec => []NoLeakByRequests
  BY ServerCorrect, LeakCorrect, PTL DEF ImplementsProcessCtl

\* From the body of a request to the promise about streams: with one worker and a MongoDB
\* that does not fail, the server with its REST interface, whatever the clients send, does
\* what StreamService promises.
THEOREM ServerServes ==
    ASSUME SingleServer
    PROVE  ServerSpec => ImplementsService
  BY ServerCorrect, ServiceCorrect, PTL DEF ImplementsProcessCtl
===============================================================================
