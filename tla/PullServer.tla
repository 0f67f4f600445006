------------------------------ MODULE PullServer ------------------------------
(***************************************************************************)
(* The pull server with its REST interface: the HTTP thread of CRestApi    *)
(* (RestApi) in front of the workers and the scheduler (ProcessCtl).  The  *)
(* HTTP thread runs one handler at a time, from the request to the reply,  *)
(* and touches nothing of the workers but the queues.                      *)
(***************************************************************************)
EXTENDS ProcessCtl

Rest == INSTANCE RestApi

VARIABLE last   \* last[h]: the last request the server of h got, and its reply

svars == <<vars, last>>

\* No reply is written as status 0.
NoReply == [http |-> 0, ret |-> 0]
Idle == [cmd |-> "none", sid |-> NoSid, reply |-> NoReply]

ServerTypeOK ==
    /\ TypeOK
    /\ last \in [Hosts -> [cmd : Rest!Commands \cup {"none", "health/live"},
                           sid : Sids \cup {NoSid},
                           reply : Rest!Replies \cup {NoReply}]]

ServerInit == Init /\ last = [h \in Hosts |-> Idle]

\* start, stop, start_i, stop_i: refused with a reply, or queued and answered
\* before any worker has looked at the event.
HttpCommand(h, cmd, b) ==
    /\ up[h]
    /\ last' = [last EXCEPT ![h] =
                   [cmd |-> cmd, sid |-> b.sid, reply |-> Rest!Reply(cmd, b)]]
    /\ IF Rest!Accepts(cmd, b) THEN put_data(h, Rest!EventOf(cmd, b))
                               ELSE UNCHANGED vars

\* check_alive_i writes its reply to an evbuffer that was never allocated.
HttpHealth(h) ==
    /\ up[h]
    /\ last' = [last EXCEPT ![h] = [Idle EXCEPT !.cmd = "health/live"]]
    /\ Spend("crash")
    /\ Die(h)

HttpStep(h) ==
    \/ \E cmd \in Rest!Commands, b \in Rest!Bodies : HttpCommand(h, cmd, b)
    \/ HttpHealth(h)

\* Everything a host does besides its HTTP thread.
BackgroundStep(h) ==
    /\ \/ \E w \in Workers : WorkerStep(h, w)
       \/ SchedStep(h)
       \/ \E p \in Pids : ProcessExit(h, p) \/ ForeignStart(h, p)
       \/ Crash(h)
       \/ Restart(h)
    /\ UNCHANGED last

ServerNext == \E h \in Hosts : HttpStep(h) \/ BackgroundStep(h)

ServerSpec == ServerInit /\ [][ServerNext]_svars

-------------------------------------------------------------------------------

\* The handlers hand the workers only events the workers are specified for: the
\* server with its REST interface implements process control with a client that
\* sends well-formed events.
ImplementsProcessCtl == Spec

\* A client that reads status 200 has a request in a queue, and one that was
\* refused has none (the gotos and returns of the four handlers).
OkIffQueued ==
    [][\A h \in Hosts :
          last'[h] # last[h] /\ last'[h].cmd \in Rest!Commands =>
              (last'[h].reply.http = 200 <=> queue'[h] # queue[h])]_svars
===============================================================================
