----------------------------- MODULE StreamService -----------------------------
(***************************************************************************)
(* What one pull server promises its clients, without workers, records,    *)
(* pids or MongoDB: requests are served in the order they came, a stream   *)
(* is wanted from its start to its stop, and only wanted streams run as    *)
(* streams that can be stopped again.  A wanted stream may go down and     *)
(* come back at any time; only a request changes what is wanted.           *)
(***************************************************************************)
EXTENDS Sequences

CONSTANTS Streams, Requests   \* a request is a record with a type and a sid

VARIABLES
    serving,   \* the server is up
    pending,   \* the requests accepted and not yet carried out, in order
    wanted,    \* the streams started and not stopped
    running    \* the wanted streams that have an ffmpeg

ServiceVars == <<serving, pending, wanted, running>>

ServiceInit ==
    /\ serving = TRUE
    /\ pending = <<>>
    /\ wanted = {}
    /\ running = {}

\* put_data.
Accept(r) ==
    /\ serving
    /\ pending' = Append(pending, r)
    /\ UNCHANGED <<serving, wanted, running>>

NextIs(type) == pending # <<>> /\ Head(pending).type = type

\* spawn_process: nothing for a stream that is wanted already; otherwise it is
\* wanted from now on, unless fork failed.
Start ==
    /\ NextIs("create")
    /\ pending' = Tail(pending)
    /\ \/ UNCHANGED <<wanted, running>>
       \/ /\ Head(pending).sid \notin wanted
          /\ wanted' = wanted \cup {Head(pending).sid}
          /\ running' \in {running, running \cup {Head(pending).sid}}
    /\ UNCHANGED serving

\* remove_process: a stop that is carried out always takes effect.
Stop ==
    /\ NextIs("remove")
    /\ pending' = Tail(pending)
    /\ wanted' = wanted \ {Head(pending).sid}
    /\ running' = running \ {Head(pending).sid}
    /\ UNCHANGED serving

\* process_reload: a new ffmpeg for a wanted stream, which may have ended by the
\* time it is recorded.
Reload ==
    /\ NextIs("reload")
    /\ pending' = Tail(pending)
    /\ \/ running' = running
       \/ running' = running \ {Head(pending).sid}
       \/ Head(pending).sid \in wanted /\ running' = running \cup {Head(pending).sid}
    /\ UNCHANGED <<serving, wanted>>

\* process_alive_detect.
ComeBack(s) ==
    /\ s \in wanted \ running
    /\ running' = running \cup {s}
    /\ UNCHANGED <<serving, pending, wanted>>

\* The ffmpeg of s ends.
GoDown(s) ==
    /\ s \in running
    /\ running' = running \ {s}
    /\ UNCHANGED <<serving, pending, wanted>>

\* The server ends; what it had accepted is lost, what is wanted is not.
Fail ==
    /\ serving
    /\ serving' = FALSE
    /\ pending' = <<>>
    /\ UNCHANGED <<wanted, running>>

Recover ==
    /\ ~serving
    /\ serving' = TRUE
    /\ UNCHANGED <<pending, wanted, running>>

ServiceNext ==
    \/ \E r \in Requests : Accept(r)
    \/ Start \/ Stop \/ Reload
    \/ \E s \in Streams : ComeBack(s) \/ GoDown(s)
    \/ Fail \/ Recover

ServiceSpec == ServiceInit /\ [][ServiceNext]_ServiceVars
===============================================================================
