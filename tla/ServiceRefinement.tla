--------------------------- MODULE ServiceRefinement ---------------------------
(***************************************************************************)
(* ProcessCtl implements StreamService, on one machine with one worker and *)
(* a MongoDB that does not fail, whatever the kernel does with pids, and   *)
(* across crashes and restarts.  With two workers it does not: the queues  *)
(* give no order then, and a stream may get two records.                   *)
(***************************************************************************)
EXTENDS ProcessCtl

\* The machine.
Server == CHOOSE h \in Hosts : TRUE

\* An event stays at the head of its queue while it is handled.  A start or a
\* reload takes effect with its last write, which pops it; a stop takes effect
\* when its record is removed, one call before.
PendingRequests ==
    IF worker[Server][0].pc = "kill" THEN Tail(queue[Server][0]) ELSE queue[Server][0]

WantedStreams == {d.sid : d \in cache}
RunningStreams == {d.sid : d \in {c \in cache : RunsAsRecorded(c)}}

Service == INSTANCE StreamService
    WITH Streams <- Sids,
         Requests <- Events,
         serving <- up[Server],
         pending <- PendingRequests,
         wanted <- WantedStreams,
         running <- RunningStreams

\* The single-worker server keeps the promise of StreamService: every accepted
\* request is carried out in its turn or lost with the server, no step of the
\* scheduler, of a reload or of a late write brings a stopped stream back, and a
\* stop removes the stream whatever its record went through meanwhile
\* (worker_loop, process_alive_detect, update_process_info).
ImplementsService == Service!ServiceSpec
===============================================================================
