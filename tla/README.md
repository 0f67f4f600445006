# pullStream: specifications, model checking and proofs

pullStream pulls live streams with ffmpeg and pushes them to another address, under the
control of a REST interface. The program proper is `src/injectService/pull` (the pull server)
and `src/injectService/pulld` (its watchdog), about 4800 lines of C++; everything under `inc/`,
`lib/` and `tools/` is vendored. This directory holds TLA+ modules of the two programs, the
TLC configurations that check them, and proofs that TLAPS checks.

Paths below are relative to `src/injectService/`. `README.md:<n>` of the repository is
`src/README.md`.

## 1. Inventory

| Component | State | Operations | Module |
|---|---|---|---|
| Process cache: `MongoAdaptor`, queries of `ServerBiz` | collections `process` and `host` of one MongoDB | insert, find, findOne, update, remove | `MongoCache` |
| Worker pool: `ServerBiz::put_data`, `worker_loop` | one `std::queue` per worker, `worker_index` | queue an event, handle the head, pop | `ProcessCtl`, `WorkerQueue` |
| What a pull server promises | streams wanted and running, requests accepted | accept, start, stop, reload, come back | `StreamService` |
| Process control: `ProcessCtlModule` | pids of the machine | spawn, remove, reload (terminate is never called) | `ProcessCtl` |
| Schedule thread: `process_alive_detect` | snapshot of the records, the record in hand | scan, probe, second lookup, respawn | `ProcessCtl` |
| REST interface: `CRestApi` | none between requests | start, stop, start_i, stop_i, check_alive_i | `RestApi`, `PullServer` |
| Start and end of pull: `main`, `CUtils::daemon`, host registration | lock on the pid file, host record | lock, check, register, bind, serve, terminate | `Watchdog` |
| Watchdog: `pulld/src/main.cpp` | `is_running`, the loop | probe, remove stale record, start, sleep | `Watchdog` |
| Configuration: `CIniReader`, `main` of both programs | sections, keys, one buffer | Load, GetStr, GetInt | `IniReader` |
| pulld's log: `CLog` | two descriptors, `m_pos`, `m_busy` | prt, new_file, from handlers too | `PureLog`, `PulldLog` |
| path helpers, log4cplus wrapper, globals, vendored code, scripts | | | not modelled (section 7) |

### How they interact

A client's request reaches the single libevent thread. A handler of `CRestApi` parses the body,
answers at once, and, if it accepts, calls `put_data`, which appends an event to the queue of
the next worker in turn. The worker calls the handler for the event's type. A handler is a
sequence of MongoDB calls (each with a connection of its own), `fork`s and `kill`s; nothing is
locked around them. The schedule thread reads all records every ten seconds, asks the kernel for
each pid, looks a record with a dead pid up again and forks a new ffmpeg for it. `pulld` tests
the lock on pull's pid file every five seconds; when it is free it removes the host's record and
starts pull, which takes the lock, refuses to run when its host is registered, and registers.

### What is hard

* Interleavings: the workers, the scheduler and other servers meet in MongoDB between any two
  calls. Events of one stream go to different workers.
* Stale state: a pid read from the cache is used calls later; the scheduler's snapshot and probe
  are old when it forks; a pid may have been handed to another process.
* Partial failure: most results of MongoDB calls are dropped, and a failed query is taken for
  an empty one.
* Crashes: the queues are memory, the ffmpegs and the records survive the server.
* Two threads on one deque: the worker reads and pops the `std::queue` without the mutex that
  guards the push.
* Signal handlers: pulld's handler logs, possibly into a log call it interrupted; libc reads the
  local time under a lock that such a call cannot get. `system()` ignores SIGINT.
* Reused descriptors: pulld closes its pid file twice, and the log may have opened its file under
  that number in between.
* Shared buffers: `GetStr` returns the one buffer of the reader.
* Timeouts: pulld gives back the lock before it acts on what the lock told it, and trusts five
  seconds to be enough for a start.

The list of all hazards with their lines and properties is `hazards` in `PROJECT.json`.

### What makes each component correct

* Process control: a record names a process of its own stream; a stop kills a process of the
  stream it was asked for; one record per stream; no ffmpeg without a record; a stop takes
  effect.
* Scheduler: it forks only for a process that is gone, revives every recorded stream, and comes
  to rest.
* REST interface: the workers get only events they are made for; the status tells whether
  something was queued.
* Start-up and watchdog: one server at a time; a serving server is registered, once; a server
  that died serves again; once a handler has cleared pulld's flag, pulld ends or hangs in a handler.
* Configuration: each program takes for each setting what the file says, and no more than its
  buffer holds.
* Log: a line is in the file of its day or there is a reason why not; no log file stays open out of
  reach; a call waits for the one it interrupted only in `localtime_r`.

## 2. Modules

| Module | Content | Extends |
|---|---|---|
| `MongoCache` | collections as sets of documents; the queries the programs use | |
| `ProcessCtl` | workers, handlers, scheduler, kernel, crash and restart; properties | `MongoCache` |
| `RestApi` | pure: body to reply and event | |
| `PullServer` | `RestApi` in front of `ProcessCtl` | `ProcessCtl`, instance of `RestApi` |
| `StreamService` | abstract: what one server promises its clients; no code of its own | |
| `ServiceRefinement` | the mapping under which `ProcessCtl` implements `StreamService` | `ProcessCtl`, instance of `StreamService` |
| `WorkerQueue` | one `std::queue`, its locked producer and its unlocked consumer | |
| `Watchdog` | pulld, the start of pull, the lock, the registered hosts | `MongoCache` |
| `IniReader` | the configuration file, and what both programs read from it | |
| `PureLog` | pulld's log, cut by day, with interrupting signal handlers | |
| `PulldLog` | pulld's loop around its log: what it logs, opens and closes; properties | `PureLog` |
| `MCProcessCtl`, `MCPullServer`, `MCWatchdog`, `MCIniReader` | the bounds of the runs, symmetry, the files | the module named (`MCProcessCtl`: `ServiceRefinement`) |
| `ProcessCtlProofs`, `ProcessCtlOwnership` | types; whose process a pid is, and that none is out of reach | `ProcessCtl` |
| `ServiceProofs` | one record per stream; the refinement of `StreamService` | `ServiceRefinement`, `ProcessCtlProofs` |
| `PullServerProofs` | the refinement of `ProcessCtl` by the server; the status; what holds of the server through it | `PullServer`, `ProcessCtlOwnership`, `ServiceProofs` |
| `WatchdogProofs` | types, one server, one registration, registration while serving | `Watchdog` |
| `PureLogProofs` | types, no descriptor lost, lines in their file or lost for a reason | `PulldLog` |
| `WorkerQueueProofs` | the queue's positions; first in, first out without the lock | `WorkerQueue` |
| `IniReaderProofs` | types, the buffer, what is taken is what the file says | `IniReader` |

### ProcessCtl and the code

| Definition | Code |
|---|---|
| `cache` | collection `process`; `ppid`, urls, type and status are left out, no decision reads them |
| `owner[h][p]`, `alive[h]` | the kernel's pid table; `owner` is what a process was forked for and outlives it, so that a property can speak of it |
| `queue[h][w]`, `index[h]` | `WorkerContext::queue`, `worker_index`; the head is the event in work, popped when the handler returns |
| `worker[h][w]` | where the handler is, and `p->pid` or `param.pid` |
| `sched[h]` | the iterator over the snapshot and the local `info` of `process_alive_detect` |
| `put_data` | `ServerBiz::put_data` |
| `SpawnCheck`, `SpawnFork`, `SpawnInsert` | `spawn_process`: `is_process_exist`, `fork`, `add_process_to_cache` |
| `RemoveFind`, `RemoveDelete`, `RemoveKill` | `remove_process`: `get_process_info`, `remove_process_by_stream`, `kill` |
| `ReloadFind`, `ReloadFork`, `ReloadUpdate` | `process_reload`, `spawn_process_i`, `update_process_info` |
| `WorkerAbort` | the `assert(0)` of the default case, met by `EV_TERMINATE_PROCESS` |
| `SchedScan` ... `SchedUpdate` | `find_all_process`, `kill(pid, 0)`, `is_process_exist(pid)`, `spawn_process_i`, `update_process_info` |
| `Crash`, `Restart` | the end of the server by a signal or a fault; `main` |

One action is one call that another thread or process can see. `MongoCache` keeps the details
that matter: update and remove touch the first match only (`MONGOC_UPDATE_NONE`,
`MONGOC_REMOVE_SINGLE_REMOVE`), an update of nothing is a success, the order of documents is the
order of insertion, and no index makes a sid unique.

### RestApi, PullServer and the code

A body is reduced to what the handlers tell apart: null, unparsable, no object, and for an
object which fields are empty and which have a type whose conversion throws in jsoncpp 1.8.1.
`Incomplete`, `Throws` and `Reply` keep the order of the checks and the labels
(`INPUT_NO_MATCH` answers `"ret": 0` with status 400, because the local `ret` is still zero).
A handler runs to its end on the one event thread, so request, `put_data` and reply are one step.

### Watchdog and the code

`inst[i]` follows one pull process from `fork` in `CUtils::daemon` through `write_pid_to_file`,
`host_register`, `register_host_to_cache` and `evhttp_start` to serving, and through
`sig_handler_terminal`. A port that cannot be bound ends the process after it has registered
(`pull/src/app/rest_api.cpp:71`; the message prints a number with `%s`, which may end it sooner).
`pulld` follows `main` from the installation of the handlers, and the loop, with `lockf`, `close`,
`is_host_exist`, `remove_host`, `system` and its return as separate steps. The budget `io` is for
the open or write of the pid file and for a failing `fork`: pulld and pull end when they cannot open
the pid file. A signal may find pulld in `system`, where SIGINT is ignored, or inside a `prt` in
`localtime_r`, where the handler's own `prt` waits for ever (`hung`). A document carries in `by` the
process that inserted it; the database has no such field, only properties read it.

Two things about SIGTERM at pull are simpler than the code. `remove_host` and `exit(0)` are one step.
And the handler is taken to run on the main thread, where the kernel prefers to deliver a process's
signal. On a worker thread it would let `main` go on for a moment, which could register the host once
more after its removal; the record is then left behind, as after a crash.

### StreamService and ServiceRefinement

`StreamService` knows streams that are wanted and streams that run, and a queue of accepted
requests. Its actions are what a request, the scheduler, an ending ffmpeg and a crash may do. The
refinement mapping reads them off the state of `ProcessCtl`: wanted are the streams with a record,
running those whose record names a living process of theirs, pending is the worker's queue. A
start and a reload take effect with their last write, which also pops the event; a stop takes
effect when its record is removed, one step before the event is popped, so the head is left out
of `pending` at `kill`.

### WorkerQueue and the code

The deque of libstdc++ is modelled from its headers, as external code: nodes of `B` events, a map
of 8 pointers, the iterators `start` and `finish`. `sizeof(_event)` is 184 with the current layout
of `std::string` and 64 with the old one, so `B` is 2 or 8. `push` under the mutex is `PushInNode`
or `PushLastOfNode` with `PushNode`, `PushPublish`; when `finish` has reached the end of the map,
`MoveCount` to `MoveLast` (`_M_reallocate_map`) move the pointers to the middle of the map and
store into `start`, which the worker uses at the same time. The worker's `empty`, `front` and `pop`
are `Empty`, `Front`, and `Pop` with `PopFree` to `PopCur`. One action is one load or store the
other thread can tell apart; the makefile builds without optimisation (`DEBUG=YES`), and x86 keeps
the order of a thread's stores.

### IniReader and the code

A line is a sequence of tokens: brackets, `=`, carriage return, line feed, words. `LoadSection`,
`LoadKey` and `LoadEnd` are the loop of `Load`, one line (or piece of 256, `ConfigLen`) each. `PullMain`
and `PulldMain` are the calls of the two `main`s in their order: a `get` fills `m_szKey`, a look
uses the buffer, tests it with `atoi` or for empty. The two copies of the reader are the same text.

The files of the run are the two shipped ones and what is two edits away from them. A file that
cannot be opened leaves every setting empty, which `ConfAsWritten` states too.

`Says` is written from the file as a whole and shares nothing with `Load`: the last line for a key in
the last block of its section. `ConfAsWritten` claims it for plain files only: lines shorter than the
buffer, a carriage return at the end of a line at most (`Load` erases the first one it meets, wherever
it is), and brackets only around a section's name.

### PureLog, PulldLog and the code

`stack` holds the calls of `prt` that are under way: pulld's own and, above it, one for each signal
handler that interrupted. `new_file` is `NewFileCas` to `NewFileRelease`, or `NewFileFails`. The
kernel's table of descriptors is `opened`; a log file is known by the day it was opened for, and
everything else is `Foreign`. `open` takes the lowest free number, and `close` closes whatever has
the number. `localtime_r` is two steps, with glibc's lock, which is not recursive, held in between
(`ClockHeld`).

`PulldLog` is pulld's loop as the log and the descriptors see it: the lines it logs, in their order,
the pid file it opens and closes twice (`OpenPidFile`, `ClosePidFile`, `CloseAgain`; `main.cpp:42`,
`:51` and `:58` or `:73`), the connection to MongoDB (`Connect`, `Disconnect`), `system` and `sleep`. Which
way it goes, pull alive or not, the host registered or not, is free: `Watchdog` decides it.

The model is of `daemon=on`, where the log goes to a file and `daemon()` has made 0 to 2 `/dev/null`;
with the shipped `daemon=off` it goes to the console. Left out are the descriptors that stay open for
good, those that `daemon()` and the library of MongoDB open and close before they return, the failures of
pulld's own `write_pid_to_file`, and what follows the loop (the log is deleted). The `prt`s of
`MongoAdaptor` for a failed call stand behind its `assert`s. The comment at
`pulld/src/main.cpp:371` says "one file per hour", but -1 selects the cut by day, and that is what is
modelled.

## 3. Assumptions of the models

* `sh -c` replaces itself by ffmpeg, so the recorded pid is the ffmpeg's; execl succeeds.
* An ffmpeg survives the server's end (nothing kills the process group).
* The server may signal every process of its machine, so `kill(pid, 0)` fails only for a pid
  that does not exist.
* SIGCHLD is ignored, so a process that ended leaves no zombie and its pid is free at once.
* A MongoDB call is one atomic step. A query that fails looks like one that found nothing, but for
  the scheduler's, whose cursor may also break off after some of the records (`FirstPart`); a write
  that fails did nothing.
* In `ProcessCtl` the unlocked `std::queue` works as a FIFO queue, or ends the server (`Crash`).
  `WorkerQueue` shows when that is right: a queue in which fewer than `B` - 1 events wait when a
  push begins is a FIFO queue. With a longer backlog a push can move the map while the worker
  crosses from one node to the next; then events may be lost, repeated or read from freed memory,
  and what is said of `ProcessCtl` no longer applies.
* pull runs with `daemon=on`, as its configuration says; there is one pulld.
* A signal handler is not interrupted by its own signal (`signal()` of glibc). A log call is over
  before a second midnight, or waits for ever. Between two calls any time may pass.
* `FastStart`: a start of pull is over within pulld's `sleep(5)`. `wd_lock` does without it;
  `ServingIsRegistered` needs it, as a slow pull may register between pulld's probe and its removal, and
  so does `ServerComesBack`, as a start that asks for the lock while pulld probes it gives up, and
  the next one may do so again.

## 4. Runs

Every fault and every request has a budget, given per run in the cfg: `Creates` to
`Foreigners` for the process control, `Crashes` to `DbFaults` for the watchdog. The number of
workers, streams and pids is as small as the hazard allows: two workers for a race, two streams
for a mix-up, three pids for two streams and a respawn, five in `revive` so that no fork fails
for want of a pid before the budgets are used up.

| Run | Bounds | Checks |
|---|---|---|
| `churn` | 2 workers, 2 streams, 3 pids, no pid reuse; 2 starts, 2 stops, one of every other request and fault, no terminate (`v_undefined` has it) | `TypeOK`, `RecordsNameOwnStream`, `StopKillsOwnStream`, `RespawnOnlyExited`, `NoLeakByRequests` |
| `single` | 1 worker, 2 streams, 3 pids, pid reuse, one foreign process, exit, crash, failing fork; no database fault | `UniqueRecord`, `ImplementsService` |
| `revive` | 1 worker, 1 stream, fair; 2 starts, reload, stop, exit, failing fork | `StreamRevived`, `StopTakesEffect`, `RespawnsSettle` |
| `server` | every kind of body for the four handlers, 1 worker, 1 stream, a crash, an exit, a foreign process | `ServerTypeOK`, `ImplementsProcessCtl`, `OkIffQueued` |
| `wd_lock` | 3 pull processes, slow starts, 2 starts by hand, crashes, SIGTERM, a hang, a port in use, a database fault, 2 signals to pulld, a failing open or fork | `WatchdogTypeOK`, `OneServer`, `HostOnce` |
| `wd_serve` | 3 pull processes, `FastStart`, fair; 2 crashes, 2 SIGTERM, a port in use, a database fault, 2 signals to pulld, a failing open or fork | `ServingIsRegistered`, `ServerComesBack`, `PulldStops` |
| `queue` | `B` = 3, the map of 8 pointers, 17 events, at most 4 waiting | `QueueTypeOK`, `FifoUnlessRaced`, `FifoWhileShort`, `EveryEventHandled` |
| `config` | the two shipped configurations and every file two edits away from one of them, both programs, pieces of 7 tokens | `IniTypeOK`, `ConfAsWritten`, `BufferHolds` |
| `log` | months of 2 days, a clock of 3 days, pulld's loop twice, 2 signals, one failing open | `PulldLogTypeOK`, `LinesInTheirFile`, `LostForAReason`, `NoDescriptorLost`, `OnlySecondFile`, `PrtReturns` |

What the passing runs show.

* `churn`: pids never get mixed up on one machine without pid reuse, which also is proved. Starts
  and one stop leak nothing even with two workers, because a duplicate start leaves two records
  and a stop removes exactly one record and kills a process; `NoLeakByRequests` says so of the
  behaviours of this run in which nothing else has happened. Two stops at a time can leak.
* `single`: one worker keeps one record per stream and implements `StreamService`: every accepted
  request is carried out in its turn or lost with the server, and no step of the scheduler, of a
  reload or of a late write brings a stopped stream back. A respawn that a stop overtakes updates
  by sid, finds no record, and makes none. With two workers neither property holds.
* `revive`: with one worker the scheduler heals every record and then rests, and a stop is not
  undone by a respawn that is under way.
* `server`: the REST handlers send only the events `ProcessCtl` is specified for, so what is
  checked of `ProcessCtl` holds of the server with its interface.
* `wd_lock`, `wd_serve`: whatever starts pull, one process gets past the pid file and the host is
  registered once; if starts are fast, a serving pull keeps its record and a dead one is replaced,
  also one that did not get its port, and even when a database call or a `fork` fails. Pulld itself does
  not survive an open of the pid file that fails. `HostOnce` and
  `ServingIsRegistered` speak of behaviours in which no database call has failed so far: after one
  they do not hold, since results of these calls are dropped.
* `queue`: 17 events pass the end of the map, so the move happens, with 4 waiting also while the
  worker crosses nodes. Without that race the queue is FIFO, and it cannot happen while fewer
  than `B` - 1 events wait. The bound of waiting events keeps two nodes in use when the map is full, so
  that the map is moved and not replaced by a larger one; `QueueAssumption` says so.
* `config`: repeated sections, comments, carriage returns, keys without a section, values with
  `=`, a file that cannot be opened: the programs take what the file says. Lines with brackets in
  a value and lines longer than the buffer are in the files too; for them only `IniTypeOK` and
  `BufferHolds` are claimed.
* `log`: two handlers are enough for one to interrupt the other inside `new_file`. `LostForAReason`
  tells when a line is lost: an open that failed; a handler that logs before there is a file; two
  handlers that each cut the file between the reading of the descriptor and the write, which closes
  it (one such cut does no harm, since the old descriptor stays open until the next); or pulld's own
  second close of its pid file. `OnlySecondFile` says when that close can hit: without signals
  and failing opens, in the one round in which the log cuts for the first time. `LinesInTheirFile`
  names the lines in an old file: a handler's that met a cut under way, a line after months of
  silence, and, once pulld has closed a log file, a line that a cut overtakes. In `PrtReturns` a call
  comes to its end, or waits for the clock below it.

What the bounds leave out. `churn` has one host and no pid reuse, and the run with pid reuse,
`single`, has one worker, as have `revive` and `server`: the races of two workers are seen by `churn` and
by `v_runaway` only, and the refinement, `StreamRevived`, `StopTakesEffect` and `RespawnsSettle` say
nothing of them. `NoLeakByRequests` speaks only of behaviours with starts and one stop, so a
reload, a failed insert and a crash are outside it. `wd_serve` has no start by hand and no hang.

Three runs expect a violation; each states what the repository says of itself.

| Run | Property | What happens |
|---|---|---|
| `v_undefined` | `NoUndefinedMessage` | `POST /pull/inject/i/stop` queues an event that `worker_loop` meets with `assert(0)` |
| `v_leak` | `NoLeak` with an exit | scheduler looks up, worker stops, scheduler forks: an ffmpeg nobody can stop |
| `v_runaway` | `RespawnsSettle`, 2 workers | two workers check and insert one sid at the same time; the update hits the first record, the second is respawned on every scan |

More disagreements were met that have no run of their own:

* `put_data` never returns `ERROR_STREAM_EXIST`; the refusal of a duplicate start happens later in
  a worker, where only the log sees it, and the client reads 200.
* Two stops of a stream that has two records, on two workers, both read the pid of the first record
  (`pull/src/app/serverBiz.cpp:549`), each removes a record, and both kill the same ffmpeg
  (`pull/src/app/processCommonApi.cpp:223`); the other runs on without a record.
  `NoLeakByRequests` without its condition on the stops fails so.
* `check_alive_i` (`pull/src/app/rest_api.cpp:661`) writes to an evbuffer that is NULL;
  `HttpHealth` models it as the end of the server.
* `process_reload` (`pull/src/app/processCommonApi.cpp:80`) does not kill the ffmpeg whose pid it
  overwrites: `NoLeak` fails after one start and one reload.
* `process_alive_detect` probes pids of other hosts on its own machine: with two hosts
  `RespawnOnlyExited` fails.
* A pid that was handed to another program counts as a living ffmpeg: with `PidReuse` and
  `Foreigners = 1`, `StreamRevived` fails.
* The shipped configurations name different interfaces for pull (`bond0`) and pulld (`ens33`):
  with `PulldKey` different from `PullKey`, `ServerComesBack` fails after one crash.
* "The service is stateless" (`README.md:12`), but accepted requests wait in memory and are lost
  with the server (`Die`).
* The checks for a missing `net_type` and `address` (`pull/src/main.cpp:76`,
  `pull/src/app/rest_api.cpp:44`) compare with NULL, which `GetStr` never returns; pull goes on
  with the empty string. A negative `worker` passes the test for 0.
* The comment at `pull/src/config/iniReader.cpp:172` promises "NULL" for a key that cannot be read, but
  `GetKey` always returns `INI_SUCCESS`, and `GetStr` the empty string.
* A line with both brackets in a value, such as an IPv6 address, is taken for a section
  (`pull/src/config/iniReader.cpp:72`); with `]` first, `erase(-1)` throws and ends the program.
* pulld closes its pid file at `pulld/src/main.cpp:51` and the same number again at `:73`. When the
  line at `:66` is the first of a new day and the second slot of the log is still empty, the new log file
  is opened under that number and closed by pulld: every line up to the next cut is lost, with no open
  failed and no signal (`LostForAReason` without `mistaken` fails so).
* A handler of pulld that interrupts `localtime_r` of a `prt` (`pulld/src/log/pure_log.cpp:138`, `:275`)
  waits for glibc's lock for ever, and pulld with it: `PrtReturns` without `Stuck`, and `PulldStops` without
  `hung`, fail so.
* The log compares only the day of the month (`pulld/src/log/pure_log.cpp:188`). pulld logs nothing while
  pull is alive, so the line about its next death can go to a file that is a month old:
  `LinesInTheirFile` without its second alternative fails so.
* A SIGINT while pulld waits in `system()` (`pulld/src/main.cpp:396`) is lost.
* pulld ends when it fails once to open pull's pid file (`pulld/src/main.cpp:42`), and nothing starts pull
  any more.
* A signal before pulld has created its log calls `prt` on a null pointer
  (`pulld/src/main.cpp:279`); one after that and before `is_running = true` is lost.

Symmetry is used in the runs without fairness only. In the runs of `ProcessCtl` streams and pids are
interchangeable, in `server` the pids; no definition orders them, documents are ordered by their id.
`wd_lock` uses the symmetry of the pull processes. Deadlock is checked in the runs of `ProcessCtl`
and of the server, where the schedule thread can always scan. The others may really stop: pulld may
be stopped and pull then end for good, all events may be handled, the configuration read, the last
line logged.

The invariants of `queue` were also checked once with `B` = 2 and `B` = 4, those of `log` with a clock of
4 days, and with one round more. The line that `mistaken` excuses in `LinesInTheirFile` appears only with
the fourth day.

Mutants: every property of a passing run has one, a plausible bug of the code, kept beside the
definition it replaces (comment `Mutant:`).

## 5. Fairness

`FairSpec`: weak fairness of every worker, of the schedule thread and of the restart of a
server. The threads are POSIX threads that never wait for each other except for `_mutex` around
a push, and `sleep(10)` and `usleep(20000)` end. Restart is what pulld does. There is none for
clients, ffmpegs, faults or foreign processes. `FairWatchdogSpec`: weak fairness of pulld's loop
and of each pull process. The hang in the signal handler (`PullHangs`) is left to `wd_lock`: the
hung process keeps the lock and pulld takes it for alive, so with it `ServerComesBack` would fail.
`PulldStops` starts where the flag is cleared: a signal in the steps `boot` and `ready`, before
`is_running = true` (`pulld/src/main.cpp:388`), ends pulld through the null pointer or is lost, and a SIGINT
during `system` is lost; it ends in `done`, or in `hung` when the handler interrupted a `prt`.
`FairQueueSpec`: a push that has begun goes on and the worker thread is scheduled; nothing obliges
a client to send. `FairPulldLogSpec`: the call on the processor goes on unless it waits for the lock of
the clock, which a call below it holds. pulld's loop, the clock and signals are free to go on or not.

## 6. Proofs

`ProcessCtlProofs` proves `Spec => []TypeOK` (`TypeCorrect`) from the assumptions on the
constants alone. `TypeOK` is not inductive: what a handler inserts has the type of a document
only because a worker past its check handles an event with a real sid, and holds a real pid once
it forked. `HandlersTyped` says so, and `TypeInv`, the two together, is inductive. The interesting
conjuncts are `index`, which stays below `NumWorkers` because of the modulus, and `cache`.

`ProcessCtlOwnership` proves, for one machine (`SingleHost`) whose kernel does not reuse pids
(`~PidReuse`) and otherwise for all constants:

* `RecordsCorrect`: `Spec => []RecordsNameOwnStream`
* `StopCorrect`: `Spec => []StopKillsOwnStream`
* `RespawnCorrect`: `Spec => []RespawnOnlyExited`

The argument rests on one fact about every step, `Kept` (lemma `NextKeeps`): a pid that was ever
used keeps its owner, and a dead process stays dead. The inductive invariant `OwnedInv` adds to
`TypeInv` what the locals mean: the pid a worker holds belongs to the stream of the event it
handles (`WorkerOwned`), every document of the scheduler's snapshot was true when it was read, the
pid that did not answer is dead, and the pid it forked is of the stream it forked for
(`SchedOwned`). With `Kept`, each stays true while other threads move, which is why it does not
matter that the code uses a pid calls after it read it. Both hypotheses are needed: the
properties fail with two hosts, and a reused pid breaks them too. `OwnedInv` was checked with
TLC in the instance of `churn` before it was proved.

Under the same two hypotheses the module proves `LeakCorrect`: `Spec => []NoLeakByRequests`. The
invariant `CalmInv` (`Calm`, then `Tidy`) speaks of the behaviours the property is about, those with
nothing but starts, failing forks, foreign processes and one stop so far. In them every record names a
living process of its own stream, two records never name the same, and a worker between its `fork`
and its insert, or between its delete and its `kill`, holds a living process that no record and no
other worker has. So the scheduler never finds a record whose pid does not answer, and never
respawns. The one stop deletes the record it has read: no other worker deletes, and documents are
inserted at the end.

`ServiceProofs` proves, for one machine with one worker and a MongoDB that does not fail
(`SingleServer`), and otherwise for all constants, with or without pid reuse:

* `UniqueRecordCorrect`: `Spec => []UniqueRecord`. Alone it is not inductive: `UniqueInv` adds that
  from the query of `spawn_process` to its insert the stream has no record (`NoneBeforeCreate`),
  which holds because nobody else inserts, and that no database call can fail (`Reliable`).
* `ServiceCorrect`: `Spec => ImplementsService`, that is, every step of `ProcessCtl` is a step of
  `StreamService` under the mapping, or a stutter. The lemmas ending in `Serves` do one handler
  each; `UniqueInv` is needed because only with one record per stream does the removal of one
  document mean that the stream is no longer wanted, and the update of the first that the
  stream runs.

`PullServerProofs` proves for all constants that the server with its interface implements
`ProcessCtl` (`ServerCorrect`), keeps its types (`ServerTypeCorrect`) and answers 200 exactly to what it
queued (`StatusCorrect`). The core is `AcceptedIsEvent`: what passes the checks of a handler is an event
of `ProcessCtl`. Through the refinement what is proved of `ProcessCtl` holds of the server with its interface:
`RecordsNameOwnStream` and `StopKillsOwnStream` (`ServerKeepsOwnership`), `NoLeakByRequests`
(`ServerLosesNone`), both under the assumptions of `ProcessCtlOwnership`, and under those of `ServiceProofs`
the promise of `StreamService` (`ServerServes`): one theorem from the body of a request to what
streams are wanted and run.

`WatchdogProofs` proves for any number of pull processes and all budgets:

* `WatchdogTypeCorrect`; `OneServerCorrect`, from the invariant that who is past the pid file holds
  the lock (`LockHeld`).
* `HostOnceCorrect`: who is about to insert the host has found no record, and nobody else can
  have inserted one since, as inserting takes the lock (`NoneBeforeInsert`).
* `ServingIsRegisteredCorrect`, when starts are fast and only pulld starts pull: between pulld's
  probe and its removal no pull can have come as far as its own check (`ProbeHolds`), so what
  pulld removes is never the record of a living server (`RecordKept`).

`PureLogProofs` proves of pulld and its log (`PulldLogSpec`), for every clock, every length of the month
above one day (`DaysPerMonth > 1`) and every budget:

* `LogTypeCorrect` and `DescriptorsCorrect` (`[]NoDescriptorLost`). The second needs that the
  descriptor which open replaces is closed by then and stays so (`ClosedBeforeOpen`), and that needs
  that one call at most is inside `new_file` (`OneInside`): `m_busy` is a lock that is tried and never
  waited for.
* `LinesCorrect` (`[]LinesInTheirFile`). Until pulld has closed a log file, a descriptor in one of the two
  slots is open, but for the one a call has just closed to replace it (`Slots`). The file under the
  current number is of the time that `prt` compares, or was just opened under the number of both
  slots (`SlotFiles`), and no call that goes on has seen two midnights (`Times`).
* `LostCorrect` (`[]LostForAReason`). `Calls`: a descriptor that a call has read is closed by the
  second cut after that at the earliest, and each cut on top of a call takes a signal of its own.
  `ForeignOwned` and `PulldSays`: what the loop has open, it has open only between its own calls of
  `prt`, so only a handler can write into it.

`WorkerQueueProofs` is about the unlocked queue, for every size of a node, number of events and memory:

* `QueueAsSeen`, the inductive invariant. The queue is read off the memory with the positions of its
  two threads (`HeadPos`, `HeadSlot`, `TailPos`), which hide where each of them is between its loads and
  stores. Until a pop crosses from node to node while a push moves the map, event number
  `Base + j + 1` is in slot `j` of the first node, and so on through the three nodes that can be in
  use, and every node that is read is allocated.
* `Fifo` and `ShortQueueIsFifo`: `FifoUnlessRaced` follows from what the worker has read. For
  `FifoWhileShort`, a map is moved while two nodes are in use, so the worker can cross during the
  move only if about a node of events waits.
* `QueueTypes`: the positions stay in the map, with a map of 8 pointers, the one libstdc++ starts
  with, or of 7 (`MapSize <= 8`; the model itself asks for more than 6). The types must hold after
  the race as well, when the two threads store into `start` at the same time; `PlacesInv` bounds the
  positions whatever the order of their stores. With a larger map the two may together step out of
  it.

`IniReaderProofs` proves, for any set of files, any buffer and any numbers:

* `IniTypeCorrect` and `BufferCorrect`, from `IniInv`: no line that `fgets` returns is longer than the
  buffer, and erasing and cutting do not make it longer (`PieceIs`, `EraseIs`, `KeyTyped`).
* `ConfCorrect` (`[]ConfAsWritten`), with `NothingLoaded` for a file that could not be opened.
  `LoadSays` is the loop invariant of `Load`: after `n` lines the section being read began at the
  last header among them, its keys have the last value of the lines since then, and the map has the
  last of the earlier blocks of each section. `SectionEnds` carries it over a commit, `HeaderRead`
  and `KeyRead` over a line, `SaysWhatIsThere` takes it at the end of the file to `Says`. The lemmas
  on single lines say what `find` and `erase` do: the minimum is taken from the well-founded order
  of the naturals, since an operator cannot be handed to the library's induction. For the programs,
  each look at the shared buffer follows the get of the same setting (`ProgramsPaired`); a program
  that looks one call later, the mutant `LateNetType`, does not have it.

All invariants of the runs are theorems, with the hypotheses named above. Only model-checked are
the liveness properties (`StreamRevived`, `StopTakesEffect`, `RespawnsSettle`, `ServerComesBack`,
`PulldStops`, `EveryEventHandled`, `PrtReturns`), since fairness and ENABLED are out of reach of the
provers used here, and the action property `OnlySecondFile`.

## 7. Not modelled

The repository has about 60,000 lines of C and C++, of which some 55,000 are headers of libevent,
mongoc, bson, jsoncpp and log4cplus under `pull/inc` and `pulld/inc`, each there twice. They are other
projects' code and are modelled only as far as this program relies on them. The modules map onto
the rest, about 4800 lines with comments and blank lines. Left out of these:

* A child whose `execl` failed and which goes on as a copy of the server: `/bin/sh` exists
  wherever the program runs.
* Never called: `terminate_process`, `find_orphan_process`, `remove_process_by_id`,
  `get_pid_from_file`, `try_lock_file`, `multi_mkdir`, `CloseFile`, `shutdown`, most of `p_string`, the atomic
  helpers but two: CAS, which is modelled, and the addition to the file size, which serves the cut
  by size.
* Not used as shipped: `daemon=off` of pull, the log's cuts by hour, by size and none. Of pulld's own
  `daemon` only the line it logs is modelled, not its pid file.
* What follows pulld's loop (two deletes), and what follows `event_dispatch` in pull (`unlink` of the pid
  file): nobody breaks that loop, SIGTERM ends pull in the handler.
* The size of the deque's map beyond one move: a backlog of more than `2 * B` events at the moment
  the map is full allocates a larger map, which races in the same way.
* Text: replies, urls, log lines, path names; the log4cplus wrapper, which formats a line and
  hands it on; globals; scripts.

## 8. Plan

Done: the process control with its REST interface, its promise and both refinements, the queue of
a worker, the watchdog, the configuration, pulld's log; every invariant of the runs as a theorem.
What would be worth doing next:

1. What stays true of the leak when more than one stop is under way: stops of different streams
   should not disturb each other.
2. The safety steps behind the liveness properties, as action properties: what never undoes a
   respawn, or a stop.

The list of runs stays short: a new module gets one run, and a run whose question a stronger run
answers is dropped.
