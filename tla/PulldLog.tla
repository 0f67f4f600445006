------------------------------- MODULE PulldLog -------------------------------
(***************************************************************************)
(* pulld and its log: the calls of prt that the loop and the handler of    *)
(* pulld (pulld/src/main.cpp) make, with the descriptors the loop opens    *)
(* and closes in between.  check_process_alive closes the pid file twice,  *)
(* and the log may have opened its file under that number since.           *)
(* Descriptors that stay open for good are not counted.                    *)
(***************************************************************************)
EXTENDS PureLog

CONSTANT MaxRounds   \* bound: how often the loop goes round

ASSUME RoundsAssumption == MaxRounds \in Nat

VARIABLES
    loop,         \* where pulld's main is
    is_running,
    pid_fd,       \* m_fd of check_process_alive; -1: it is not running
    connection,   \* the descriptor of the connection to MongoDB; -1: none
    mistaken,     \* history: pulld has closed a file of the log
    roundPos,     \* history: m_pos when check_process_alive opened the pid file; -1: as above
    rounds        \* what is left of MaxRounds

loopVars == <<loop, is_running, pid_fd, connection, mistaken, roundPos, rounds>>
pvars == <<lvars, loopVars>>

\* The log files of PureLog stay as they are.
filesVars == <<m_pos, m_fd, m_cur_filetime, m_busy>>

\* In the order of the loop; gone to close3: only when pull is not alive.
LoopPcs == {"daemon", "enter", "open", "exit", "close", "close2",
            "gone", "ask", "find", "found", "answer", "remove", "delete", "deleted",
            "close3", "run", "sleep", "done"}

PulldLogTypeOK ==
    /\ LogTypeOK
    /\ loop \in LoopPcs
    /\ is_running \in BOOLEAN
    /\ pid_fd \in Fds \cup {-1}
    /\ connection \in Fds \cup {-1}
    /\ mistaken \in BOOLEAN
    /\ roundPos \in Nat \cup {-1}
    /\ rounds \in 0 .. MaxRounds

PulldLogInit ==
    /\ LogInit
    /\ loop = "daemon"
    /\ is_running = FALSE
    /\ pid_fd = -1
    /\ connection = -1
    /\ mistaken = FALSE
    /\ roundPos = -1
    /\ rounds = MaxRounds

-------------------------------------------------------------------------------
(* Descriptors *)

OpenForeign(fd) == LowestFree(fd) /\ opened' = [opened EXCEPT ![fd] = Foreign]

\* close: what has the number by now, or EBADF.
CloseNumber(fd) ==
    /\ opened' = [e \in Fds |-> IF e = fd THEN NoFile ELSE opened[e]]
    /\ mistaken' = (mistaken \/ \E e \in Fds : e = fd /\ IsLogFile(opened[e]))

\* The rest of the log is left alone; pulld goes on only when no call is on the stack.
LogUntouched ==
    /\ stack = <<>>
    /\ UNCHANGED <<now, filesVars, stack, written, lost, signals>>

-------------------------------------------------------------------------------
(* main *)

\* A call of prt, and where pulld goes on.
Says(from, to) ==
    /\ loop = from
    /\ Prt
    /\ loop' = to
    /\ UNCHANGED <<is_running, pid_fd, connection, mistaken, roundPos, rounds>>

\* daemon: "daemon pid".
Daemon == Says("daemon", "enter")

EnterLoop ==
    /\ loop = "enter"
    /\ LogUntouched
    /\ is_running' = TRUE
    /\ loop' = "open"
    /\ UNCHANGED <<opened, faults, pid_fd, connection, mistaken, roundPos, rounds>>

\* check_process_alive.
OpenPidFile ==
    /\ loop = "open"
    /\ LogUntouched
    /\ \E fd \in Fds : OpenForeign(fd) /\ pid_fd' = fd
    /\ roundPos' = m_pos
    /\ loop' = "close"
    /\ UNCHANGED <<faults, is_running, connection, mistaken, rounds>>

OpenPidFileFails ==
    /\ loop = "open"
    /\ LogUntouched
    /\ faults > 0
    /\ faults' = faults - 1
    /\ loop' = "exit"
    /\ UNCHANGED <<opened, is_running, pid_fd, connection, mistaken, roundPos, rounds>>

\* "Open %s Error", exit(0).
Exit == Says("exit", "done")

\* close, after lockf: pull is alive or it is gone.
ClosePidFile ==
    /\ loop = "close"
    /\ LogUntouched
    /\ CloseNumber(pid_fd)
    /\ loop' \in {"close2", "gone"}
    /\ UNCHANGED <<faults, is_running, pid_fd, connection, roundPos, rounds>>

\* The second close, of a pull that is alive and of one that is gone.
CloseAgain ==
    /\ LogUntouched
    /\ \/ loop = "close2" /\ loop' = "sleep"
       \/ loop = "close3" /\ loop' = "run"
    /\ CloseNumber(pid_fd)
    /\ pid_fd' = -1
    /\ roundPos' = -1
    /\ UNCHANGED <<faults, is_running, connection, rounds>>

\* "pull2push does not running"; then is_host_exist: "mongo address".
Gone == Says("gone", "ask") \/ Says("ask", "find")

\* findOne, remove: the database is reached or not.
Connect ==
    /\ LogUntouched
    /\ \/ loop = "find" /\ loop' = "found"
       \/ loop = "delete" /\ loop' = "deleted"
    /\ \/ \E fd \in Fds : OpenForeign(fd) /\ connection' = fd
       \/ connection' = -1 /\ UNCHANGED opened
    /\ UNCHANGED <<faults, is_running, pid_fd, mistaken, roundPos, rounds>>

\* connect_close.
Disconnect ==
    /\ LogUntouched
    /\ \/ loop = "found" /\ loop' = "answer"
       \/ loop = "deleted" /\ loop' = "close3"
    /\ CloseNumber(connection)
    /\ connection' = -1
    /\ UNCHANGED <<faults, is_running, pid_fd, roundPos, rounds>>

\* "cache host: %s exist", and remove_host: "remove remain host"; or "not exist".
Answer == Says("answer", "remove") \/ Says("answer", "close3") \/ Says("remove", "delete")

\* "run bin dir", and system.
Run == Says("run", "sleep")

\* sleep(5), and the test of the loop.
Wake ==
    /\ loop = "sleep"
    /\ LogUntouched
    /\ \/ is_running /\ rounds > 0 /\ rounds' = rounds - 1 /\ loop' = "open"
       \/ ~is_running /\ UNCHANGED rounds /\ loop' = "done"
    /\ UNCHANGED <<opened, faults, is_running, pid_fd, connection, mistaken, roundPos>>

\* sig_terminal, as long as there is a process.
SigTerminal ==
    /\ loop # "done" \/ stack # <<>>
    /\ Signal
    /\ is_running' = FALSE
    /\ UNCHANGED <<loop, pid_fd, connection, mistaken, roundPos, rounds>>

LoopLogs == Daemon \/ Exit \/ Gone \/ Answer \/ Run

LoopStep ==
    \/ EnterLoop \/ OpenPidFile \/ OpenPidFileFails \/ ClosePidFile \/ CloseAgain
    \/ Connect \/ Disconnect \/ Wake

PulldLogNext ==
    \/ LoopLogs
    \/ LoopStep
    \/ SigTerminal
    \/ LogStep /\ UNCHANGED loopVars
    \/ Tick /\ UNCHANGED loopVars

PulldLogSpec == PulldLogInit /\ [][PulldLogNext]_pvars

\* A call that can go on does: it is on the processor, and interrupted only for the
\* bounded number of signals.
FairPulldLogSpec == PulldLogSpec /\ WF_pvars(LogStep /\ UNCHANGED loopVars)

-------------------------------------------------------------------------------
(* Properties *)

\* A line is in a file of its day, or of the next one when the file was cut while the
\* line was on its way.  It is in an earlier file when it is the line of a handler that
\* interrupted a cut and was told RETRY; when the file is months old and has the day of
\* the month, which is all prt compares, pulld having logged nothing since; or, once
\* pulld has closed a file of the log, when the two slots have the same number (prt,
\* new_file, sig_terminal).
LinesInTheirFile ==
    \A l \in written :
        /\ l.file <= l.stamp + 1
        /\ l.file < l.stamp =>
              \/ l.retried
              \/ mday(l.file) = mday(l.stamp)
              \/ mistaken /\ l.file = l.stamp - 1

\* A line is lost when the file it needs cannot be opened; when it is a handler's and
\* there is no file yet; when two handlers, each with a cut, close the descriptor that
\* was read for it, the second slot keeping it from being lost to one; or when pulld
\* has closed the file by the second close of its pid file.  Into what pulld itself has
\* open, the pid file or the connection to the database, only a handler can write, and
\* only after such a close.
LostForAReason ==
    \A l \in lost :
        \/ l.why = "open"
        \/ l.why = "none" /\ l.by \in Handlers
        \/ l.why = "closed" /\ (signals <= Signals - 2 \/ mistaken)
        \/ l.why = "foreign" /\ l.by \in Handlers /\ mistaken

\* Two log files at most are open, and each can still be reached and closed: new_file
\* leaks none, however calls interrupt each other and whatever pulld closes.
NoDescriptorLost ==
    \A fd \in Fds : IsLogFile(opened[fd]) => \E i \in 0 .. 1 : m_fd[i] = fd

\* With no signal and no failed open, pulld's second close hits the log only in the
\* round of the loop in which the log opens its second file, the first one a prt of the
\* loop opens: afterwards the log's two numbers are lower than the pid file's.
OnlySecondFile ==
    [][~mistaken /\ mistaken' =>
          roundPos = 0 \/ signals < Signals \/ faults < OpenFaults]_pvars

\* The top call waits for a lock that a call below it holds.
Stuck == stack # <<>> /\ Top.pc \in {"time", "opentime"} /\ ClockHeld

\* Nobody waits for new_file: every call comes to its end (m_busy, RETRY), but for the
\* handler that has interrupted another call in localtime_r and waits there for ever.
PrtReturns == stack # <<>> ~> stack = <<>> \/ Stuck
===============================================================================
