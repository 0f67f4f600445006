-------------------------------- MODULE PureLog --------------------------------
(***************************************************************************)
(* pulld's log, CLog with the tank file and cut by time: prt and new_file. *)
(* The signal handler of pulld calls prt too, so a prt may be interrupted  *)
(* between any two steps by another one, which has the processor until it  *)
(* ends; the handler of one signal may be interrupted by that of another,  *)
(* never by its own.  libc reads the local time under a lock which a call  *)
(* on top cannot get from the one it interrupted.  What else pulld opens   *)
(* and closes is in PulldLog.  The strategies by size, by hour and without *)
(* a cut, which pulld never selects, are left out.                         *)
(***************************************************************************)
EXTENDS Integers, Sequences, FiniteSets

CONSTANTS
    DaysPerMonth,
    MaxDay,        \* bound: the last day of the clock
    Signals,       \* bound: how often a handler runs
    OpenFaults     \* bound: how often open fails

ASSUME LogAssumption ==
    \* With one day in a month, mday would tell no two days apart.
    /\ DaysPerMonth \in Nat /\ DaysPerMonth > 1
    /\ {MaxDay, Signals, OpenFaults} \subseteq Nat

VARIABLES
    now,                    \* time(NULL), in days
    m_pos,                  \* which of the two descriptors is current
    m_fd,                   \* the two descriptors; -1: none
    m_cur_filetime,         \* when they were opened
    m_busy,
    opened,                 \* kernel: what is open under each descriptor
    stack,                  \* the calls that run; the last one is on the processor
    written, lost,          \* the last line, until the next call: where it went, or why not
    signals, faults         \* what is left of the bounds

lvars == <<now, m_pos, m_fd, m_cur_filetime, m_busy, opened,
           stack, written, lost, signals, faults>>

Fds == 0 .. 3
Unopened == -1

\* What is open under a descriptor: nothing, the log file of a day, or something else.
NoFile == -1
Foreign == -2
IsLogFile(f) == f >= 0

\* by: who logs.  stamp: the time of the line.  then: where new_file returns to.
\* opening: the time new_file has read.  retried: new_file has returned RETRY.
\* fd: the argument of write.
Handlers == {"SIGTERM", "SIGINT"}
Frames == [by : {"pulld"} \cup Handlers, stamp : 0 .. MaxDay, fd : Fds \cup {-1},
           opening : 0 .. MaxDay, retried : BOOLEAN, then : {"cut", "write", "return"},
           pc : {"time", "clock", "fd", "cut", "cas", "opentime", "openclock", "close",
                 "open", "publish", "release", "write", "put"}]

LogTypeOK ==
    /\ now \in 0 .. MaxDay
    /\ m_pos \in Nat \cup {-1}
    /\ m_fd \in [0 .. 1 -> Fds \cup {-1}]
    /\ m_cur_filetime \in [0 .. 1 -> 0 .. MaxDay \cup {Unopened}]
    /\ m_busy \in BOOLEAN
    /\ opened \in [Fds -> 0 .. MaxDay \cup {NoFile, Foreign}]
    /\ stack \in Seq(Frames)
    /\ \A i, j \in DOMAIN stack : stack[i].by = stack[j].by => i = j
    /\ signals \in 0 .. Signals /\ faults \in 0 .. OpenFaults

Frame(by, pc, then) ==
    [by |-> by, stamp |-> now, fd |-> -1, opening |-> 0, retried |-> FALSE,
     then |-> then, pc |-> pc]

\* The constructor, and init on its way into new_file.
LogInit ==
    /\ now = 0
    /\ m_pos = -1
    /\ m_fd = [i \in 0 .. 1 |-> -1]
    /\ m_cur_filetime = [i \in 0 .. 1 |-> Unopened]
    /\ m_busy = FALSE
    /\ opened = [fd \in Fds |-> NoFile]
    /\ stack = <<Frame("pulld", "cas", "return")>>
    /\ written = {}
    /\ lost = {}
    /\ signals = Signals
    /\ faults = OpenFaults

-------------------------------------------------------------------------------

Depth == Len(stack)
Top == stack[Depth]
At(pc) == stack # <<>> /\ Top.pc = pc
SetTop(frame) == stack' = [stack EXCEPT ![Depth] = frame]
To(pc) == SetTop([Top EXCEPT !.pc = pc])
Return == stack' = SubSeq(stack, 1, Depth - 1)
ReturnToPrt(retry) ==
    IF Top.then = "return" THEN Return
    ELSE SetTop([Top EXCEPT !.pc = Top.then, !.opening = 0, !.retried = @ \/ retry])

Current == m_pos % 2
m_next == (m_pos + 1) % 2

mday(t) == t % DaysPerMonth

\* Mutant: the file is never cut.
NeverCut(stamp) == FALSE

\* prt: only the day of the month is compared; tm_mday is 0 before the first file.
Cut(stamp) ==
    LET opentime == m_cur_filetime[Current]
    IN  opentime = Unopened \/ mday(opentime) # mday(stamp)

\* pulld calls prt: time(NULL).
Prt ==
    /\ stack = <<>>
    /\ stack' = <<Frame("pulld", "time", "cut")>>
    /\ written' = {}
    /\ lost' = {}
    /\ UNCHANGED <<now, m_pos, m_fd, m_cur_filetime, m_busy, opened, signals, faults>>

\* Mutant: a signal interrupts its own handler.
NeverBlocked(signo) == FALSE

Blocked(signo) == \E i \in DOMAIN stack : stack[i].by = signo

\* sig_terminal calls prt.
Signal ==
    /\ signals > 0
    /\ signals' = signals - 1
    /\ \E signo \in Handlers :
          /\ ~Blocked(signo)
          /\ stack' = Append(stack, Frame(signo, "time", "cut"))
    /\ written' = {}
    /\ lost' = {}
    /\ UNCHANGED <<now, m_pos, m_fd, m_cur_filetime, m_busy, opened, faults>>

\* The lock of libc that localtime_r holds while it works; it is not recursive.
ClockHeld == \E i \in DOMAIN stack : stack[i].pc \in {"clock", "openclock"}

\* localtime_r in prt.
PrtLocaltime ==
    /\ At("time")
    /\ ~ClockHeld
    /\ To("clock")
    /\ UNCHANGED <<now, m_pos, m_fd, m_cur_filetime, m_busy,
                   opened, written, lost, signals, faults>>

PrtLocaltimeReturns ==
    /\ At("clock")
    /\ To("fd")
    /\ UNCHANGED <<now, m_pos, m_fd, m_cur_filetime, m_busy,
                   opened, written, lost, signals, faults>>

PrtFd ==
    /\ At("fd")
    /\ SetTop([Top EXCEPT !.pc = IF m_fd[Current] = -1 THEN "cas" ELSE "cut",
                          !.then = "cut"])
    /\ UNCHANGED <<now, m_pos, m_fd, m_cur_filetime, m_busy,
                   opened, written, lost, signals, faults>>

PrtCut ==
    /\ At("cut")
    /\ SetTop([Top EXCEPT !.pc = IF Cut(Top.stamp) THEN "cas" ELSE "write",
                          !.then = "write"])
    /\ UNCHANGED <<now, m_pos, m_fd, m_cur_filetime, m_busy,
                   opened, written, lost, signals, faults>>

\* Mutants: a new_file that finds another one at work waits for it; or goes on.
WaitWhileBusy == ~m_busy /\ m_busy' = TRUE /\ To("opentime")
GoOnWhileBusy == m_busy' = TRUE /\ To("opentime")

\* CAS(&m_busy, 0, 1), or RETRY, which prt takes for a success.
BusyOrRetry ==
    \/ ~m_busy /\ m_busy' = TRUE /\ To("opentime")
    \/ m_busy /\ UNCHANGED m_busy /\ ReturnToPrt(TRUE)

NewFileCas ==
    /\ At("cas")
    /\ BusyOrRetry
    /\ UNCHANGED <<now, m_pos, m_fd, m_cur_filetime, opened,
                   written, lost, signals, faults>>

\* time(NULL) and localtime_r in new_file, before the old file is closed.
NewFileLocaltime ==
    /\ At("opentime")
    /\ ~ClockHeld
    /\ SetTop([Top EXCEPT !.pc = "openclock", !.opening = now])
    /\ UNCHANGED <<now, m_pos, m_fd, m_cur_filetime, m_busy,
                   opened, written, lost, signals, faults>>

NewFileLocaltimeReturns ==
    /\ At("openclock")
    /\ To("close")
    /\ UNCHANGED <<now, m_pos, m_fd, m_cur_filetime, m_busy,
                   opened, written, lost, signals, faults>>

\* Mutant: the file in the other slot stays open.
NextKept == opened

NextClosed == [fd \in Fds |-> IF fd = m_fd[m_next] THEN NoFile ELSE opened[fd]]

\* close closes whatever has the number.
NewFileClose ==
    /\ At("close")
    /\ opened' = NextClosed
    /\ To("open")
    /\ UNCHANGED <<now, m_pos, m_fd, m_cur_filetime, m_busy,
                   written, lost, signals, faults>>

LowestFree(fd) == opened[fd] = NoFile /\ \A e \in 0 .. fd - 1 : opened[e] # NoFile

NewFileOpen ==
    /\ At("open")
    /\ \E fd \in Fds :
          /\ LowestFree(fd)
          /\ m_fd' = [m_fd EXCEPT ![m_next] = fd]
          /\ opened' = [opened EXCEPT ![fd] = Top.opening]
    /\ m_cur_filetime' = [m_cur_filetime EXCEPT ![m_next] = Top.opening]
    /\ To("publish")
    /\ UNCHANGED <<now, m_pos, m_busy, written, lost,
                   signals, faults>>

\* FAILURE: prt gives up its line.
NewFileFails ==
    /\ At("open")
    /\ faults > 0
    /\ faults' = faults - 1
    /\ m_fd' = [m_fd EXCEPT ![m_next] = -1]
    /\ m_busy' = FALSE
    /\ written' = {}
    /\ lost' = {[by |-> Top.by, why |-> "open"]}
    /\ Return
    /\ UNCHANGED <<now, m_pos, m_cur_filetime, opened, signals>>

NewFilePublish ==
    /\ At("publish")
    /\ m_pos' = m_pos + 1
    /\ To("release")
    /\ UNCHANGED <<now, m_fd, m_cur_filetime, m_busy, opened,
                   written, lost, signals, faults>>

NewFileRelease ==
    /\ At("release")
    /\ m_busy' = FALSE
    /\ ReturnToPrt(FALSE)
    /\ UNCHANGED <<now, m_pos, m_fd, m_cur_filetime, opened,
                   written, lost, signals, faults>>

\* Mutant: the descriptor that was not opened last.
OtherFd == m_fd[m_next]

CurrentFd == m_fd[Current]

\* The argument of write is read ...
PrtArgument ==
    /\ At("write")
    /\ SetTop([Top EXCEPT !.pc = "put", !.fd = CurrentFd])
    /\ UNCHANGED <<now, m_pos, m_fd, m_cur_filetime, m_busy,
                   opened, written, lost, signals, faults>>

WhyLost(fd) ==
    CASE fd = -1 -> "none"
      [] fd # -1 /\ opened[fd] = NoFile -> "closed"
      [] fd # -1 /\ opened[fd] = Foreign -> "foreign"

\* ... and write is called with it; prt's callers do not look at the result.
PrtWrite ==
    /\ At("put")
    /\ IF Top.fd \in Fds /\ IsLogFile(opened[Top.fd])
       THEN /\ written' = {[stamp |-> Top.stamp, retried |-> Top.retried,
                             file |-> opened[Top.fd]]}
            /\ lost' = {}
       ELSE /\ written' = {}
            /\ lost' = {[by |-> Top.by, why |-> WhyLost(Top.fd)]}
    /\ Return
    /\ UNCHANGED <<now, m_pos, m_fd, m_cur_filetime, m_busy,
                   opened, signals, faults>>

\* A call is over before a second midnight, or waits for the lock and does nothing
\* any more.  Between two calls any time may pass.
Tick ==
    /\ now < MaxDay
    /\ \A i \in DOMAIN stack : stack[i].stamp = now
    /\ now' = now + 1
    /\ UNCHANGED <<m_pos, m_fd, m_cur_filetime, m_busy, opened,
                   stack, written, lost, signals, faults>>

LogStep ==
    \/ PrtLocaltime \/ PrtLocaltimeReturns \/ PrtFd \/ PrtCut \/ PrtArgument \/ PrtWrite
    \/ NewFileCas \/ NewFileLocaltime \/ NewFileLocaltimeReturns \/ NewFileClose
    \/ NewFileOpen \/ NewFileFails \/ NewFilePublish \/ NewFileRelease
===============================================================================
