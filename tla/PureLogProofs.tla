----------------------------- MODULE PureLogProofs -----------------------------
(***************************************************************************)
(* Theorems about pulld and its log, for every clock, month and budget:    *)
(* the types, that no log file is lost, that a line is in a file of its    *)
(* day but for the named cases, and that a line is lost only for a reason. *)
(*                                                                         *)
(* The argument: m_busy is a lock that is tried and never waited for.      *)
(* However calls are stacked on each other, one of them at most is inside  *)
(* new_file, and only that one changes the slots (OneInside); pulld's loop *)
(* goes on only when no call is on the stack (NextCases).  Until the loop  *)
(* closes a log file, the current number has one whenever it is read       *)
(* (Slots).  The file under the current number has the time that prt       *)
(* compares, or it has just been opened under the number of both slots     *)
(* (SlotFiles), and no call lasts more than two days (Times).  A           *)
(* descriptor that was read for a write is closed only by the second cut   *)
(* after that, and every cut on top of the writer takes a signal (Calls).  *)
(* What the loop has open, it has open only between its calls of prt       *)
(* (ForeignOwned, PulldSays).                                              *)
(***************************************************************************)
EXTENDS PulldLog, TLAPS

StackTyped ==
    /\ stack \in Seq(Frames)
    /\ \A i, j \in DOMAIN stack : stack[i].by = stack[j].by => i = j

FilesTyped ==
    /\ m_pos \in Nat \cup {-1}
    /\ m_fd \in [0 .. 1 -> Fds \cup {-1}]
    /\ m_cur_filetime \in [0 .. 1 -> 0 .. MaxDay \cup {Unopened}]
    /\ m_busy \in BOOLEAN
    /\ opened \in [Fds -> 0 .. MaxDay \cup {NoFile, Foreign}]

BoundsTyped ==
    /\ now \in 0 .. MaxDay
    /\ signals \in 0 .. Signals /\ faults \in 0 .. OpenFaults

LEMMA TypeParts == LogTypeOK <=> StackTyped /\ FilesTyped /\ BoundsTyped
  BY DEF LogTypeOK, StackTyped, FilesTyped, BoundsTyped

LEMMA TypePartsNext == LogTypeOK' <=> StackTyped' /\ FilesTyped' /\ BoundsTyped'
  BY DEF LogTypeOK, StackTyped, FilesTyped, BoundsTyped

-------------------------------------------------------------------------------
(* The stack *)

LEMMA TopIs ==
    ASSUME StackTyped, stack # <<>>
    PROVE  /\ Depth \in Nat \ {0} /\ Depth \in DOMAIN stack
           /\ DOMAIN stack = 1 .. Depth
           /\ Top \in Frames
  <1>1. stack \in Seq(Frames) BY DEF StackTyped
  <1>2. Depth \in Nat \ {0} /\ DOMAIN stack = 1 .. Depth BY <1>1 DEF Depth
  <1>3. stack[Depth] \in Frames BY <1>1, <1>2
  <1> QED BY <1>2, <1>3 DEF Top

LEMMA SetTopStack ==
    ASSUME StackTyped, stack # <<>>, NEW f \in Frames, f.by = Top.by, SetTop(f)
    PROVE  /\ StackTyped'
           /\ DOMAIN stack' = DOMAIN stack
           /\ stack'[Depth] = f
           /\ \A i \in DOMAIN stack : i # Depth => stack'[i] = stack[i]
  <1>1. stack \in Seq(Frames) /\ Depth \in DOMAIN stack BY TopIs DEF StackTyped
  <1>2. stack' = [stack EXCEPT ![Depth] = f] BY DEF SetTop
  <1>3. stack' \in Seq(Frames) BY <1>1, <1>2
  <1>4. DOMAIN stack' = DOMAIN stack BY <1>2
  <1>5. stack'[Depth] = f /\ \A i \in DOMAIN stack : i # Depth => stack'[i] = stack[i]
    BY <1>1, <1>2
  <1>6. \A i \in DOMAIN stack : stack'[i].by = stack[i].by BY <1>5 DEF Top
  <1> QED BY <1>3, <1>4, <1>5, <1>6 DEF StackTyped

LEMMA ReturnStack ==
    ASSUME StackTyped, stack # <<>>, Return
    PROVE  /\ StackTyped'
           /\ DOMAIN stack' = DOMAIN stack \ {Depth}
           /\ \A i \in DOMAIN stack' : stack'[i] = stack[i]
  <1>1. stack \in Seq(Frames) BY DEF StackTyped
  <1>2. Depth \in Nat \ {0} /\ DOMAIN stack = 1 .. Depth /\ Depth = Len(stack)
    BY TopIs DEF Depth
  <1>3. stack' = SubSeq(stack, 1, Depth - 1) BY DEF Return
  <1>4. stack' \in Seq(Frames) /\ Len(stack') = Depth - 1 BY <1>1, <1>2, <1>3
  <1>5. DOMAIN stack' = 1 .. Depth - 1 BY <1>4
  <1>6. \A i \in 1 .. Depth - 1 : stack'[i] = stack[i] BY <1>1, <1>2, <1>3
  <1>7. DOMAIN stack' = DOMAIN stack \ {Depth} BY <1>2, <1>5
  <1> QED BY <1>4, <1>5, <1>6, <1>7 DEF StackTyped

LEMMA PushStack ==
    ASSUME StackTyped, NEW f \in Frames, stack' = Append(stack, f),
           \A i \in DOMAIN stack : stack[i].by # f.by
    PROVE  /\ StackTyped'
           /\ DOMAIN stack' = DOMAIN stack \cup {Depth + 1}
           /\ stack'[Depth + 1] = f
           /\ \A i \in DOMAIN stack : stack'[i] = stack[i]
  <1>1. stack \in Seq(Frames) /\ Depth \in Nat /\ DOMAIN stack = 1 .. Depth
    BY DEF StackTyped, Depth
  <1>2. stack' \in Seq(Frames) /\ Len(stack') = Depth + 1 BY <1>1 DEF Depth
  <1>3. DOMAIN stack' = 1 .. Depth + 1 BY <1>1, <1>2
  <1>4. stack'[Depth + 1] = f /\ \A i \in DOMAIN stack : stack'[i] = stack[i]
    BY <1>1 DEF Depth
  <1>5. DOMAIN stack' = DOMAIN stack \cup {Depth + 1} BY <1>1, <1>3
  <1> QED BY <1>2, <1>4, <1>5 DEF StackTyped

LEMMA SlotsOfFiles ==
    ASSUME FilesTyped
    PROVE  /\ Current \in 0 .. 1 /\ m_next \in 0 .. 1
           /\ CurrentFd \in Fds \cup {-1}
  <1>1. Current \in 0 .. 1 /\ m_next \in 0 .. 1 BY DEF FilesTyped, Current, m_next
  <1> QED BY <1>1 DEF FilesTyped, CurrentFd

\* prt's frame.
LEMMA FrameType ==
    ASSUME BoundsTyped, NEW by \in {"pulld"} \cup Handlers
    PROVE  /\ Frame(by, "time", "cut") \in Frames
           /\ Frame(by, "time", "cut").by = by
           /\ Frame(by, "time", "cut").pc = "time"
  <1>1. now \in 0 .. MaxDay /\ MaxDay \in Nat BY LogAssumption DEF BoundsTyped
  <1> QED BY <1>1 DEF Frame, Frames

-------------------------------------------------------------------------------
(* Type correctness *)

\* What a step that moves the top frame on needs.
LEMMA Moved ==
    ASSUME StackTyped, stack # <<>>, NEW f \in Frames, f.by = Top.by, SetTop(f)
    PROVE  StackTyped'
  BY SetTopStack

\* prt's own steps.
LEMMA PrtType ==
    ASSUME LogTypeOK,
           \/ PrtLocaltime \/ PrtLocaltimeReturns
           \/ PrtFd \/ PrtCut \/ PrtArgument \/ PrtWrite
    PROVE  LogTypeOK'
  <1>1. StackTyped /\ FilesTyped /\ BoundsTyped BY TypeParts
  <1>2. stack # <<>>
    BY DEF PrtLocaltime, PrtLocaltimeReturns, PrtFd, PrtCut, PrtArgument, PrtWrite, At
  <1>3. Top \in Frames BY <1>1, <1>2, TopIs
  <1>4. CASE PrtFd
    <2> DEFINE f == [Top EXCEPT !.pc = IF m_fd[Current] = -1 THEN "cas" ELSE "cut",
                                !.then = "cut"]
    <2>1. SetTop(f) BY <1>4 DEF PrtFd
    <2>2. f \in Frames /\ f.by = Top.by BY <1>3 DEF Frames
    <2>3. StackTyped' BY <1>1, <1>2, <2>1, <2>2, Moved
    <2>4. FilesTyped' /\ BoundsTyped' BY <1>1, <1>4 DEF PrtFd, FilesTyped, BoundsTyped
    <2> QED BY <2>3, <2>4, TypePartsNext
  <1>5. CASE PrtCut
    <2> DEFINE f == [Top EXCEPT !.pc = IF Cut(Top.stamp) THEN "cas" ELSE "write",
                                !.then = "write"]
    <2>1. SetTop(f) BY <1>5 DEF PrtCut
    <2>2. f \in Frames /\ f.by = Top.by BY <1>3 DEF Frames
    <2>3. StackTyped' BY <1>1, <1>2, <2>1, <2>2, Moved
    <2>4. FilesTyped' /\ BoundsTyped' BY <1>1, <1>5 DEF PrtCut, FilesTyped, BoundsTyped
    <2> QED BY <2>3, <2>4, TypePartsNext
  <1>6. CASE PrtArgument
    <2> DEFINE f == [Top EXCEPT !.pc = "put", !.fd = CurrentFd]
    <2>1. SetTop(f) BY <1>6 DEF PrtArgument
    <2>2. f \in Frames /\ f.by = Top.by BY <1>1, <1>3, SlotsOfFiles DEF Frames
    <2>3. StackTyped' BY <1>1, <1>2, <2>1, <2>2, Moved
    <2>4. FilesTyped' /\ BoundsTyped'
      BY <1>1, <1>6 DEF PrtArgument, FilesTyped, BoundsTyped
    <2> QED BY <2>3, <2>4, TypePartsNext
  <1>7. CASE PrtWrite
    <2>1. StackTyped' BY <1>1, <1>2, <1>7, ReturnStack DEF PrtWrite
    <2>2. FilesTyped' /\ BoundsTyped' BY <1>1, <1>7 DEF PrtWrite, FilesTyped, BoundsTyped
    <2> QED BY <2>1, <2>2, TypePartsNext
  <1>8. CASE PrtLocaltime \/ PrtLocaltimeReturns
    <2>1. PICK pc \in {"clock", "fd"} : To(pc) BY <1>8 DEF PrtLocaltime, PrtLocaltimeReturns
    <2> DEFINE f == [Top EXCEPT !.pc = pc]
    <2>2. f \in Frames /\ f.by = Top.by BY <1>3 DEF Frames
    <2>3. StackTyped' BY <1>1, <1>2, <2>1, <2>2, Moved DEF To
    <2>4. FilesTyped' /\ BoundsTyped'
      BY <1>1, <1>8 DEF PrtLocaltime, PrtLocaltimeReturns, FilesTyped, BoundsTyped
    <2> QED BY <2>3, <2>4, TypePartsNext
  <1> QED BY <1>4, <1>5, <1>6, <1>7, <1>8

\* new_file returns to prt, or ends the call.
LEMMA ReturnToPrtType ==
    ASSUME StackTyped, BoundsTyped, stack # <<>>, NEW retry \in BOOLEAN, ReturnToPrt(retry)
    PROVE  StackTyped'
  <1>1. CASE Top.then = "return" BY <1>1, ReturnStack DEF ReturnToPrt
  <1>2. CASE Top.then # "return"
    <2> DEFINE f == [Top EXCEPT !.pc = Top.then, !.opening = 0, !.retried = @ \/ retry]
    <2>1. SetTop(f) BY <1>2 DEF ReturnToPrt
    <2>2. Top \in Frames /\ 0 \in 0 .. MaxDay BY TopIs, LogAssumption
    <2>3. Top.then \in {"cut", "write"} /\ (Top.retried \/ retry) \in BOOLEAN
      BY <1>2, <2>2 DEF Frames
    <2>4. f \in Frames /\ f.by = Top.by BY <2>2, <2>3 DEF Frames
    <2> QED BY <2>1, <2>4, Moved
  <1> QED BY <1>1, <1>2

\* new_file's steps.
LEMMA NewFileType ==
    ASSUME LogTypeOK,
           \/ NewFileCas \/ NewFileLocaltime \/ NewFileLocaltimeReturns
           \/ NewFileClose \/ NewFileOpen
           \/ NewFileFails \/ NewFilePublish \/ NewFileRelease
    PROVE  LogTypeOK'
  <1>1. StackTyped /\ FilesTyped /\ BoundsTyped BY TypeParts
  <1>2. stack # <<>>
    BY DEF NewFileCas, NewFileLocaltime, NewFileLocaltimeReturns, NewFileClose,
           NewFileOpen, NewFileFails, NewFilePublish, NewFileRelease, At
  <1>3. Top \in Frames /\ m_next \in 0 .. 1 BY <1>1, <1>2, TopIs, SlotsOfFiles
  <1>4. ASSUME NEW pc \in {"opentime", "close", "open", "publish", "release"}, To(pc)
        PROVE  StackTyped'
    <2> DEFINE f == [Top EXCEPT !.pc = pc]
    <2>1. f \in Frames /\ f.by = Top.by BY <1>3 DEF Frames
    <2> QED BY <1>1, <1>2, <1>4, <2>1, Moved DEF To
  <1>5. CASE NewFileCas
    <2>1. StackTyped' BY <1>1, <1>2, <1>4, <1>5, ReturnToPrtType DEF NewFileCas, BusyOrRetry
    <2>2. m_busy' \in BOOLEAN BY <1>1, <1>5 DEF NewFileCas, BusyOrRetry, FilesTyped
    <2>3. FilesTyped' /\ BoundsTyped'
      BY <1>1, <1>5, <2>2 DEF NewFileCas, FilesTyped, BoundsTyped
    <2> QED BY <2>1, <2>3, TypePartsNext
  <1>6. CASE NewFileClose
    <2>1. StackTyped' BY <1>4, <1>6 DEF NewFileClose
    <2>2. FilesTyped' /\ BoundsTyped'
      BY <1>1, <1>6 DEF NewFileClose, NextClosed, FilesTyped, BoundsTyped
    <2> QED BY <2>1, <2>2, TypePartsNext
  <1>7. CASE NewFileOpen
    <2>1. StackTyped' BY <1>4, <1>7 DEF NewFileOpen
    <2>2. Top.opening \in 0 .. MaxDay BY <1>3 DEF Frames
    <2>3. FilesTyped' BY <1>1, <1>3, <1>7, <2>2 DEF NewFileOpen, FilesTyped
    <2>4. BoundsTyped' BY <1>1, <1>7 DEF NewFileOpen, BoundsTyped
    <2> QED BY <2>1, <2>3, <2>4, TypePartsNext
  <1>8. CASE NewFileFails
    <2>1. StackTyped' BY <1>1, <1>2, <1>8, ReturnStack DEF NewFileFails
    <2>2. FilesTyped' BY <1>1, <1>3, <1>8 DEF NewFileFails, FilesTyped
    <2>3. BoundsTyped' BY <1>1, <1>8, LogAssumption DEF NewFileFails, BoundsTyped
    <2> QED BY <2>1, <2>2, <2>3, TypePartsNext
  <1>9. CASE NewFilePublish
    <2>1. StackTyped' BY <1>4, <1>9 DEF NewFilePublish
    <2>2. FilesTyped' /\ BoundsTyped'
      BY <1>1, <1>9 DEF NewFilePublish, FilesTyped, BoundsTyped
    <2> QED BY <2>1, <2>2, TypePartsNext
  <1>10. CASE NewFileRelease
    <2>1. StackTyped' BY <1>1, <1>2, <1>10, ReturnToPrtType DEF NewFileRelease
    <2>2. FilesTyped' /\ BoundsTyped'
      BY <1>1, <1>10 DEF NewFileRelease, FilesTyped, BoundsTyped
    <2> QED BY <2>1, <2>2, TypePartsNext
  <1>11. CASE NewFileLocaltime
    <2> DEFINE f == [Top EXCEPT !.pc = "openclock", !.opening = now]
    <2>1. SetTop(f) BY <1>11 DEF NewFileLocaltime
    <2>2. f \in Frames /\ f.by = Top.by BY <1>1, <1>3 DEF Frames, BoundsTyped
    <2>3. StackTyped' BY <1>1, <1>2, <2>1, <2>2, Moved
    <2>4. FilesTyped' /\ BoundsTyped'
      BY <1>1, <1>11 DEF NewFileLocaltime, FilesTyped, BoundsTyped
    <2> QED BY <2>3, <2>4, TypePartsNext
  <1>12. CASE NewFileLocaltimeReturns
    <2>1. StackTyped' BY <1>4, <1>12 DEF NewFileLocaltimeReturns
    <2>2. FilesTyped' /\ BoundsTyped'
      BY <1>1, <1>12 DEF NewFileLocaltimeReturns, FilesTyped, BoundsTyped
    <2> QED BY <2>1, <2>2, TypePartsNext
  <1> QED BY <1>5, <1>6, <1>7, <1>8, <1>9, <1>10, <1>11, <1>12

\* A call begins, of pulld or of a handler.
LEMMA PrtBegins ==
    ASSUME StackTyped, BoundsTyped, Prt
    PROVE  \E f \in Frames : /\ stack' = Append(stack, f) /\ f.pc = "time"
                             /\ \A i \in DOMAIN stack : stack[i].by # f.by
  <1> DEFINE f == Frame("pulld", "time", "cut")
  <1>1. stack = <<>> /\ stack' = <<f>> BY DEF Prt
  <1>2. f \in Frames /\ f.pc = "time" BY FrameType
  <1>3. stack' = Append(stack, f) /\ DOMAIN stack = {} BY <1>1
  <1> QED BY <1>2, <1>3

LEMMA SignalBegins ==
    ASSUME StackTyped, BoundsTyped, Signal
    PROVE  \E f \in Frames : /\ stack' = Append(stack, f) /\ f.pc = "time"
                             /\ \A i \in DOMAIN stack : stack[i].by # f.by
  <1>1. PICK signo \in Handlers :
            ~Blocked(signo) /\ stack' = Append(stack, Frame(signo, "time", "cut"))
    BY DEF Signal
  <1> DEFINE f == Frame(signo, "time", "cut")
  <1>2. f \in Frames /\ f.pc = "time" /\ f.by = signo BY FrameType
  <1>3. \A i \in DOMAIN stack : stack[i].by # f.by BY <1>1, <1>2 DEF Blocked
  <1> QED BY <1>1, <1>2, <1>3

LEMMA BeginType ==
    ASSUME LogTypeOK, Prt \/ Signal
    PROVE  LogTypeOK'
  <1>1. StackTyped /\ FilesTyped /\ BoundsTyped BY TypeParts
  <1>2. PICK f \in Frames : /\ stack' = Append(stack, f)
                            /\ \A i \in DOMAIN stack : stack[i].by # f.by
    BY <1>1, PrtBegins, SignalBegins
  <1>3. StackTyped' BY <1>1, <1>2, PushStack
  <1>4. FilesTyped' BY <1>1 DEF Prt, Signal, FilesTyped
  <1>5. BoundsTyped' BY <1>1, LogAssumption DEF Prt, Signal, BoundsTyped
  <1> QED BY <1>3, <1>4, <1>5, TypePartsNext

\* What pulld's loop does to the log: nothing, while a call is on the stack; else it may
\* open something of its own under a free number, or close whatever has a number.
LogMoves == LogStep \/ Prt \/ Signal \/ Tick
OpensForeign(fd) == opened[fd] = NoFile /\ opened' = [opened EXCEPT ![fd] = Foreign]
ClosesNumber(fd) == opened' = [e \in Fds |-> IF e = fd THEN NoFile ELSE opened[e]]
LoopMoves ==
    /\ stack = <<>>
    /\ UNCHANGED <<now, m_pos, m_fd, m_cur_filetime, m_busy, stack, written, lost, signals>>
    /\ faults' = faults \/ (faults > 0 /\ faults' = faults - 1)
    /\ \/ UNCHANGED <<opened, mistaken>>
       \/ \E fd \in Fds : OpensForeign(fd) /\ UNCHANGED mistaken
       \/ \E fd : /\ ClosesNumber(fd)
                  /\ mistaken' = (mistaken \/ \E e \in Fds : e = fd /\ IsLogFile(opened[e]))

LEMMA NextCases ==
    ASSUME [PulldLogNext]_pvars
    PROVE  \/ LogMoves /\ UNCHANGED mistaken
           \/ LoopMoves
           \/ UNCHANGED <<lvars, mistaken>>
  <1>1. CASE UNCHANGED pvars BY <1>1 DEF pvars, loopVars
  <1>2. CASE LoopLogs
    <2>1. ASSUME NEW from, NEW to, Says(from, to) PROVE LogMoves /\ UNCHANGED mistaken
      BY <2>1 DEF Says, LogMoves
    <2> QED BY <1>2, <2>1 DEF LoopLogs, Daemon, Exit, Gone, Answer, Run
  <1>3. CASE LoopStep
    <2>1. LogUntouched BY <1>3 DEF LoopStep, EnterLoop, OpenPidFile, OpenPidFileFails,
          ClosePidFile, CloseAgain, Connect, Disconnect, Wake
    <2>2. ASSUME NEW fd \in Fds, OpenForeign(fd) PROVE OpensForeign(fd)
      BY <2>2 DEF OpenForeign, LowestFree, OpensForeign
    <2>3. ASSUME NEW fd, CloseNumber(fd)
          PROVE  /\ ClosesNumber(fd)
                 /\ mistaken' = (mistaken \/ \E e \in Fds : e = fd /\ IsLogFile(opened[e]))
      BY <2>3 DEF CloseNumber, ClosesNumber
    <2>4. \/ UNCHANGED <<opened, mistaken>>
          \/ \E fd \in Fds : OpensForeign(fd) /\ UNCHANGED mistaken
          \/ \E fd : /\ ClosesNumber(fd)
                     /\ mistaken' = (mistaken \/ \E e \in Fds : e = fd /\ IsLogFile(opened[e]))
      <3>1. CASE EnterLoop \/ OpenPidFileFails \/ Wake
        BY <3>1 DEF EnterLoop, OpenPidFileFails, Wake
      <3>2. CASE OpenPidFile BY <2>2, <3>2 DEF OpenPidFile
      <3>3. CASE Connect BY <2>2, <3>3 DEF Connect
      <3>4. CASE ClosePidFile BY <2>3, <3>4 DEF ClosePidFile
      <3>5. CASE CloseAgain BY <2>3, <3>5 DEF CloseAgain
      <3>6. CASE Disconnect BY <2>3, <3>6 DEF Disconnect
      <3> QED BY <1>3, <3>1, <3>2, <3>3, <3>4, <3>5, <3>6 DEF LoopStep
    <2>5. faults' = faults \/ (faults > 0 /\ faults' = faults - 1)
      <3>1. CASE OpenPidFileFails BY <3>1 DEF OpenPidFileFails
      <3>2. CASE ~OpenPidFileFails
        BY <1>3, <3>2 DEF LoopStep, EnterLoop, OpenPidFile,
           ClosePidFile, CloseAgain, Connect, Disconnect, Wake
      <3> QED BY <3>1, <3>2
    <2> QED BY <2>1, <2>4, <2>5 DEF LoopMoves, LogUntouched, filesVars
  <1>4. CASE SigTerminal BY <1>4 DEF SigTerminal, LogMoves
  <1>5. CASE LogStep /\ UNCHANGED loopVars BY <1>5 DEF LogMoves, loopVars
  <1>6. CASE Tick /\ UNCHANGED loopVars BY <1>6 DEF LogMoves, loopVars
  <1> QED BY <1>1, <1>2, <1>3, <1>4, <1>5, <1>6 DEF PulldLogNext

LEMMA LoopType ==
    ASSUME LogTypeOK, LoopMoves
    PROVE  LogTypeOK'
  <1>1. StackTyped /\ FilesTyped /\ BoundsTyped BY TypeParts
  <1>2. StackTyped' BY <1>1 DEF LoopMoves, StackTyped
  <1>3. opened' \in [Fds -> 0 .. MaxDay \cup {NoFile, Foreign}]
    BY <1>1 DEF LoopMoves, OpensForeign, ClosesNumber, FilesTyped
  <1>4. FilesTyped' BY <1>1, <1>3 DEF LoopMoves, FilesTyped
  <1>5. BoundsTyped' BY <1>1, LogAssumption DEF LoopMoves, BoundsTyped
  <1> QED BY <1>2, <1>4, <1>5, TypePartsNext

LEMMA NextLogType == LogTypeOK /\ [PulldLogNext]_pvars => LogTypeOK'
  <1> SUFFICES ASSUME LogTypeOK, [PulldLogNext]_pvars PROVE LogTypeOK'
    OBVIOUS
  <1>1. CASE Tick BY <1>1, LogAssumption DEF Tick, LogTypeOK
  <1>2. CASE UNCHANGED lvars BY <1>2 DEF lvars, LogTypeOK
  <1>3. CASE LoopMoves BY <1>3, LoopType
  <1>4. CASE LogStep BY <1>4, PrtType, NewFileType DEF LogStep
  <1> QED BY <1>1, <1>2, <1>3, <1>4, BeginType, NextCases DEF LogMoves

LEMMA InitLogType == LogInit => LogTypeOK
  <1> SUFFICES ASSUME LogInit PROVE LogTypeOK
    OBVIOUS
  <1>1. {0, MaxDay, Signals, OpenFaults} \subseteq Nat BY LogAssumption
  <1>2. Frame("pulld", "cas", "return") \in Frames BY <1>1 DEF LogInit, Frame, Frames
  <1>3. StackTyped BY <1>2 DEF LogInit, StackTyped
  <1>4. FilesTyped BY <1>1 DEF LogInit, FilesTyped, Fds
  <1>5. BoundsTyped BY <1>1 DEF LogInit, BoundsTyped
  <1> QED BY <1>3, <1>4, <1>5, TypeParts

\* The loop's own variables.
LoopTyped ==
    /\ loop \in LoopPcs /\ is_running \in BOOLEAN /\ mistaken \in BOOLEAN
    /\ pid_fd \in Fds \cup {-1} /\ connection \in Fds \cup {-1}
    /\ roundPos \in Nat \cup {-1} /\ rounds \in 0 .. MaxRounds

LEMMA SaysType ==
    ASSUME LoopTyped, NEW from, NEW to \in LoopPcs, Says(from, to)
    PROVE  LoopTyped'
  BY DEF Says, LoopTyped

LEMMA NextLoopType ==
    ASSUME LogTypeOK, LoopTyped, [PulldLogNext]_pvars
    PROVE  LoopTyped'
  <1>1. CASE UNCHANGED loopVars BY <1>1 DEF loopVars, LoopTyped
  <1>2. CASE LoopLogs
    <2>1. {"enter", "done", "ask", "find", "remove", "close3", "delete", "sleep"} \subseteq LoopPcs
      BY DEF LoopPcs
    <2> QED BY <1>2, <2>1, SaysType DEF LoopLogs, Daemon, Exit, Gone, Answer, Run
  <1>3. CASE EnterLoop \/ OpenPidFileFails BY <1>3 DEF EnterLoop, OpenPidFileFails, LoopTyped, LoopPcs
  <1>4. CASE OpenPidFile BY <1>4 DEF OpenPidFile, LoopTyped, LoopPcs, LogTypeOK
  <1>5. CASE ClosePidFile BY <1>5 DEF ClosePidFile, CloseNumber, LoopTyped, LoopPcs
  <1>6. CASE CloseAgain BY <1>6 DEF CloseAgain, CloseNumber, LoopTyped, LoopPcs
  <1>7. CASE Connect BY <1>7 DEF Connect, LoopTyped, LoopPcs
  <1>8. CASE Disconnect BY <1>8 DEF Disconnect, CloseNumber, LoopTyped, LoopPcs
  <1>9. CASE Wake BY <1>9, RoundsAssumption DEF Wake, LoopTyped, LoopPcs
  <1>10. CASE SigTerminal BY <1>10 DEF SigTerminal, LoopTyped
  <1> QED BY <1>1, <1>2, <1>3, <1>4, <1>5, <1>6, <1>7, <1>8, <1>9, <1>10
      DEF PulldLogNext, LoopStep, pvars

\* The log and the loop keep their types: at most one call of pulld and of each handler
\* is on the stack, and the descriptors are descriptors or -1.
THEOREM LogTypeCorrect == PulldLogSpec => []PulldLogTypeOK
  <1>1. PulldLogTypeOK <=> LogTypeOK /\ LoopTyped BY DEF PulldLogTypeOK, LoopTyped
  <1>2. PulldLogInit => LogTypeOK /\ LoopTyped
    <2>1. MaxRounds \in 0 .. MaxRounds /\ -1 \in Fds \cup {-1} /\ -1 \in Nat \cup {-1}
      BY RoundsAssumption
    <2>2. "daemon" \in LoopPcs BY DEF LoopPcs
    <2>3. PulldLogInit => LoopTyped BY <2>1, <2>2 DEF PulldLogInit, LoopTyped
    <2> QED BY <2>3, InitLogType DEF PulldLogInit
  <1>3. LogTypeOK /\ LoopTyped /\ [PulldLogNext]_pvars => (LogTypeOK /\ LoopTyped)'
    BY NextLogType, NextLoopType
  <1> QED BY <1>1, <1>2, <1>3, PTL DEF PulldLogSpec

-------------------------------------------------------------------------------
(* No descriptor is lost *)

\* Inside new_file, between the CAS and the release of m_busy.
Inside == {"opentime", "openclock", "close", "open", "publish", "release"}

\* The steps that leave the descriptors alone, and those of new_file that do not.
QuietStep ==
    \/ PrtLocaltime \/ PrtLocaltimeReturns \/ PrtFd \/ PrtCut \/ PrtArgument \/ PrtWrite
    \/ NewFileCas \/ NewFileLocaltime \/ NewFileLocaltimeReturns \/ NewFileRelease
FileStep == NewFileClose \/ NewFileOpen \/ NewFileFails \/ NewFilePublish

\* NoDescriptorLost is not inductive: the descriptor that open is about to replace
\* must be closed by then, and stay so, which needs that nobody else is inside.
OneInside ==
    \A i \in DOMAIN stack : stack[i].pc \in Inside =>
        m_busy /\ \A j \in DOMAIN stack : stack[j].pc \in Inside => j = i

ClosedBeforeOpen ==
    \A i \in DOMAIN stack : stack[i].pc = "open" =>
        \A fd \in Fds : fd = m_fd[m_next] => ~IsLogFile(opened[fd])

LogInv == LogTypeOK /\ OneInside /\ ClosedBeforeOpen /\ NoDescriptorLost

FilesKept == UNCHANGED <<m_pos, m_fd, opened>>

LEMMA FilesKeptLost ==
    ASSUME LogInv, FilesKept
    PROVE  NoDescriptorLost'
  BY DEF LogInv, FilesKept, NoDescriptorLost

\* A step that moves the top frame on and does not enter new_file, close or open.
LEMMA MovedKeeps ==
    ASSUME LogInv, stack # <<>>, FilesKept, UNCHANGED m_busy,
           NEW f \in Frames, f.by = Top.by, SetTop(f),
           f.pc \in Inside => Top.pc \in Inside, f.pc # "open"
    PROVE  OneInside' /\ ClosedBeforeOpen' /\ NoDescriptorLost'
  <1>1. StackTyped BY TypeParts DEF LogInv
  <1>2. /\ DOMAIN stack' = DOMAIN stack /\ Depth \in DOMAIN stack
        /\ stack'[Depth] = f
        /\ \A i \in DOMAIN stack : i # Depth => stack'[i] = stack[i]
    BY <1>1, SetTopStack, TopIs
  <1>3. \A i \in DOMAIN stack : stack'[i].pc \in Inside => stack[i].pc \in Inside
    BY <1>2 DEF Top
  <1>4. OneInside' BY <1>2, <1>3 DEF LogInv, OneInside
  <1>5. \A i \in DOMAIN stack : stack'[i].pc = "open" => stack[i].pc = "open" BY <1>2
  <1>6. ClosedBeforeOpen' BY <1>2, <1>5 DEF LogInv, ClosedBeforeOpen, FilesKept, m_next
  <1> QED BY <1>4, <1>6, FilesKeptLost

\* A call that ends outside new_file.
LEMMA ReturnKeeps ==
    ASSUME LogInv, stack # <<>>, FilesKept, UNCHANGED m_busy, Return
    PROVE  OneInside' /\ ClosedBeforeOpen' /\ NoDescriptorLost'
  <1>1. StackTyped BY TypeParts DEF LogInv
  <1>2. /\ DOMAIN stack' \subseteq DOMAIN stack
        /\ \A i \in DOMAIN stack' : stack'[i] = stack[i]
    BY <1>1, ReturnStack
  <1>3. OneInside' BY <1>2 DEF LogInv, OneInside
  <1>4. ClosedBeforeOpen' BY <1>2 DEF LogInv, ClosedBeforeOpen, FilesKept, m_next
  <1> QED BY <1>3, <1>4, FilesKeptLost

\* When the call inside new_file leaves it, nobody is inside.
LEMMA LeaveEmpties ==
    ASSUME LogInv, stack # <<>>, Top.pc \in Inside,
           NEW j \in DOMAIN stack, j # Depth
    PROVE  stack[j].pc \notin Inside
  <1>1. StackTyped BY TypeParts DEF LogInv
  <1> QED BY <1>1, TopIs DEF LogInv, OneInside, Top

\* new_file returns to prt.
LEMMA ReturnToPrtStack ==
    ASSUME LogInv, stack # <<>>, NEW retry \in BOOLEAN, ReturnToPrt(retry)
    PROVE  /\ DOMAIN stack' \subseteq DOMAIN stack
           /\ \A i \in DOMAIN stack' : i # Depth => stack'[i] = stack[i]
           /\ Depth \in DOMAIN stack' => stack'[Depth].pc \notin Inside
  <1>1. StackTyped BY TypeParts DEF LogInv
  <1>2. CASE Top.then = "return"
    <2>1. Return BY <1>2 DEF ReturnToPrt
    <2> QED BY <1>1, <2>1, ReturnStack
  <1>3. CASE Top.then # "return"
    <2> DEFINE f == [Top EXCEPT !.pc = Top.then, !.opening = 0, !.retried = @ \/ retry]
    <2>1. SetTop(f) BY <1>3 DEF ReturnToPrt
    <2>2. Top \in Frames /\ 0 \in 0 .. MaxDay BY <1>1, TopIs, LogAssumption
    <2>3. Top.then \in {"cut", "write"} /\ (Top.retried \/ retry) \in BOOLEAN
      BY <1>3, <2>2 DEF Frames
    <2>4. f \in Frames /\ f.by = Top.by /\ f.pc \notin Inside
      BY <2>2, <2>3 DEF Frames, Inside
    <2> QED BY <1>1, <2>1, <2>4, SetTopStack
  <1> QED BY <1>2, <1>3

LEMMA PrtKeeps ==
    ASSUME LogInv, \/ PrtLocaltime \/ PrtLocaltimeReturns
                   \/ PrtFd \/ PrtCut \/ PrtArgument \/ PrtWrite
    PROVE  OneInside' /\ ClosedBeforeOpen' /\ NoDescriptorLost'
  <1>1. StackTyped /\ FilesTyped BY TypeParts DEF LogInv
  <1>2. stack # <<>>
    BY DEF PrtLocaltime, PrtLocaltimeReturns, PrtFd, PrtCut, PrtArgument, PrtWrite, At
  <1>3. Top \in Frames BY <1>1, <1>2, TopIs
  <1>4. CASE PrtFd
    <2> DEFINE f == [Top EXCEPT !.pc = IF m_fd[Current] = -1 THEN "cas" ELSE "cut",
                                !.then = "cut"]
    <2>1. f \in Frames /\ f.by = Top.by /\ f.pc \in {"cas", "cut"} BY <1>3 DEF Frames
    <2>2. SetTop(f) /\ FilesKept /\ UNCHANGED m_busy BY <1>4 DEF PrtFd, FilesKept
    <2>3. f.pc \notin Inside /\ f.pc # "open" BY <2>1 DEF Inside
    <2> HIDE DEF f
    <2> QED BY <1>2, <2>1, <2>2, <2>3, MovedKeeps
  <1>5. CASE PrtCut
    <2> DEFINE f == [Top EXCEPT !.pc = IF Cut(Top.stamp) THEN "cas" ELSE "write",
                                !.then = "write"]
    <2>1. f \in Frames /\ f.by = Top.by /\ f.pc \in {"cas", "write"} BY <1>3 DEF Frames
    <2>2. SetTop(f) /\ FilesKept /\ UNCHANGED m_busy BY <1>5 DEF PrtCut, FilesKept
    <2>3. f.pc \notin Inside /\ f.pc # "open" BY <2>1 DEF Inside
    <2> HIDE DEF f
    <2> QED BY <1>2, <2>1, <2>2, <2>3, MovedKeeps
  <1>6. CASE PrtArgument
    <2> DEFINE f == [Top EXCEPT !.pc = "put", !.fd = CurrentFd]
    <2>1. f \in Frames /\ f.by = Top.by /\ f.pc = "put"
      BY <1>1, <1>3, SlotsOfFiles DEF Frames
    <2>2. SetTop(f) /\ FilesKept /\ UNCHANGED m_busy BY <1>6 DEF PrtArgument, FilesKept
    <2>3. f.pc \notin Inside /\ f.pc # "open" BY <2>1 DEF Inside
    <2> HIDE DEF f
    <2> QED BY <1>2, <2>1, <2>2, <2>3, MovedKeeps
  <1>7. CASE PrtWrite
    <2>1. Return /\ FilesKept /\ UNCHANGED m_busy BY <1>7 DEF PrtWrite, FilesKept
    <2> QED BY <1>2, <2>1, ReturnKeeps
  <1>8. CASE PrtLocaltime \/ PrtLocaltimeReturns
    <2>1. PICK pc \in {"clock", "fd"} : To(pc) BY <1>8 DEF PrtLocaltime, PrtLocaltimeReturns
    <2> DEFINE f == [Top EXCEPT !.pc = pc]
    <2>2. f \in Frames /\ f.by = Top.by /\ f.pc = pc BY <1>3 DEF Frames
    <2>3. SetTop(f) /\ FilesKept /\ UNCHANGED m_busy
      BY <1>8, <2>1 DEF To, PrtLocaltime, PrtLocaltimeReturns, FilesKept
    <2>4. f.pc \notin Inside /\ f.pc # "open" BY <2>2 DEF Inside
    <2> HIDE DEF f
    <2> QED BY <1>2, <2>2, <2>3, <2>4, MovedKeeps
  <1> QED BY <1>4, <1>5, <1>6, <1>7, <1>8

\* new_file reads the time: still inside.
LEMMA LocaltimeKeeps ==
    ASSUME LogInv, NewFileLocaltime \/ NewFileLocaltimeReturns
    PROVE  OneInside' /\ ClosedBeforeOpen' /\ NoDescriptorLost'
  <1>1. StackTyped /\ BoundsTyped BY TypeParts DEF LogInv
  <1>2. stack # <<>> /\ Top.pc \in Inside
    BY DEF NewFileLocaltime, NewFileLocaltimeReturns, At, Inside
  <1>3. Top \in Frames BY <1>1, <1>2, TopIs
  <1>4. PICK f \in Frames : SetTop(f) /\ f.by = Top.by /\ f.pc \in {"openclock", "close"}
    <2>1. CASE NewFileLocaltime
      <3> DEFINE f == [Top EXCEPT !.pc = "openclock", !.opening = now]
      <3>1. f \in Frames /\ f.by = Top.by /\ f.pc = "openclock"
        BY <1>1, <1>3 DEF Frames, BoundsTyped
      <3>2. SetTop(f) BY <2>1 DEF NewFileLocaltime
      <3> HIDE DEF f
      <3> QED BY <3>1, <3>2
    <2>2. CASE NewFileLocaltimeReturns
      <3> DEFINE f == [Top EXCEPT !.pc = "close"]
      <3>1. f \in Frames /\ f.by = Top.by /\ f.pc = "close" BY <1>3 DEF Frames
      <3>2. SetTop(f) BY <2>2 DEF NewFileLocaltimeReturns, To
      <3> HIDE DEF f
      <3> QED BY <3>1, <3>2
    <2> QED BY <2>1, <2>2
  <1>5. FilesKept /\ UNCHANGED m_busy
    BY DEF NewFileLocaltime, NewFileLocaltimeReturns, FilesKept
  <1> QED BY <1>2, <1>4, <1>5, MovedKeeps

\* A call begins: it is not inside new_file yet.
LEMMA BeginKeeps ==
    ASSUME LogInv, Prt \/ Signal
    PROVE  OneInside' /\ ClosedBeforeOpen' /\ NoDescriptorLost'
  <1>1. StackTyped /\ BoundsTyped BY TypeParts DEF LogInv
  <1>2. PICK f \in Frames : /\ stack' = Append(stack, f) /\ f.pc = "time"
                            /\ \A i \in DOMAIN stack : stack[i].by # f.by
    BY <1>1, PrtBegins, SignalBegins
  <1>3. /\ DOMAIN stack' = DOMAIN stack \cup {Depth + 1}
        /\ stack'[Depth + 1].pc = "time"
        /\ \A i \in DOMAIN stack : stack'[i] = stack[i]
    BY <1>1, <1>2, PushStack
  <1>4. FilesKept /\ UNCHANGED m_busy BY DEF Prt, Signal, FilesKept
  <1>5. \A i \in DOMAIN stack' : stack'[i].pc \in Inside =>
            i \in DOMAIN stack /\ stack'[i] = stack[i]
    BY <1>3 DEF Inside
  <1>6. OneInside' BY <1>4, <1>5 DEF LogInv, OneInside
  <1>7. \A i \in DOMAIN stack' : stack'[i].pc = "open" =>
            i \in DOMAIN stack /\ stack'[i] = stack[i]
    BY <1>3
  <1>8. ClosedBeforeOpen' BY <1>4, <1>7 DEF LogInv, ClosedBeforeOpen, FilesKept, m_next
  <1> QED BY <1>4, <1>6, <1>8, FilesKeptLost

\* The steps inside new_file move their own frame, and nobody else is inside.
LEMMA InsideMoves ==
    ASSUME LogInv, stack # <<>>, NEW f \in Frames, f.by = Top.by, SetTop(f),
           \A j \in DOMAIN stack : j # Depth => stack[j].pc \notin Inside,
           f.pc \in Inside, m_busy'
    PROVE  /\ OneInside'
           /\ \A i \in DOMAIN stack' : stack'[i].pc = "open" => f.pc = "open"
  <1>1. StackTyped BY TypeParts DEF LogInv
  <1>2. /\ DOMAIN stack' = DOMAIN stack /\ Depth \in DOMAIN stack
        /\ stack'[Depth] = f
        /\ \A i \in DOMAIN stack : i # Depth => stack'[i] = stack[i]
    BY <1>1, SetTopStack, TopIs
  <1>3. \A i \in DOMAIN stack : stack'[i].pc \in Inside => i = Depth BY <1>2
  <1>4. OneInside' BY <1>2, <1>3 DEF OneInside
  <1>5. "open" \in Inside BY DEF Inside
  <1> QED BY <1>2, <1>3, <1>4, <1>5

\* The CAS succeeds only when nobody is inside; otherwise prt goes on.
LEMMA CasKeeps ==
    ASSUME LogInv, NewFileCas
    PROVE  OneInside' /\ ClosedBeforeOpen' /\ NoDescriptorLost'
  <1>1. StackTyped /\ FilesTyped BY TypeParts DEF LogInv
  <1>2. stack # <<>> /\ FilesKept BY DEF NewFileCas, At, FilesKept
  <1>3. Top \in Frames BY <1>1, <1>2, TopIs
  <1>4. CASE ~m_busy /\ m_busy' = TRUE /\ To("opentime")
    <2> DEFINE f == [Top EXCEPT !.pc = "opentime"]
    <2>1. f \in Frames /\ f.by = Top.by /\ f.pc = "opentime" BY <1>3 DEF Frames
    <2>2. SetTop(f) BY <1>4 DEF To
    <2>3. f.pc \in Inside BY <2>1 DEF Inside
    <2>4. \A j \in DOMAIN stack : stack[j].pc \notin Inside
      BY <1>4 DEF LogInv, OneInside
    <2> HIDE DEF f
    <2>5. OneInside' /\ \A i \in DOMAIN stack' : stack'[i].pc # "open"
      BY <1>2, <1>4, <2>1, <2>2, <2>3, <2>4, InsideMoves
    <2> QED BY <1>2, <2>5, FilesKeptLost DEF ClosedBeforeOpen
  <1>5. CASE m_busy /\ UNCHANGED m_busy /\ ReturnToPrt(TRUE)
    <2>1. /\ DOMAIN stack' \subseteq DOMAIN stack
          /\ \A i \in DOMAIN stack' : i # Depth => stack'[i] = stack[i]
          /\ Depth \in DOMAIN stack' => stack'[Depth].pc \notin Inside
      BY <1>2, <1>5, ReturnToPrtStack
    <2>2. \A i \in DOMAIN stack' : stack'[i].pc \in Inside => stack'[i] = stack[i]
      BY <2>1
    <2>3. OneInside' BY <1>5, <2>1, <2>2 DEF LogInv, OneInside
    <2>4. \A i \in DOMAIN stack' : stack'[i].pc = "open" => stack'[i] = stack[i]
      BY <2>2 DEF Inside
    <2>5. ClosedBeforeOpen'
      BY <1>2, <2>1, <2>4 DEF LogInv, ClosedBeforeOpen, FilesKept, m_next
    <2> QED BY <1>2, <2>3, <2>5, FilesKeptLost
  <1> QED BY <1>4, <1>5 DEF NewFileCas, BusyOrRetry

LEMMA CloseKeeps ==
    ASSUME LogInv, NewFileClose
    PROVE  OneInside' /\ ClosedBeforeOpen' /\ NoDescriptorLost'
  <1> DEFINE f == [Top EXCEPT !.pc = "open"]
  <1>1. StackTyped /\ FilesTyped /\ BoundsTyped BY TypeParts DEF LogInv
  <1>2. stack # <<>> /\ Top.pc = "close" BY DEF NewFileClose, At
  <1>3. Top \in Frames /\ Depth \in DOMAIN stack BY <1>1, <1>2, TopIs
  <1>4. f \in Frames /\ f.by = Top.by /\ f.pc = "open"
    BY <1>3 DEF Frames
  <1>5. SetTop(f) /\ UNCHANGED <<m_pos, m_fd, m_busy>> BY DEF NewFileClose, To
  <1>6. f.pc \in Inside /\ Top.pc \in Inside BY <1>2, <1>4 DEF Inside
  <1>7. m_busy' BY <1>3, <1>5, <1>6 DEF LogInv, OneInside, Top
  <1>8. OneInside'
    <2> HIDE DEF f
    <2> QED BY <1>2, <1>4, <1>5, <1>6, <1>7, LeaveEmpties, InsideMoves
  <1>9. opened' = [fd \in Fds |-> IF fd = m_fd[m_next] THEN NoFile ELSE opened[fd]]
    BY DEF NewFileClose, NextClosed
  <1>10. ClosedBeforeOpen' BY <1>5, <1>9 DEF ClosedBeforeOpen, m_next, IsLogFile, NoFile
  <1>11. \A fd \in Fds : IsLogFile(opened'[fd]) => IsLogFile(opened[fd])
    BY <1>9 DEF IsLogFile, NoFile
  <1>12. NoDescriptorLost' BY <1>5, <1>11 DEF LogInv, NoDescriptorLost
  <1> QED BY <1>8, <1>10, <1>12

LEMMA OpenKeeps ==
    ASSUME LogInv, NewFileOpen
    PROVE  OneInside' /\ ClosedBeforeOpen' /\ NoDescriptorLost'
  <1> DEFINE f == [Top EXCEPT !.pc = "publish"]
  <1>1. StackTyped /\ FilesTyped BY TypeParts DEF LogInv
  <1>2. stack # <<>> /\ Top.pc = "open" BY DEF NewFileOpen, At
  <1>3. Top \in Frames /\ Depth \in DOMAIN stack /\ m_next \in 0 .. 1
    BY <1>1, <1>2, TopIs, SlotsOfFiles
  <1>4. f \in Frames /\ f.by = Top.by /\ f.pc = "publish" BY <1>3 DEF Frames
  <1>5. SetTop(f) /\ UNCHANGED m_busy BY DEF NewFileOpen, To
  <1>6. f.pc \in Inside /\ Top.pc \in Inside BY <1>2, <1>4 DEF Inside
  <1>7. m_busy' BY <1>3, <1>5, <1>6 DEF LogInv, OneInside, Top
  <1>8. OneInside' /\ \A i \in DOMAIN stack' : stack'[i].pc # "open"
    <2> HIDE DEF f
    <2> QED BY <1>2, <1>4, <1>5, <1>6, <1>7, LeaveEmpties, InsideMoves
  <1>9. ClosedBeforeOpen' BY <1>8 DEF ClosedBeforeOpen
  <1>10. PICK new \in Fds : /\ m_fd' = [m_fd EXCEPT ![m_next] = new]
                            /\ opened' = [opened EXCEPT ![new] = Top.opening]
    BY DEF NewFileOpen
  <1>11. \A fd \in Fds : fd = m_fd[m_next] => ~IsLogFile(opened[fd])
    BY <1>2, <1>3 DEF LogInv, ClosedBeforeOpen, Top
  <1>12. m_fd \in [0 .. 1 -> Fds \cup {-1}] /\ opened \in [Fds -> 0 .. MaxDay \cup {NoFile, Foreign}]
    BY <1>1 DEF FilesTyped
  <1>13. ASSUME NEW fd \in Fds, IsLogFile(opened'[fd])
         PROVE  \E i \in 0 .. 1 : m_fd'[i] = fd
    <2>1. CASE fd = new
      <3>1. m_fd'[m_next] = fd BY <1>3, <1>10, <1>12, <2>1
      <3> QED BY <1>3, <3>1
    <2>2. CASE fd # new
      <3>1. IsLogFile(opened[fd]) BY <1>10, <1>12, <1>13, <2>2
      <3>2. PICK i \in 0 .. 1 : m_fd[i] = fd BY <3>1 DEF LogInv, NoDescriptorLost
      <3>3. i # m_next BY <1>11, <3>1, <3>2
      <3>4. m_fd'[i] = fd BY <1>10, <1>12, <3>2, <3>3
      <3> QED BY <3>4
    <2> QED BY <2>1, <2>2
  <1>14. NoDescriptorLost' BY <1>13 DEF NoDescriptorLost
  <1> QED BY <1>8, <1>9, <1>14

LEMMA FailsKeeps ==
    ASSUME LogInv, NewFileFails
    PROVE  OneInside' /\ ClosedBeforeOpen' /\ NoDescriptorLost'
  <1>1. StackTyped /\ FilesTyped BY TypeParts DEF LogInv
  <1>2. stack # <<>> /\ Top.pc = "open" /\ Return BY DEF NewFileFails, At
  <1>3. Depth \in DOMAIN stack BY <1>1, <1>2, TopIs
  <1>4. Top.pc \in Inside BY <1>2 DEF Inside
  <1>5. /\ DOMAIN stack' = DOMAIN stack \ {Depth}
        /\ \A i \in DOMAIN stack' : stack'[i] = stack[i]
    BY <1>1, <1>2, ReturnStack
  <1>6. \A i \in DOMAIN stack' : stack'[i].pc \notin Inside
    BY <1>2, <1>4, <1>5, LeaveEmpties
  <1>7. OneInside' BY <1>6 DEF OneInside
  <1>8. ClosedBeforeOpen' BY <1>6 DEF ClosedBeforeOpen, Inside
  <1>9. m_fd' = [m_fd EXCEPT ![m_next] = -1] /\ UNCHANGED opened BY DEF NewFileFails
  <1>10. \A fd \in Fds : fd = m_fd[m_next] => ~IsLogFile(opened[fd])
    BY <1>2, <1>3 DEF LogInv, ClosedBeforeOpen, Top
  <1>11. m_fd \in [0 .. 1 -> Fds \cup {-1}] BY <1>1 DEF FilesTyped
  <1>12. ASSUME NEW fd \in Fds, IsLogFile(opened'[fd])
         PROVE  \E i \in 0 .. 1 : m_fd'[i] = fd
    <2>1. PICK i \in 0 .. 1 : m_fd[i] = fd BY <1>9, <1>12 DEF LogInv, NoDescriptorLost
    <2>2. i # m_next BY <1>9, <1>10, <1>12, <2>1
    <2>3. m_fd'[i] = fd BY <1>9, <1>11, <2>1, <2>2
    <2> QED BY <2>3
  <1>13. NoDescriptorLost' BY <1>12 DEF NoDescriptorLost
  <1> QED BY <1>7, <1>8, <1>13

LEMMA PublishKeeps ==
    ASSUME LogInv, NewFilePublish
    PROVE  OneInside' /\ ClosedBeforeOpen' /\ NoDescriptorLost'
  <1> DEFINE f == [Top EXCEPT !.pc = "release"]
  <1>1. StackTyped BY TypeParts DEF LogInv
  <1>2. stack # <<>> /\ Top.pc = "publish" BY DEF NewFilePublish, At
  <1>3. Top \in Frames /\ Depth \in DOMAIN stack BY <1>1, <1>2, TopIs
  <1>4. f \in Frames /\ f.by = Top.by /\ f.pc = "release" BY <1>3 DEF Frames
  <1>5. SetTop(f) /\ UNCHANGED <<m_busy, m_fd, opened>> BY DEF NewFilePublish, To
  <1>6. f.pc \in Inside /\ Top.pc \in Inside BY <1>2, <1>4 DEF Inside
  <1>7. m_busy' BY <1>3, <1>5, <1>6 DEF LogInv, OneInside, Top
  <1>8. OneInside' /\ \A i \in DOMAIN stack' : stack'[i].pc # "open"
    <2> HIDE DEF f
    <2> QED BY <1>2, <1>4, <1>5, <1>6, <1>7, LeaveEmpties, InsideMoves
  <1>9. ClosedBeforeOpen' BY <1>8 DEF ClosedBeforeOpen
  <1>10. NoDescriptorLost' BY <1>5 DEF LogInv, NoDescriptorLost
  <1> QED BY <1>8, <1>9, <1>10

LEMMA ReleaseKeeps ==
    ASSUME LogInv, NewFileRelease
    PROVE  OneInside' /\ ClosedBeforeOpen' /\ NoDescriptorLost'
  <1>1. stack # <<>> /\ Top.pc = "release" BY DEF NewFileRelease, At
  <1>2. Top.pc \in Inside BY <1>1 DEF Inside
  <1>3. ReturnToPrt(FALSE) /\ FilesKept BY DEF NewFileRelease, FilesKept
  <1>4. /\ DOMAIN stack' \subseteq DOMAIN stack
        /\ \A i \in DOMAIN stack' : i # Depth => stack'[i] = stack[i]
        /\ Depth \in DOMAIN stack' => stack'[Depth].pc \notin Inside
    BY <1>1, <1>3, ReturnToPrtStack
  <1>5. \A i \in DOMAIN stack' : stack'[i].pc \notin Inside
    BY <1>1, <1>2, <1>4, LeaveEmpties
  <1>6. OneInside' BY <1>5 DEF OneInside
  <1>7. ClosedBeforeOpen' BY <1>5 DEF ClosedBeforeOpen, Inside
  <1> QED BY <1>3, <1>6, <1>7, FilesKeptLost

\* pulld's loop goes on only when no call is on the stack, and opens no log file.
LEMMA LoopKeeps ==
    ASSUME LogInv, LoopMoves
    PROVE  OneInside' /\ ClosedBeforeOpen' /\ NoDescriptorLost'
  <1>1. DOMAIN stack' = {} /\ UNCHANGED m_fd BY DEF LoopMoves
  <1>2. OneInside' /\ ClosedBeforeOpen' BY <1>1 DEF OneInside, ClosedBeforeOpen
  <1>3. opened \in [Fds -> 0 .. MaxDay \cup {NoFile, Foreign}] BY DEF LogInv, LogTypeOK
  <1>4. \A fd \in Fds : IsLogFile(opened'[fd]) => IsLogFile(opened[fd])
    <2>1. ASSUME NEW e \in Fds, OpensForeign(e), NEW fd \in Fds, IsLogFile(opened'[fd])
          PROVE  IsLogFile(opened[fd])
      BY <1>3, <2>1 DEF OpensForeign, IsLogFile, Foreign
    <2>2. ASSUME NEW e, ClosesNumber(e), NEW fd \in Fds, IsLogFile(opened'[fd])
          PROVE  IsLogFile(opened[fd])
      BY <2>2 DEF ClosesNumber, IsLogFile, NoFile
    <2> QED BY <2>1, <2>2 DEF LoopMoves
  <1>5. NoDescriptorLost' BY <1>1, <1>4 DEF LogInv, NoDescriptorLost
  <1> QED BY <1>2, <1>5

LEMMA NextLogInv == LogInv /\ [PulldLogNext]_pvars => LogInv'
  <1> SUFFICES ASSUME LogInv, [PulldLogNext]_pvars PROVE LogInv'
    OBVIOUS
  <1>1. LogTypeOK' BY NextLogType DEF LogInv
  <1>2. ASSUME Tick \/ UNCHANGED lvars
        PROVE  OneInside' /\ ClosedBeforeOpen' /\ NoDescriptorLost'
    <2>1. UNCHANGED <<m_pos, m_fd, m_busy, opened, stack>> BY <1>2 DEF Tick, lvars
    <2> QED BY <2>1
        DEF LogInv, OneInside, ClosedBeforeOpen, NoDescriptorLost, m_next
  <1>3. LogStep => OneInside' /\ ClosedBeforeOpen' /\ NoDescriptorLost'
    BY PrtKeeps, CasKeeps, LocaltimeKeeps, CloseKeeps, OpenKeeps, FailsKeeps,
       PublishKeeps, ReleaseKeeps DEF LogStep
  <1>4. OneInside' /\ ClosedBeforeOpen' /\ NoDescriptorLost'
    BY <1>2, <1>3, BeginKeeps, LoopKeeps, NextCases DEF LogMoves
  <1> QED BY <1>1, <1>4 DEF LogInv

LEMMA InitLogInv == PulldLogInit => LogInv
  <1> SUFFICES ASSUME PulldLogInit PROVE LogInv
    OBVIOUS
  <1>1. LogInit BY DEF PulldLogInit
  <1>2. stack = <<Frame("pulld", "cas", "return")>> BY <1>1 DEF LogInit
  <1>3. \A i \in DOMAIN stack : stack[i].pc = "cas" BY <1>2 DEF Frame
  <1>4. OneInside /\ ClosedBeforeOpen BY <1>3 DEF OneInside, ClosedBeforeOpen, Inside
  <1>5. NoDescriptorLost BY <1>1 DEF LogInit, NoDescriptorLost, IsLogFile, NoFile
  <1> QED BY <1>1, <1>4, <1>5, InitLogType DEF LogInv

\* Every log file that is open is in one of the two slots, and new_file will close it,
\* however calls interrupt each other and whatever pulld's loop closes.
THEOREM DescriptorsCorrect == PulldLogSpec => []NoDescriptorLost
  <1>1. LogInv => NoDescriptorLost BY DEF LogInv
  <1> QED BY <1>1, InitLogInv, NextLogInv, PTL DEF PulldLogSpec

-------------------------------------------------------------------------------
(* The two descriptors *)

\* The slot that is current is not the one that new_file works on.
LEMMA SlotsAlternate ==
    ASSUME FilesTyped
    PROVE  /\ Current \in 0 .. 1 /\ m_next \in 0 .. 1 /\ Current # m_next
           /\ \A k \in 0 .. 1 : k # m_next => k = Current
           /\ m_pos' = m_pos + 1 => Current' = m_next /\ m_next' = Current
           /\ m_pos' = m_pos => Current' = Current /\ m_next' = m_next
  BY DEF FilesTyped, Current, m_next

\* What a step of the call on the processor leaves of the others.
LEMMA StepOthers ==
    ASSUME StackTyped, stack # <<>>, NEW f, SetTop(f) \/ Return
    PROVE  /\ Depth \in DOMAIN stack /\ DOMAIN stack' \subseteq DOMAIN stack
           /\ \A i \in DOMAIN stack : i # Depth => i \in DOMAIN stack' /\ stack'[i] = stack[i]
           /\ SetTop(f) => DOMAIN stack' = DOMAIN stack /\ stack'[Depth] = f
           /\ Return => Depth \notin DOMAIN stack'
  <1>1. Depth \in DOMAIN stack BY TopIs
  <1>2. CASE SetTop(f)
    <2>1. DOMAIN stack' = DOMAIN stack /\ stack'[Depth] = f
      BY <1>1, <1>2 DEF SetTop
    <2>2. ~Return BY <1>1, <2>1, ReturnStack
    <2>3. \A i \in DOMAIN stack : i # Depth => stack'[i] = stack[i] BY <1>2 DEF SetTop
    <2> QED BY <1>1, <1>2, <2>1, <2>2, <2>3
  <1>3. CASE Return
    <2>1. /\ DOMAIN stack' = DOMAIN stack \ {Depth}
          /\ \A i \in DOMAIN stack' : stack'[i] = stack[i]
      BY <1>3, ReturnStack
    <2>2. ~SetTop(f) BY <1>1, <2>1 DEF SetTop
    <2> QED BY <1>1, <2>1, <2>2
  <1> QED BY <1>2, <1>3

\* Until pulld closes one of them by mistake, the two slots have different numbers, and
\* log files are open under them, unless new_file has just closed one.
SlotsDiffer == m_fd[0] = m_fd[1] => m_fd[0] = -1
SlotsOpen ==
    \A i \in 0 .. 1 : \A fd \in Fds : fd = m_fd[i] =>
        \/ IsLogFile(opened[fd])
        \/ i = m_next /\ \E j \in DOMAIN stack : stack[j].pc = "open"
FirstFile == m_fd[Current] = -1 <=> m_pos = -1
PublishOpen == \A i \in DOMAIN stack : stack[i].pc = "publish" => m_fd[m_next] \in Fds

Slots ==
    /\ ~mistaken => SlotsDiffer /\ SlotsOpen
    /\ FirstFile /\ PublishOpen

LEMMA SlotsKept ==
    ASSUME Slots, FilesKept, UNCHANGED mistaken, DOMAIN stack' \subseteq Nat,
           \A i \in DOMAIN stack : stack[i].pc = "open" =>
               \E j \in DOMAIN stack' : stack'[j].pc = "open",
           \A i \in DOMAIN stack' : stack'[i].pc = "publish" =>
               \E j \in DOMAIN stack : stack[j].pc = "publish"
    PROVE  Slots'
  <1>1. Current' = Current /\ m_next' = m_next BY DEF FilesKept, Current, m_next
  <1>2. FirstFile' /\ (SlotsDiffer => SlotsDiffer')
    BY <1>1 DEF Slots, SlotsDiffer, FirstFile, FilesKept
  <1>3. SlotsOpen => SlotsOpen' BY <1>1 DEF SlotsOpen, FilesKept
  <1>4. PublishOpen' BY <1>1 DEF Slots, PublishOpen, FilesKept
  <1> QED BY <1>2, <1>3, <1>4 DEF Slots

\* The frame that a step leaves at the top.
PrtFdFrame == [Top EXCEPT !.pc = IF m_fd[Current] = -1 THEN "cas" ELSE "cut", !.then = "cut"]
PrtCutFrame == [Top EXCEPT !.pc = IF Cut(Top.stamp) THEN "cas" ELSE "write", !.then = "write"]
PutFrame == [Top EXCEPT !.pc = "put", !.fd = CurrentFd]
BackFrame(retry) ==
    [Top EXCEPT !.pc = Top.then, !.opening = 0, !.retried = @ \/ retry]
OpenClockFrame == [Top EXCEPT !.pc = "openclock", !.opening = now]
FrameAt(pc) == [Top EXCEPT !.pc = pc]

\* All steps but new_file's own on the descriptors leave them alone.
LEMMA QuietSteps ==
    ASSUME LogInv,
           QuietStep
    PROVE  /\ stack # <<>> /\ FilesKept /\ UNCHANGED <<now, m_cur_filetime, signals>>
           /\ \/ At("time") /\ SetTop(FrameAt("clock")) /\ UNCHANGED m_busy
              \/ At("clock") /\ SetTop(FrameAt("fd")) /\ UNCHANGED m_busy
              \/ At("fd") /\ SetTop(PrtFdFrame) /\ UNCHANGED m_busy
              \/ At("cut") /\ SetTop(PrtCutFrame) /\ UNCHANGED m_busy
              \/ At("write") /\ SetTop(PutFrame) /\ UNCHANGED m_busy
              \/ At("put") /\ Return /\ UNCHANGED m_busy
              \/ At("cas") /\ SetTop(FrameAt("opentime")) /\ ~m_busy /\ m_busy'
              \/ At("opentime") /\ SetTop(OpenClockFrame) /\ UNCHANGED m_busy
              \/ At("openclock") /\ SetTop(FrameAt("close")) /\ UNCHANGED m_busy
              \/ At("cas") /\ m_busy /\ Top.then # "return" /\ SetTop(BackFrame(TRUE))
                    /\ UNCHANGED m_busy
              \/ At("cas") /\ m_busy /\ Top.then = "return" /\ Return /\ UNCHANGED m_busy
              \/ At("release") /\ Top.then # "return" /\ SetTop(BackFrame(FALSE)) /\ ~m_busy'
              \/ At("release") /\ Top.then = "return" /\ Return /\ ~m_busy'
  <1>1. CASE PrtFd BY <1>1 DEF PrtFd, FilesKept, At, PrtFdFrame
  <1>2. CASE PrtCut BY <1>2 DEF PrtCut, FilesKept, At, PrtCutFrame
  <1>3. CASE PrtArgument BY <1>3 DEF PrtArgument, FilesKept, At, PutFrame
  <1>4. CASE PrtWrite BY <1>4 DEF PrtWrite, FilesKept, At
  <1>5. CASE NewFileCas
    <2>1. At("cas") /\ FilesKept /\ UNCHANGED <<now, m_cur_filetime, signals>>
      BY <1>5 DEF NewFileCas, FilesKept
    <2>2. CASE ~m_busy /\ m_busy' = TRUE /\ To("opentime")
      BY <2>1, <2>2 DEF At, To, FrameAt
    <2>3. CASE m_busy /\ UNCHANGED m_busy /\ ReturnToPrt(TRUE)
      BY <2>1, <2>3 DEF At, ReturnToPrt, BackFrame
    <2> QED BY <1>5, <2>2, <2>3 DEF NewFileCas, BusyOrRetry
  <1>6. CASE NewFileRelease
    <2>1. At("release") /\ FilesKept /\ UNCHANGED <<now, m_cur_filetime, signals>>
          /\ m_busy' = FALSE /\ ReturnToPrt(FALSE)
      BY <1>6 DEF NewFileRelease, FilesKept
    <2> QED BY <2>1 DEF At, ReturnToPrt, BackFrame
  <1>7. CASE PrtLocaltime BY <1>7 DEF PrtLocaltime, FilesKept, At, To, FrameAt
  <1>8. CASE PrtLocaltimeReturns BY <1>8 DEF PrtLocaltimeReturns, FilesKept, At, To, FrameAt
  <1>9. CASE NewFileLocaltime BY <1>9 DEF NewFileLocaltime, FilesKept, At, OpenClockFrame
  <1>10. CASE NewFileLocaltimeReturns
    BY <1>10 DEF NewFileLocaltimeReturns, FilesKept, At, To, FrameAt
  <1> QED BY <1>1, <1>2, <1>3, <1>4, <1>5, <1>6, <1>7, <1>8, <1>9, <1>10 DEF QuietStep

\* The program counters of these frames.
LEMMA FramePcs ==
    ASSUME StackTyped, stack # <<>>, NEW retry \in BOOLEAN
    PROVE  /\ PrtFdFrame.pc \in {"cas", "cut"} /\ PrtFdFrame.then = "cut"
           /\ PrtCutFrame.pc \in {"cas", "write"} /\ PrtCutFrame.then = "write"
           /\ PutFrame.pc = "put" /\ PutFrame.fd = CurrentFd
           /\ BackFrame(retry).pc = Top.then
           /\ OpenClockFrame.pc = "openclock" /\ OpenClockFrame.opening = now
           /\ \A pc \in {"clock", "fd", "opentime", "close", "open", "publish", "release"} :
                 FrameAt(pc).pc = pc
  <1>1. Top \in Frames BY TopIs
  <1> QED BY <1>1 DEF Frames, PrtFdFrame, PrtCutFrame, PutFrame, BackFrame, OpenClockFrame,
         FrameAt

\* None of these frames is at "publish".
LEMMA QuietTop ==
    ASSUME LogInv, QuietStep
    PROVE  \E f : (SetTop(f) \/ Return) /\ (SetTop(f) => f.pc # "publish")
  <1>1. StackTyped BY TypeParts DEF LogInv
  <1>2. stack # <<>> BY QuietSteps
  <1>3. Top \in Frames BY <1>1, <1>2, TopIs
  <1>4. PrtFdFrame.pc # "publish" /\ PrtCutFrame.pc # "publish" /\ PutFrame.pc # "publish"
        /\ OpenClockFrame.pc # "publish"
        /\ \A pc \in {"clock", "fd", "opentime", "close"} : FrameAt(pc).pc # "publish"
    BY <1>1, <1>2, FramePcs
  <1>5. Top.then # "return" =>
            BackFrame(TRUE).pc # "publish" /\ BackFrame(FALSE).pc # "publish"
    <2>1. Top.then # "publish" BY <1>3 DEF Frames
    <2> QED BY <1>1, <1>2, <2>1, FramePcs
  <1>6. CASE Return
    <2>1. [pc |-> "fd"].pc # "publish" OBVIOUS
    <2> QED BY <1>6, <2>1
  <1>7. CASE ~Return
    <2>1. \/ SetTop(PrtFdFrame) \/ SetTop(PrtCutFrame) \/ SetTop(PutFrame)
          \/ SetTop(OpenClockFrame)
          \/ \E pc \in {"clock", "fd", "opentime", "close"} : SetTop(FrameAt(pc))
          \/ Top.then # "return" /\ (SetTop(BackFrame(TRUE)) \/ SetTop(BackFrame(FALSE)))
      BY <1>7, QuietSteps
    <2> QED BY <1>4, <1>5, <2>1
  <1> QED BY <1>6, <1>7

LEMMA QuietSlots ==
    ASSUME LogInv, Slots, QuietStep, UNCHANGED mistaken
    PROVE  Slots'
  <1>1. StackTyped BY TypeParts DEF LogInv
  <1>2. stack # <<>> /\ FilesKept /\ Top.pc # "open" BY QuietSteps DEF At
  <1>3. PICK f : (SetTop(f) \/ Return) /\ (SetTop(f) => f.pc # "publish") BY QuietTop
  <1>4. /\ Depth \in DOMAIN stack /\ DOMAIN stack' \subseteq DOMAIN stack
        /\ \A i \in DOMAIN stack : i # Depth => i \in DOMAIN stack' /\ stack'[i] = stack[i]
        /\ SetTop(f) => DOMAIN stack' = DOMAIN stack /\ stack'[Depth] = f
        /\ Return => Depth \notin DOMAIN stack'
    BY <1>1, <1>2, <1>3, StepOthers
  <1>5. \A i \in DOMAIN stack : stack[i].pc = "open" =>
            \E j \in DOMAIN stack' : stack'[j].pc = "open"
    BY <1>2, <1>4 DEF Top
  <1>6. \A i \in DOMAIN stack' : stack'[i].pc = "publish" =>
            \E j \in DOMAIN stack : stack[j].pc = "publish"
    BY <1>3, <1>4
  <1>7. DOMAIN stack' \subseteq Nat
    <2>1. DOMAIN stack = 1 .. Depth /\ Depth \in Nat BY <1>1, <1>2, TopIs
    <2> QED BY <1>4, <2>1
  <1> QED BY <1>2, <1>5, <1>6, <1>7, SlotsKept

\* What new_file's steps on the descriptors do.
LEMMA FileSteps ==
    ASSUME LogInv, FileStep
    PROVE  /\ stack # <<>> /\ Top.pc \in Inside /\ UNCHANGED now
           /\ \A j \in DOMAIN stack : j # Depth => stack[j].pc \notin Inside
           /\ NewFileClose =>
                 /\ SetTop(FrameAt("open")) /\ UNCHANGED <<m_pos, m_fd, m_cur_filetime, signals>>
                 /\ opened' = [fd \in Fds |-> IF fd = m_fd[m_next] THEN NoFile ELSE opened[fd]]
           /\ NewFileOpen =>
                 /\ Top.pc = "open" /\ SetTop(FrameAt("publish")) /\ UNCHANGED <<m_pos, signals>>
                 /\ \E fd \in Fds : /\ opened[fd] = NoFile
                                    /\ m_fd' = [m_fd EXCEPT ![m_next] = fd]
                                    /\ opened' = [opened EXCEPT ![fd] = Top.opening]
                 /\ m_cur_filetime' = [m_cur_filetime EXCEPT ![m_next] = Top.opening]
           /\ NewFileFails =>
                 /\ Top.pc = "open" /\ Return /\ UNCHANGED <<m_pos, m_cur_filetime, opened, signals>>
                 /\ m_fd' = [m_fd EXCEPT ![m_next] = -1]
           /\ NewFilePublish =>
                 /\ Top.pc = "publish" /\ SetTop(FrameAt("release")) /\ m_pos' = m_pos + 1
                 /\ UNCHANGED <<m_fd, m_cur_filetime, opened, signals>>
  <1>1. stack # <<>> /\ Top.pc \in Inside /\ UNCHANGED now
    BY DEF FileStep, NewFileClose, NewFileOpen, NewFileFails, NewFilePublish, At, Inside
  <1>2. \A j \in DOMAIN stack : j # Depth => stack[j].pc \notin Inside
    BY <1>1, LeaveEmpties
  <1>3. NewFileClose =>
            /\ SetTop(FrameAt("open")) /\ UNCHANGED <<m_pos, m_fd, m_cur_filetime, signals>>
            /\ opened' = [fd \in Fds |-> IF fd = m_fd[m_next] THEN NoFile ELSE opened[fd]]
    BY DEF NewFileClose, NextClosed, To, FrameAt
  <1>4. NewFileOpen =>
            /\ Top.pc = "open" /\ SetTop(FrameAt("publish")) /\ UNCHANGED <<m_pos, signals>>
            /\ \E fd \in Fds : /\ opened[fd] = NoFile
                               /\ m_fd' = [m_fd EXCEPT ![m_next] = fd]
                               /\ opened' = [opened EXCEPT ![fd] = Top.opening]
            /\ m_cur_filetime' = [m_cur_filetime EXCEPT ![m_next] = Top.opening]
    BY DEF NewFileOpen, LowestFree, At, To, FrameAt
  <1>5. NewFileFails =>
            /\ Top.pc = "open" /\ Return /\ UNCHANGED <<m_pos, m_cur_filetime, opened, signals>>
            /\ m_fd' = [m_fd EXCEPT ![m_next] = -1]
    BY DEF NewFileFails, At
  <1>6. NewFilePublish =>
            /\ Top.pc = "publish" /\ SetTop(FrameAt("release")) /\ m_pos' = m_pos + 1
            /\ UNCHANGED <<m_fd, m_cur_filetime, opened, signals>>
    BY DEF NewFilePublish, At, To, FrameAt
  <1> QED BY <1>1, <1>2, <1>3, <1>4, <1>5, <1>6

LEMMA FileSlots ==
    ASSUME LogInv, Slots, FileStep, UNCHANGED mistaken
    PROVE  Slots'
  <1>1. StackTyped /\ FilesTyped BY TypeParts DEF LogInv
  <1>2. stack # <<>> /\ \A j \in DOMAIN stack : j # Depth => stack[j].pc \notin Inside
    BY FileSteps
  <1>3. /\ Current \in 0 .. 1 /\ m_next \in 0 .. 1 /\ Current # m_next
        /\ \A k \in 0 .. 1 : k # m_next => k = Current
        /\ m_fd \in [0 .. 1 -> Fds \cup {-1}]
        /\ opened \in [Fds -> 0 .. MaxDay \cup {NoFile, Foreign}]
    BY <1>1, SlotsAlternate DEF FilesTyped
  <1>4. ~mistaken => \A fd \in Fds : fd = m_fd[Current] => IsLogFile(opened[fd])
    BY <1>3 DEF Slots, SlotsOpen
  <1>5. ASSUME NEW f, SetTop(f) \/ Return
        PROVE  /\ DOMAIN stack' \subseteq DOMAIN stack /\ Depth \in DOMAIN stack
               /\ \A i \in DOMAIN stack' : i # Depth => stack'[i].pc \notin Inside
               /\ SetTop(f) => Depth \in DOMAIN stack' /\ stack'[Depth] = f
               /\ Return => Depth \notin DOMAIN stack'
    BY <1>1, <1>2, <1>5, StepOthers
  <1>6. m_fd[0] = m_fd[Current] \/ m_fd[1] = m_fd[Current] BY <1>3
  <1>7. CASE NewFileClose
    <2>1. /\ SetTop(FrameAt("open")) /\ UNCHANGED <<m_pos, m_fd>> /\ FrameAt("open").pc = "open"
          /\ opened' = [fd \in Fds |-> IF fd = m_fd[m_next] THEN NoFile ELSE opened[fd]]
      BY <1>1, <1>2, <1>7, FileSteps, FramePcs
    <2>2. Current' = Current /\ m_next' = m_next BY <2>1 DEF Current, m_next
    <2>3. /\ Depth \in DOMAIN stack' /\ stack'[Depth].pc = "open"
          /\ \A i \in DOMAIN stack' : stack'[i].pc # "publish"
      BY <1>5, <2>1 DEF Inside
    <2>4. ASSUME ~mistaken, NEW i \in 0 .. 1, NEW fd \in Fds, fd = m_fd[i], i # m_next
          PROVE  IsLogFile(opened'[fd])
      <3>1. i = Current /\ IsLogFile(opened[fd]) BY <1>3, <1>4, <2>4
      <3>2. fd # m_fd[m_next]
        <4>1. m_fd[Current] # m_fd[m_next] \/ m_fd[Current] = -1
          BY <1>3, <2>4 DEF Slots, SlotsDiffer
        <4>2. fd # -1 BY DEF Fds
        <4> QED BY <2>4, <3>1, <4>1, <4>2
      <3> QED BY <2>1, <3>1, <3>2
    <2>5. ~mistaken => SlotsOpen' BY <2>1, <2>2, <2>3, <2>4 DEF SlotsOpen
    <2>6. (~mistaken => SlotsDiffer') /\ FirstFile' /\ PublishOpen'
      BY <2>1, <2>2, <2>3 DEF Slots, SlotsDiffer, FirstFile, PublishOpen
    <2> QED BY <2>5, <2>6 DEF Slots
  <1>8. CASE NewFileOpen
    <2>1. PICK new \in Fds : /\ opened[new] = NoFile
                             /\ m_fd' = [m_fd EXCEPT ![m_next] = new]
                             /\ opened' = [opened EXCEPT ![new] = Top.opening]
      BY <1>8, FileSteps
    <2>2. UNCHANGED m_pos /\ IsLogFile(Top.opening)
      <3>1. Top \in Frames BY <1>1, <1>2, TopIs
      <3>2. Top.opening \in 0 .. MaxDay BY <3>1 DEF Frames
      <3> QED BY <1>8, <3>2, FileSteps, LogAssumption DEF IsLogFile
    <2>3. Current' = Current /\ m_next' = m_next BY <2>2 DEF Current, m_next
    <2>4. /\ m_fd'[m_next] = new /\ m_fd'[Current] = m_fd[Current]
          /\ new # -1 /\ (~mistaken => new # m_fd[Current])
      BY <1>3, <1>4, <2>1 DEF Fds, IsLogFile, NoFile
    <2>5. ASSUME ~mistaken, NEW i \in 0 .. 1, NEW fd \in Fds, fd = m_fd'[i]
          PROVE  IsLogFile(opened'[fd])
      <3>1. fd = m_fd'[Current] => IsLogFile(opened'[fd])
        BY <1>3, <1>4, <2>1, <2>4, <2>5
      <3>2. IsLogFile(opened'[new]) BY <1>3, <2>1, <2>2
      <3> QED BY <1>3, <2>4, <2>5, <3>1, <3>2
    <2>6. ~mistaken => SlotsOpen' BY <2>5 DEF SlotsOpen
    <2>7. ~mistaken => SlotsDiffer' BY <1>3, <2>4 DEF SlotsDiffer
    <2>8. FirstFile' BY <2>2, <2>3, <2>4 DEF Slots, FirstFile
    <2>9. PublishOpen' BY <2>3, <2>4 DEF PublishOpen
    <2> QED BY <2>6, <2>7, <2>8, <2>9 DEF Slots
  <1>9. CASE NewFileFails
    <2>1. /\ Return /\ UNCHANGED <<m_pos, opened>> /\ m_fd' = [m_fd EXCEPT ![m_next] = -1]
      BY <1>9, FileSteps
    <2>2. Current' = Current /\ m_next' = m_next BY <2>1 DEF Current, m_next
    <2>3. m_fd'[m_next] = -1 /\ m_fd'[Current] = m_fd[Current] BY <1>3, <2>1
    <2>4. ~mistaken => SlotsOpen'
      <3>1. ASSUME ~mistaken, NEW i \in 0 .. 1, NEW fd \in Fds, fd = m_fd'[i]
            PROVE  IsLogFile(opened'[fd])
        BY <1>3, <1>4, <2>1, <2>3, <3>1 DEF Fds
      <3> QED BY <3>1 DEF SlotsOpen
    <2>5. ~mistaken => SlotsDiffer' BY <1>3, <2>3 DEF SlotsDiffer
    <2>6. FirstFile' BY <2>1, <2>2, <2>3 DEF Slots, FirstFile
    <2>7. PublishOpen' BY <1>5, <2>1 DEF PublishOpen, Inside
    <2> QED BY <2>4, <2>5, <2>6, <2>7 DEF Slots
  <1>10. CASE NewFilePublish
    <2>1. /\ SetTop(FrameAt("release")) /\ m_pos' = m_pos + 1 /\ UNCHANGED <<m_fd, opened>>
          /\ Top.pc = "publish" /\ FrameAt("release").pc = "release"
      BY <1>1, <1>2, <1>10, FileSteps, FramePcs
    <2>2. Current' = m_next /\ m_next' = Current BY <1>1, <2>1, SlotsAlternate
    <2>3. m_fd[m_next] \in Fds
      <3>1. Depth \in DOMAIN stack BY <1>5, <2>1
      <3> QED BY <2>1, <3>1 DEF Slots, PublishOpen, Top
    <2>4. \A i \in DOMAIN stack : stack[i].pc # "open"
      BY <1>2, <2>1 DEF Inside, Top
    <2>5. ~mistaken => SlotsOpen' BY <2>1, <2>4 DEF Slots, SlotsOpen
    <2>6. ~mistaken => SlotsDiffer' BY <2>1 DEF Slots, SlotsDiffer
    <2>7. FirstFile'
      <3>1. m_pos' # -1 BY <1>1, <2>1 DEF FilesTyped
      <3> QED BY <2>1, <2>2, <2>3, <3>1 DEF FirstFile, Fds
    <2>8. PublishOpen' BY <1>5, <2>1 DEF PublishOpen, Inside
    <2> QED BY <2>5, <2>6, <2>7, <2>8 DEF Slots
  <1> QED BY <1>7, <1>8, <1>9, <1>10 DEF FileStep

\* A call begins, or time goes by.
LEMMA BeginSlots ==
    ASSUME LogInv, Slots, Prt \/ Signal, UNCHANGED mistaken
    PROVE  Slots'
  <1>1. StackTyped /\ BoundsTyped BY TypeParts DEF LogInv
  <1>2. PICK f \in Frames : /\ stack' = Append(stack, f) /\ f.pc = "time"
                            /\ \A i \in DOMAIN stack : stack[i].by # f.by
    BY <1>1, PrtBegins, SignalBegins
  <1>3. /\ DOMAIN stack' = DOMAIN stack \cup {Depth + 1}
        /\ stack'[Depth + 1].pc = "time"
        /\ \A i \in DOMAIN stack : stack'[i] = stack[i]
    BY <1>1, <1>2, PushStack
  <1>4. FilesKept BY DEF Prt, Signal, FilesKept
  <1>5. DOMAIN stack' \subseteq Nat
    <2>1. DOMAIN stack = 1 .. Depth /\ Depth \in Nat BY <1>1 DEF StackTyped, Depth
    <2> QED BY <1>3, <2>1
  <1> QED BY <1>3, <1>4, <1>5, SlotsKept

\* A log file closed by pulld's loop is a mistake; what the loop opens is not one.
LEMMA LoopSlots ==
    ASSUME LogInv, Slots, LoopMoves
    PROVE  Slots'
  <1>1. /\ stack = <<>> /\ stack' = <<>> /\ UNCHANGED <<m_pos, m_fd>>
        /\ opened \in [Fds -> 0 .. MaxDay \cup {NoFile, Foreign}]
        /\ m_fd \in [0 .. 1 -> Fds \cup {-1}]
    BY DEF LoopMoves, LogInv, LogTypeOK
  <1>2. Current' = Current /\ m_next' = m_next BY <1>1 DEF Current, m_next
  <1>3. FirstFile' /\ PublishOpen' BY <1>1, <1>2 DEF Slots, FirstFile, PublishOpen
  <1>4. ASSUME ~mistaken' PROVE SlotsDiffer' /\ SlotsOpen'
    <2>1. ~mistaken /\ \A fd \in Fds : IsLogFile(opened[fd]) => IsLogFile(opened'[fd])
      <3>1. CASE UNCHANGED <<opened, mistaken>> BY <1>4, <3>1
      <3>2. ASSUME NEW fd \in Fds, OpensForeign(fd), UNCHANGED mistaken
            PROVE  ~mistaken /\ \A e \in Fds : IsLogFile(opened[e]) => IsLogFile(opened'[e])
        BY <1>1, <1>4, <3>2 DEF OpensForeign, IsLogFile, NoFile
      <3>3. ASSUME NEW fd, ClosesNumber(fd),
                   mistaken' = (mistaken \/ \E e \in Fds : e = fd /\ IsLogFile(opened[e]))
            PROVE  ~mistaken /\ \A e \in Fds : IsLogFile(opened[e]) => IsLogFile(opened'[e])
        <4>1. ~mistaken /\ \A e \in Fds : e = fd => ~IsLogFile(opened[e]) BY <1>4, <3>3
        <4> QED BY <3>3, <4>1 DEF ClosesNumber
      <3> QED BY <3>1, <3>2, <3>3 DEF LoopMoves
    <2>2. SlotsDiffer' BY <1>1, <2>1 DEF Slots, SlotsDiffer
    <2>3. SlotsOpen
      BY <2>1 DEF Slots
    <2>4. \A i \in 0 .. 1 : \A fd \in Fds : fd = m_fd[i] => IsLogFile(opened'[fd])
      BY <1>1, <2>1, <2>3 DEF SlotsOpen
    <2>5. SlotsOpen' BY <1>1, <2>4 DEF SlotsOpen
    <2> QED BY <2>2, <2>5
  <1> QED BY <1>3, <1>4 DEF Slots

LEMMA NextSlots ==
    ASSUME LogInv, Slots, [PulldLogNext]_pvars
    PROVE  Slots'
  <1>1. ASSUME Tick \/ UNCHANGED lvars, UNCHANGED mistaken PROVE Slots'
    <2>1. FilesKept /\ UNCHANGED stack BY <1>1 DEF Tick, lvars, FilesKept
    <2>2. DOMAIN stack' \subseteq Nat BY <2>1 DEF LogInv, LogTypeOK
    <2> QED BY <1>1, <2>1, <2>2, SlotsKept
  <1>2. ASSUME LogStep, UNCHANGED mistaken PROVE Slots'
    BY <1>2, QuietSlots, FileSlots DEF LogStep, QuietStep, FileStep
  <1> QED BY <1>1, <1>2, BeginSlots, LoopSlots, NextCases DEF LogMoves

LEMMA InitSlots ==
    ASSUME PulldLogInit
    PROVE  Slots
  <1>1. /\ m_fd = [i \in 0 .. 1 |-> -1] /\ m_pos = -1
        /\ stack = <<Frame("pulld", "cas", "return")>>
    BY DEF PulldLogInit, LogInit
  <1>2. FilesTyped BY InitLogInv, TypeParts DEF LogInv
  <1>3. Current \in 0 .. 1 /\ m_next \in 0 .. 1 BY <1>2, SlotsAlternate
  <1>4. \A i \in DOMAIN stack : stack[i].pc = "cas" BY <1>1 DEF Frame
  <1> QED BY <1>1, <1>3, <1>4 DEF Slots, SlotsDiffer, SlotsOpen, FirstFile, PublishOpen, Fds

-------------------------------------------------------------------------------
(* The times of lines and files *)

CurTime == m_cur_filetime[Current]
NextTime == m_cur_filetime[m_next]

\* No file is from the future.
FileTimes ==
    /\ \A fd \in Fds : opened[fd] <= now
    /\ \A i \in 0 .. 1 : m_cur_filetime[i] <= now

\* m_cur_filetime has the time of the file under the current number; once pulld has
\* closed it, this may be the number of the other slot, too, before that is published.
SlotFiles ==
    /\ \A fd \in Fds : fd = m_fd[Current] /\ IsLogFile(opened[fd]) =>
          \/ opened[fd] = CurTime
          \/ /\ mistaken
             /\ \E j \in DOMAIN stack :
                    stack[j].pc = "publish" /\ opened[fd] = stack[j].opening
    /\ \A j \in DOMAIN stack : stack[j].pc = "publish" =>
          \A fd \in Fds : fd = m_fd[m_next] => opened[fd] = stack[j].opening

\* What LinesInTheirFile allows for a line that was not told RETRY.
NotOld(stamp, file, bad) ==
    stamp <= file \/ mday(file) = mday(stamp) \/ (bad /\ file + 1 = stamp)

\* What a call knows of the times on day t, with files of the times cur and next in
\* the two slots: past prt's comparison, the file is not older than its line, or has its
\* day of the month.
FrameTimes(f, t, cur, next, files, bad) ==
    /\ f.stamp = t \/ f.stamp + 1 = t
    /\ f.pc \in {"openclock", "close", "open", "publish"} =>
          f.stamp <= f.opening /\ f.opening <= t
    /\ f.pc = "publish" => next = f.opening
    /\ f.pc = "release" => f.stamp <= cur
    /\ f.pc = "write" /\ ~f.retried => f.stamp <= cur \/ mday(cur) = mday(f.stamp)
    /\ f.pc = "put" /\ ~f.retried =>
          \A fd \in Fds : fd = f.fd /\ IsLogFile(files[fd]) => NotOld(f.stamp, files[fd], bad)

StampsGrow == \A i, j \in DOMAIN stack : i <= j => stack[i].stamp <= stack[j].stamp

Times ==
    /\ FileTimes /\ SlotFiles
    /\ \A i \in DOMAIN stack : FrameTimes(stack[i], now, CurTime, NextTime, opened, mistaken)
    /\ StampsGrow

\* The other fields of the frames that steps leave.
LEMMA FrameFields ==
    ASSUME StackTyped, FilesTyped, BoundsTyped, stack # <<>>, NEW retry \in BOOLEAN
    PROVE  /\ \A f \in {PrtFdFrame, PrtCutFrame, PutFrame, OpenClockFrame} :
                 f \in Frames /\ f.by = Top.by /\ f.stamp = Top.stamp /\ f.retried = Top.retried
           /\ \A pc \in {"clock", "fd", "opentime", "close", "open", "publish", "release"} :
                 /\ FrameAt(pc) \in Frames
                 /\ FrameAt(pc).by = Top.by /\ FrameAt(pc).then = Top.then
                 /\ FrameAt(pc).stamp = Top.stamp /\ FrameAt(pc).retried = Top.retried
                 /\ FrameAt(pc).opening = Top.opening
           /\ Top.then # "return" =>
                 /\ BackFrame(retry) \in Frames
                 /\ BackFrame(retry).by = Top.by /\ BackFrame(retry).then = Top.then
                 /\ BackFrame(retry).stamp = Top.stamp
                 /\ BackFrame(retry).retried = (Top.retried \/ retry)
           /\ PutFrame.then = Top.then /\ OpenClockFrame.then = Top.then
  <1>1. Top \in Frames /\ CurrentFd \in Fds \cup {-1} BY TopIs, SlotsOfFiles
  <1>2. now \in 0 .. MaxDay /\ 0 \in 0 .. MaxDay BY LogAssumption DEF BoundsTyped
  <1>3. \A f \in {PrtFdFrame, PrtCutFrame, PutFrame, OpenClockFrame} :
            f \in Frames /\ f.by = Top.by /\ f.stamp = Top.stamp /\ f.retried = Top.retried
    <2>1. PrtFdFrame \in Frames /\ PrtFdFrame.by = Top.by
          /\ PrtFdFrame.stamp = Top.stamp /\ PrtFdFrame.retried = Top.retried
      BY <1>1 DEF Frames, PrtFdFrame
    <2>2. PrtCutFrame \in Frames /\ PrtCutFrame.by = Top.by
          /\ PrtCutFrame.stamp = Top.stamp /\ PrtCutFrame.retried = Top.retried
      BY <1>1 DEF Frames, PrtCutFrame
    <2>3. PutFrame \in Frames /\ PutFrame.by = Top.by
          /\ PutFrame.stamp = Top.stamp /\ PutFrame.retried = Top.retried
      BY <1>1 DEF Frames, PutFrame
    <2>4. OpenClockFrame \in Frames /\ OpenClockFrame.by = Top.by
          /\ OpenClockFrame.stamp = Top.stamp /\ OpenClockFrame.retried = Top.retried
      BY <1>1, <1>2 DEF Frames, OpenClockFrame
    <2> QED BY <2>1, <2>2, <2>3, <2>4
  <1>4. ASSUME NEW pc \in {"clock", "fd", "opentime", "close", "open", "publish", "release"}
        PROVE  /\ FrameAt(pc) \in Frames
               /\ FrameAt(pc).by = Top.by /\ FrameAt(pc).then = Top.then
               /\ FrameAt(pc).stamp = Top.stamp /\ FrameAt(pc).retried = Top.retried
               /\ FrameAt(pc).opening = Top.opening
    BY <1>1, <1>4 DEF Frames, FrameAt
  <1>5. ASSUME Top.then # "return"
        PROVE  /\ BackFrame(retry) \in Frames
               /\ BackFrame(retry).by = Top.by /\ BackFrame(retry).then = Top.then
               /\ BackFrame(retry).stamp = Top.stamp
               /\ BackFrame(retry).retried = (Top.retried \/ retry)
    <2>1. Top.then \in {"cut", "write"} BY <1>1, <1>5 DEF Frames
    <2>2. (Top.retried \/ retry) \in BOOLEAN BY <1>1 DEF Frames
    <2>3. BackFrame(retry) \in Frames
          /\ BackFrame(retry).by = Top.by /\ BackFrame(retry).then = Top.then
          /\ BackFrame(retry).stamp = Top.stamp
      BY <1>1, <1>2, <2>1, <2>2 DEF Frames, BackFrame
    <2>4. BackFrame(retry).retried = (Top.retried \/ retry) BY <1>1 DEF Frames, BackFrame
    <2> QED BY <2>3, <2>4
  <1>6. PutFrame.then = Top.then /\ OpenClockFrame.then = Top.then
    BY <1>1 DEF Frames, PutFrame, OpenClockFrame
  <1> QED BY <1>3, <1>4, <1>5, <1>6

\* A step that moves the call on the processor on, or ends it.
LEMMA TimesMoved ==
    ASSUME LogInv, Times, stack # <<>>, NEW f, SetTop(f) \/ Return, FileTimes', SlotFiles',
           SetTop(f) =>
               f.stamp = Top.stamp /\ FrameTimes(f, now', CurTime', NextTime', opened', mistaken'),
           \A i \in DOMAIN stack :
               i # Depth => FrameTimes(stack[i], now', CurTime', NextTime', opened', mistaken')
    PROVE  Times'
  <1>1. StackTyped BY TypeParts DEF LogInv
  <1>2. /\ Depth \in DOMAIN stack /\ DOMAIN stack' \subseteq DOMAIN stack
        /\ \A i \in DOMAIN stack : i # Depth => i \in DOMAIN stack' /\ stack'[i] = stack[i]
        /\ SetTop(f) => DOMAIN stack' = DOMAIN stack /\ stack'[Depth] = f
        /\ Return => Depth \notin DOMAIN stack'
    BY <1>1, StepOthers
  <1>3. ASSUME NEW i \in DOMAIN stack'
        PROVE  FrameTimes(stack'[i], now', CurTime', NextTime', opened', mistaken')
    <2>1. CASE i = Depth BY <1>2, <1>3, <2>1
    <2>2. CASE i # Depth BY <1>2, <1>3, <2>2
    <2> QED BY <2>1, <2>2
  <1>4. \A i \in DOMAIN stack' : stack'[i].stamp = stack[i].stamp
    <2>1. \A i \in DOMAIN stack' : i # Depth => stack'[i].stamp = stack[i].stamp BY <1>2
    <2>2. Depth \in DOMAIN stack' => stack'[Depth].stamp = stack[Depth].stamp
      BY <1>2 DEF Top
    <2> QED BY <2>1, <2>2
  <1>5. StampsGrow' BY <1>2, <1>4 DEF Times, StampsGrow
  <1> QED BY <1>3, <1>5 DEF Times

LEMMA TopTimes ==
    ASSUME LogInv, Times, stack # <<>>
    PROVE  /\ Top \in Frames /\ FrameTimes(Top, now, CurTime, NextTime, opened, mistaken)
           /\ \A i \in DOMAIN stack : stack[i].stamp <= Top.stamp
           /\ now \in 0 .. MaxDay /\ now \in Int /\ Top.stamp \in Int /\ Top.opening \in Int
           /\ CurTime \in Int /\ NextTime \in Int /\ DaysPerMonth \in Int
           /\ CurTime # Unopened => CurTime \in Nat
           /\ Top.stamp \in Nat
  <1>1. StackTyped /\ FilesTyped /\ BoundsTyped BY TypeParts DEF LogInv
  <1>2. Top \in Frames /\ Depth \in DOMAIN stack /\ Depth \in Nat /\ DOMAIN stack = 1 .. Depth
    BY <1>1, TopIs
  <1>3. FrameTimes(Top, now, CurTime, NextTime, opened, mistaken) BY <1>2 DEF Times, Top
  <1>4. \A i \in DOMAIN stack : stack[i].stamp <= Top.stamp
    <2>1. \A i \in DOMAIN stack : i <= Depth BY <1>2
    <2> QED BY <1>2, <2>1 DEF Times, StampsGrow, Top
  <1>5. now \in 0 .. MaxDay /\ now \in Int BY <1>1, LogAssumption DEF BoundsTyped
  <1>6. Top.stamp \in Nat /\ Top.opening \in Int BY <1>2, LogAssumption DEF Frames
  <1>7. CurTime \in 0 .. MaxDay \cup {Unopened} /\ NextTime \in 0 .. MaxDay \cup {Unopened}
    BY <1>1, SlotsOfFiles DEF FilesTyped, CurTime, NextTime
  <1>8. CurTime \in Int /\ NextTime \in Int /\ DaysPerMonth \in Int
        /\ (CurTime # Unopened => CurTime \in Nat)
    BY <1>7, LogAssumption DEF Unopened
  <1> QED BY <1>2, <1>3, <1>4, <1>5, <1>6, <1>8

\* What a step that leaves the descriptors alone keeps, when no call is at "publish"
\* before or after it that is not there in the other state.
LEMMA FileTimesKept ==
    ASSUME FileTimes, SlotFiles, FilesKept, UNCHANGED <<now, m_cur_filetime, mistaken>>,
           \A j \in DOMAIN stack : stack[j].pc = "publish" =>
               j \in DOMAIN stack' /\ stack'[j] = stack[j],
           \A j \in DOMAIN stack' : stack'[j].pc = "publish" =>
               j \in DOMAIN stack /\ stack'[j] = stack[j]
    PROVE  /\ FileTimes' /\ SlotFiles' /\ CurTime' = CurTime /\ NextTime' = NextTime
           /\ now' = now /\ opened' = opened /\ mistaken' = mistaken
  <1>1. Current' = Current /\ m_next' = m_next BY DEF FilesKept, Current, m_next
  <1>2. CurTime' = CurTime /\ NextTime' = NextTime BY <1>1 DEF CurTime, NextTime
  <1>3. FileTimes' BY <1>2 DEF FileTimes, FilesKept
  <1>4. SlotFiles'
    <2>1. ASSUME NEW fd \in Fds, fd = m_fd'[Current'], IsLogFile(opened'[fd])
          PROVE  \/ opened'[fd] = CurTime'
                 \/ /\ mistaken'
                    /\ \E j \in DOMAIN stack' :
                           stack'[j].pc = "publish" /\ opened'[fd] = stack'[j].opening
      BY <1>1, <1>2, <2>1 DEF SlotFiles, FilesKept
    <2>2. ASSUME NEW j \in DOMAIN stack', stack'[j].pc = "publish",
                 NEW fd \in Fds, fd = m_fd'[m_next']
          PROVE  opened'[fd] = stack'[j].opening
      BY <1>1, <2>2 DEF SlotFiles, FilesKept
    <2> QED BY <2>1, <2>2 DEF SlotFiles
  <1> QED BY <1>2, <1>3, <1>4 DEF FilesKept

\* Such a step neither begins nor ends at "publish".
LEMMA QuietPublish ==
    ASSUME LogInv, QuietStep
    PROVE  /\ \A j \in DOMAIN stack : stack[j].pc = "publish" =>
                 j \in DOMAIN stack' /\ stack'[j] = stack[j]
           /\ \A j \in DOMAIN stack' : stack'[j].pc = "publish" =>
                 j \in DOMAIN stack /\ stack'[j] = stack[j]
  <1>1. StackTyped BY TypeParts DEF LogInv
  <1>2. stack # <<>> /\ Top.pc # "publish" BY QuietSteps DEF At
  <1>3. PICK f : (SetTop(f) \/ Return) /\ (SetTop(f) => f.pc # "publish") BY QuietTop
  <1>4. /\ Depth \in DOMAIN stack /\ DOMAIN stack' \subseteq DOMAIN stack
        /\ \A i \in DOMAIN stack : i # Depth => i \in DOMAIN stack' /\ stack'[i] = stack[i]
        /\ SetTop(f) => DOMAIN stack' = DOMAIN stack /\ stack'[Depth] = f
        /\ Return => Depth \notin DOMAIN stack'
    BY <1>1, <1>2, <1>3, StepOthers
  <1>5. \A j \in DOMAIN stack' : stack'[j].pc = "publish" => j # Depth BY <1>3, <1>4
  <1>6. \A j \in DOMAIN stack : stack[j].pc = "publish" => j # Depth BY <1>2 DEF Top
  <1> QED BY <1>4, <1>5, <1>6

LEMMA QuietTimes ==
    ASSUME LogInv, Slots, Times, QuietStep, UNCHANGED mistaken
    PROVE  Times'
  <1>1. StackTyped /\ FilesTyped /\ BoundsTyped BY TypeParts DEF LogInv
  <1>2. stack # <<>> /\ FilesKept /\ UNCHANGED <<now, m_cur_filetime>> BY QuietSteps
  <1>3. /\ FileTimes' /\ SlotFiles' /\ CurTime' = CurTime /\ NextTime' = NextTime
        /\ now' = now /\ opened' = opened /\ mistaken' = mistaken
    BY <1>2, QuietPublish, FileTimesKept DEF Times
  <1> DEFINE OK(f) == f.stamp = Top.stamp /\ FrameTimes(f, now, CurTime, NextTime, opened, mistaken)
  <1>4. /\ Top \in Frames /\ FrameTimes(Top, now, CurTime, NextTime, opened, mistaken)
        /\ Top.stamp \in Int /\ CurTime \in Int
    BY <1>2, TopTimes
  <1>5. OK(PrtFdFrame)
    <2>1. PrtFdFrame.pc \in {"cas", "cut"} /\ PrtFdFrame.stamp = Top.stamp
      BY <1>1, <1>2, FramePcs, FrameFields
    <2> QED BY <1>4, <2>1 DEF FrameTimes
  <1>6. OK(PrtCutFrame)
    <2>1. PrtCutFrame.pc \in {"cas", "write"} /\ PrtCutFrame.stamp = Top.stamp
      BY <1>1, <1>2, FramePcs, FrameFields
    <2>2. PrtCutFrame.pc = "write" => ~Cut(Top.stamp) BY <1>4 DEF PrtCutFrame, Frames
    <2>3. PrtCutFrame.pc = "write" => mday(CurTime) = mday(Top.stamp)
      BY <2>2 DEF Cut, CurTime
    <2> QED BY <1>4, <2>1, <2>3 DEF FrameTimes
  <1>7. At("write") => OK(PutFrame)
    <2> SUFFICES ASSUME At("write") PROVE OK(PutFrame)
      OBVIOUS
    <2>1. PutFrame.pc = "put" /\ PutFrame.fd = CurrentFd /\ PutFrame.stamp = Top.stamp
          /\ PutFrame.retried = Top.retried
      BY <1>1, <1>2, FramePcs, FrameFields
    <2>2. ~Top.retried => Top.stamp <= CurTime \/ mday(CurTime) = mday(Top.stamp)
      BY <1>4 DEF FrameTimes, At
    <2>3. ASSUME ~Top.retried, NEW fd \in Fds, fd = CurrentFd, IsLogFile(opened[fd])
          PROVE  NotOld(Top.stamp, opened[fd], mistaken)
      <3>1. CASE opened[fd] = CurTime BY <2>2, <2>3, <3>1 DEF NotOld
      <3>2. CASE opened[fd] # CurTime
        <4>1. PICK j \in DOMAIN stack :
                  stack[j].pc = "publish" /\ opened[fd] = stack[j].opening /\ mistaken
          BY <2>3, <3>2 DEF Times, SlotFiles, CurrentFd
        <4>2. stack[j] \in Frames BY <1>1 DEF StackTyped
        <4>3. /\ stack[j].stamp <= stack[j].opening
              /\ stack[j].stamp = now \/ stack[j].stamp + 1 = now
          BY <4>1 DEF Times, FrameTimes
        <4>4. Top.stamp = now \/ Top.stamp + 1 = now BY <1>4 DEF FrameTimes
        <4>5. stack[j].stamp \in Int /\ stack[j].opening \in Int /\ now \in Int
          BY <1>1, <4>2, LogAssumption DEF Frames, BoundsTyped
        <4>6. Top.stamp <= opened[fd] \/ opened[fd] + 1 = Top.stamp
          BY <1>4, <4>1, <4>3, <4>4, <4>5
        <4> QED BY <4>1, <4>6 DEF NotOld
      <3> QED BY <3>1, <3>2
    <2> QED BY <1>4, <2>1, <2>3 DEF FrameTimes
  <1>8. ASSUME NEW pc \in {"clock", "fd", "opentime"}
        PROVE  OK(FrameAt(pc))
    <2>1. FrameAt(pc).pc = pc /\ FrameAt(pc).stamp = Top.stamp
      BY <1>1, <1>2, FramePcs, FrameFields
    <2> QED BY <1>4, <2>1 DEF FrameTimes
  <1>9. At("openclock") => OK(FrameAt("close"))
    <2> SUFFICES ASSUME At("openclock") PROVE OK(FrameAt("close"))
      OBVIOUS
    <2>1. FrameAt("close").pc = "close" /\ FrameAt("close").stamp = Top.stamp
          /\ FrameAt("close").opening = Top.opening
      BY <1>1, <1>2, FramePcs, FrameFields
    <2>2. Top.pc = "openclock" BY DEF At
    <2>3. Top.stamp <= Top.opening /\ Top.opening <= now BY <1>4, <2>2 DEF FrameTimes
    <2> QED BY <1>4, <2>1, <2>3 DEF FrameTimes
  <1>10. OK(OpenClockFrame)
    <2>1. OpenClockFrame.pc = "openclock" /\ OpenClockFrame.stamp = Top.stamp
          /\ OpenClockFrame.opening = now
      BY <1>1, <1>2, FramePcs, FrameFields
    <2>2. now \in Int BY <1>1, LogAssumption DEF BoundsTyped
    <2>3. Top.stamp <= now BY <1>4, <2>2 DEF FrameTimes
    <2> QED BY <1>4, <2>1, <2>2, <2>3 DEF FrameTimes
  <1>11. Top.then # "return" => OK(BackFrame(TRUE))
    <2> SUFFICES ASSUME Top.then # "return" PROVE OK(BackFrame(TRUE))
      OBVIOUS
    <2>1. BackFrame(TRUE).pc = Top.then /\ BackFrame(TRUE).stamp = Top.stamp
          /\ BackFrame(TRUE).retried
      BY <1>1, <1>2, FramePcs, FrameFields
    <2>2. Top.then \in {"cut", "write"} BY <1>4 DEF Frames
    <2> QED BY <1>4, <2>1, <2>2 DEF FrameTimes
  <1>12. Top.then # "return" /\ At("release") => OK(BackFrame(FALSE))
    <2> SUFFICES ASSUME Top.then # "return", At("release") PROVE OK(BackFrame(FALSE))
      OBVIOUS
    <2>1. BackFrame(FALSE).pc = Top.then /\ BackFrame(FALSE).stamp = Top.stamp
      BY <1>1, <1>2, FramePcs, FrameFields
    <2>2. Top.then \in {"cut", "write"} BY <1>4 DEF Frames
    <2>3. Top.stamp <= CurTime BY <1>4 DEF FrameTimes, At
    <2> QED BY <1>4, <2>1, <2>2, <2>3 DEF FrameTimes
  <1>13. PICK f : (SetTop(f) /\ OK(f)) \/ Return
    <2> HIDE DEF OK
    <2> QED BY <1>5, <1>6, <1>7, <1>8, <1>11, <1>12, <1>9, <1>10, QuietSteps
  <1>14. \A i \in DOMAIN stack : FrameTimes(stack[i], now', CurTime', NextTime', opened', mistaken')
    BY <1>3 DEF Times
  <1>15. CASE SetTop(f) /\ OK(f) BY <1>2, <1>3, <1>14, <1>15, StepOthers, TimesMoved
  <1>16. CASE Return
    <2>1. ~SetTop(f)
      BY <1>1, <1>2, <1>16, StepOthers
    <2> QED BY <1>2, <1>3, <1>14, <1>16, <2>1, TimesMoved
  <1> QED BY <1>13, <1>15, <1>16

\* new_file reads the clock after prt did, and nothing is opened with an older time.
LEMMA FileStepTimes ==
    ASSUME LogInv, Slots, Times, FileStep, UNCHANGED mistaken
    PROVE  Times'
  <1>1. StackTyped /\ FilesTyped /\ BoundsTyped BY TypeParts DEF LogInv
  <1>2. /\ stack # <<>> /\ Top.pc \in Inside /\ UNCHANGED now
        /\ \A j \in DOMAIN stack : j # Depth => stack[j].pc \notin Inside
    BY FileSteps
  <1>3. /\ Top \in Frames /\ FrameTimes(Top, now, CurTime, NextTime, opened, mistaken)
        /\ \A i \in DOMAIN stack : stack[i].stamp <= Top.stamp
        /\ now \in Int /\ Top.stamp \in Int /\ Top.opening \in Int
        /\ CurTime \in Int /\ NextTime \in Int /\ DaysPerMonth \in Int /\ DaysPerMonth > 1
        /\ Top.stamp \in Nat
    BY <1>2, TopTimes, LogAssumption
  <1>4. /\ Current \in 0 .. 1 /\ m_next \in 0 .. 1 /\ Current # m_next
        /\ \A k \in 0 .. 1 : k # m_next => k = Current
        /\ m_fd \in [0 .. 1 -> Fds \cup {-1}]
        /\ opened \in [Fds -> 0 .. MaxDay \cup {NoFile, Foreign}]
        /\ m_cur_filetime \in [0 .. 1 -> 0 .. MaxDay \cup {Unopened}]
    BY <1>1, SlotsAlternate DEF FilesTyped
  <1>5. /\ \A fd \in Fds : opened[fd] \in Int /\ opened[fd] <= now
        /\ \A i \in 0 .. 1 : m_cur_filetime[i] \in Int /\ m_cur_filetime[i] <= now
    BY <1>4, LogAssumption DEF Times, FileTimes, NoFile, Foreign, Unopened
  <1>6. \A i \in DOMAIN stack :
            FrameTimes(stack[i], now, CurTime, NextTime, opened, mistaken) /\ stack[i].stamp \in Int
    <2>1. stack \in Seq(Frames) BY <1>1 DEF StackTyped
    <2>2. \A i \in DOMAIN stack : stack[i] \in Frames BY <2>1
    <2> QED BY <2>2, LogAssumption DEF Times, Frames
  <1>7. ASSUME NEW f, SetTop(f) \/ Return
         PROVE  /\ \A j \in DOMAIN stack' : j # Depth => stack'[j].pc \notin Inside
                /\ SetTop(f) => Depth \in DOMAIN stack' /\ stack'[Depth] = f
                /\ Return => Depth \notin DOMAIN stack'
    BY <1>1, <1>2, <1>7, StepOthers
  <1>8. Top.pc # "publish" =>
             \A fd \in Fds : fd = m_fd[Current] /\ IsLogFile(opened[fd]) => opened[fd] = CurTime
    <2>1. Top.pc # "publish" => \A j \in DOMAIN stack : stack[j].pc # "publish"
      BY <1>2 DEF Top, Inside
    <2> QED BY <2>1 DEF Times, SlotFiles
  <1>9. CASE NewFileClose
    <2>1. /\ SetTop(FrameAt("open")) /\ UNCHANGED <<m_pos, m_fd, m_cur_filetime>>
          /\ opened' = [fd \in Fds |-> IF fd = m_fd[m_next] THEN NoFile ELSE opened[fd]]
          /\ FrameAt("open").pc = "open" /\ FrameAt("open").opening = Top.opening
          /\ FrameAt("open").stamp = Top.stamp /\ Top.pc = "close"
      BY <1>1, <1>2, <1>9, FileSteps, FramePcs, FrameFields DEF NewFileClose, At
    <2>2. Current' = Current /\ m_next' = m_next BY <2>1 DEF Current, m_next
    <2>3. CurTime' = CurTime /\ NextTime' = NextTime BY <2>1, <2>2 DEF CurTime, NextTime
    <2>4. \A fd \in Fds : IsLogFile(opened'[fd]) => opened'[fd] = opened[fd]
      BY <2>1 DEF IsLogFile, NoFile
    <2>5. \A fd \in Fds : opened'[fd] <= now
      <3>1. NoFile <= now BY <1>1, LogAssumption DEF NoFile, BoundsTyped
      <3> QED BY <1>5, <2>1, <3>1
    <2>6. FileTimes' BY <1>2, <2>1, <2>3, <2>4, <2>5 DEF Times, FileTimes
    <2>7. SlotFiles'
      <3>1. \A j \in DOMAIN stack' : stack'[j].pc # "publish" BY <1>7, <2>1 DEF Inside
      <3> QED BY <1>8, <2>1, <2>2, <2>3, <2>4, <3>1 DEF SlotFiles
    <2>8. FrameTimes(FrameAt("open"), now', CurTime', NextTime', opened', mistaken')
      <3>1. Top.stamp = now \/ Top.stamp + 1 = now BY <1>3 DEF FrameTimes
      <3>2. Top.stamp <= Top.opening /\ Top.opening <= now BY <1>3, <2>1 DEF FrameTimes
      <3> QED BY <1>2, <1>3, <2>1, <3>1, <3>2 DEF FrameTimes
    <2>9. ASSUME NEW i \in DOMAIN stack, i # Depth
          PROVE  FrameTimes(stack[i], now', CurTime', NextTime', opened', mistaken')
      BY <1>2, <1>6, <2>3, <2>4, <2>9 DEF FrameTimes
    <2> QED BY <1>2, <2>1, <2>6, <2>8, <2>9, <2>7, TimesMoved
  <1>10. CASE NewFileOpen
    <2>1. PICK new \in Fds : /\ opened[new] = NoFile
                             /\ m_fd' = [m_fd EXCEPT ![m_next] = new]
                             /\ opened' = [opened EXCEPT ![new] = Top.opening]
      BY <1>10, FileSteps
    <2>2. /\ SetTop(FrameAt("publish")) /\ UNCHANGED m_pos /\ Top.pc = "open"
          /\ m_cur_filetime' = [m_cur_filetime EXCEPT ![m_next] = Top.opening]
          /\ FrameAt("publish").pc = "publish" /\ FrameAt("publish").stamp = Top.stamp
          /\ FrameAt("publish").opening = Top.opening
      BY <1>1, <1>2, <1>10, FileSteps, FramePcs, FrameFields
    <2>3. Current' = Current /\ m_next' = m_next BY <2>2 DEF Current, m_next
    <2>4. CurTime' = CurTime /\ NextTime' = Top.opening
      BY <1>4, <2>2, <2>3 DEF CurTime, NextTime
    <2>5. Top.stamp <= Top.opening /\ Top.opening <= now BY <1>3, <2>2 DEF FrameTimes
    <2>6. /\ opened'[new] = Top.opening
          /\ \A fd \in Fds : fd # new => opened'[fd] = opened[fd]
      BY <1>4, <2>1
    <2>7. /\ m_cur_filetime'[m_next] = Top.opening
          /\ m_cur_filetime'[Current] = m_cur_filetime[Current]
          /\ m_fd'[m_next] = new /\ m_fd'[Current] = m_fd[Current]
      BY <1>4, <2>1, <2>2
    <2>8. m_fd[Current] = new => mistaken
      <3>1. ~mistaken => \A fd \in Fds : fd = m_fd[Current] => IsLogFile(opened[fd])
        BY <1>4 DEF Slots, SlotsOpen
      <3> QED BY <2>1, <3>1 DEF IsLogFile, NoFile
    <2>9. FileTimes'
      <3>1. \A fd \in Fds : opened'[fd] <= now' BY <1>2, <1>5, <2>5, <2>6
      <3>2. \A i \in 0 .. 1 : m_cur_filetime'[i] <= now' BY <1>2, <1>4, <1>5, <2>5, <2>7
      <3> QED BY <3>1, <3>2 DEF FileTimes
    <2>10. SlotFiles'
      <3>1. /\ Depth \in DOMAIN stack' /\ stack'[Depth].pc = "publish"
            /\ stack'[Depth].opening = Top.opening
            /\ \A j \in DOMAIN stack' : stack'[j].pc = "publish" => j = Depth
        BY <1>7, <2>2 DEF Inside
      <3>2. ASSUME NEW fd \in Fds, fd = m_fd'[Current'], IsLogFile(opened'[fd])
            PROVE  \/ opened'[fd] = CurTime'
                   \/ /\ mistaken'
                      /\ \E j \in DOMAIN stack' :
                             stack'[j].pc = "publish" /\ opened'[fd] = stack'[j].opening
        <4>1. fd = m_fd[Current] BY <2>3, <2>7, <3>2
        <4>2. CASE fd = new BY <2>6, <2>8, <3>1, <4>1, <4>2
        <4>3. CASE fd # new BY <1>8, <2>2, <2>4, <2>6, <3>2, <4>1, <4>3
        <4> QED BY <4>2, <4>3
      <3>3. \A j \in DOMAIN stack' : stack'[j].pc = "publish" =>
                \A fd \in Fds : fd = m_fd'[m_next'] => opened'[fd] = stack'[j].opening
        BY <2>3, <2>6, <2>7, <3>1
      <3> QED BY <3>2, <3>3 DEF SlotFiles
    <2>11. FrameTimes(FrameAt("publish"), now', CurTime', NextTime', opened', mistaken')
      BY <1>2, <1>3, <2>2, <2>4, <2>5 DEF FrameTimes
    <2>12. ASSUME NEW i \in DOMAIN stack, i # Depth
           PROVE  FrameTimes(stack[i], now', CurTime', NextTime', opened', mistaken')
      <3>1. stack[i].pc \notin {"open", "publish"} BY <1>2, <2>12 DEF Inside
      <3>2. stack[i].stamp <= Top.opening BY <1>3, <1>6, <2>5
      <3>3. stack[i].pc = "put" /\ ~stack[i].retried =>
                \A fd \in Fds : fd = stack[i].fd /\ IsLogFile(opened'[fd]) =>
                    NotOld(stack[i].stamp, opened'[fd], mistaken)
        BY <1>6, <2>6, <3>2 DEF FrameTimes, NotOld
      <3>4. stack[i].pc \notin {"openclock", "close", "release"} BY <1>2, <2>12 DEF Inside
      <3> QED BY <1>2, <1>6, <2>4, <3>1, <3>3, <3>4 DEF FrameTimes
    <2> QED BY <1>2, <2>2, <2>9, <2>11, <2>12, <2>10, TimesMoved
  <1>11. CASE NewFileFails
    <2>1. /\ Return /\ UNCHANGED <<m_pos, opened, m_cur_filetime>>
          /\ m_fd' = [m_fd EXCEPT ![m_next] = -1]
      BY <1>11, FileSteps
    <2>2. Current' = Current /\ m_next' = m_next BY <2>1 DEF Current, m_next
    <2>3. CurTime' = CurTime /\ NextTime' = NextTime BY <2>1, <2>2 DEF CurTime, NextTime
    <2>4. m_fd'[Current] = m_fd[Current] BY <1>4, <2>1
    <2>5. FileTimes' BY <1>2, <2>1 DEF Times, FileTimes
    <2>6. SlotFiles'
      <3>1. \A j \in DOMAIN stack' : stack'[j].pc # "publish" BY <1>7, <2>1 DEF Inside
      <3>2. Top.pc # "publish" BY <1>11, FileSteps
      <3> QED BY <1>8, <2>1, <2>2, <2>3, <2>4, <3>1, <3>2 DEF SlotFiles
    <2>7. \A i \in DOMAIN stack : FrameTimes(stack[i], now', CurTime', NextTime', opened', mistaken')
      BY <1>2, <1>6, <2>1, <2>3
    <2>8. ~SetTop(Top) BY <1>1, <1>2, <2>1, StepOthers
    <2> QED BY <1>2, <2>1, <2>5, <2>7, <2>8, <2>6, TimesMoved
  <1>12. CASE NewFilePublish
    <2>1. /\ SetTop(FrameAt("release")) /\ m_pos' = m_pos + 1
          /\ UNCHANGED <<m_fd, opened, m_cur_filetime>>
          /\ Top.pc = "publish" /\ FrameAt("release").pc = "release"
          /\ FrameAt("release").stamp = Top.stamp
      BY <1>1, <1>2, <1>12, FileSteps, FramePcs, FrameFields
    <2>2. Current' = m_next BY <1>1, <2>1, SlotsAlternate
    <2>3. CurTime' = Top.opening
      <3>1. NextTime = Top.opening BY <1>3, <2>1 DEF FrameTimes
      <3> QED BY <2>1, <2>2, <3>1 DEF CurTime, NextTime
    <2>4. Top.stamp <= Top.opening /\ Top.opening <= now
          /\ (Top.stamp = now \/ Top.stamp + 1 = now)
      BY <1>3, <2>1 DEF FrameTimes
    <2>5. SlotFiles'
      <3>1. \A j \in DOMAIN stack' : stack'[j].pc # "publish" BY <1>7, <2>1 DEF Inside
      <3>2. \A fd \in Fds : fd = m_fd[m_next] => opened[fd] = Top.opening
        <4>1. Depth \in DOMAIN stack BY <1>1, <1>2, TopIs
        <4> QED BY <2>1, <4>1 DEF Times, SlotFiles, Top
      <3> QED BY <2>1, <2>2, <2>3, <3>1, <3>2 DEF SlotFiles
    <2>6. FileTimes' BY <1>2, <2>1 DEF Times, FileTimes
    <2>7. FrameTimes(FrameAt("release"), now', CurTime', NextTime', opened', mistaken')
      BY <1>2, <1>3, <2>1, <2>3, <2>4 DEF FrameTimes
    <2>8. ASSUME NEW i \in DOMAIN stack, i # Depth
          PROVE  FrameTimes(stack[i], now', CurTime', NextTime', opened', mistaken')
      <3>1. stack[i].pc \notin {"openclock", "close", "open", "publish", "release"} BY <1>2, <2>8 DEF Inside
      <3>2. stack[i].stamp <= CurTime' BY <1>3, <1>6, <2>3, <2>4
      <3> QED BY <1>2, <1>6, <2>1, <3>1, <3>2 DEF FrameTimes
    <2> QED BY <1>2, <2>1, <2>5, <2>6, <2>7, <2>8, TimesMoved
  <1> QED BY <1>9, <1>10, <1>11, <1>12 DEF FileStep

\* The frame of a call that begins.
LEMMA Begins ==
    ASSUME StackTyped, BoundsTyped, Prt \/ Signal
    PROVE  \E f \in Frames :
               /\ stack' = Append(stack, f) /\ \A i \in DOMAIN stack : stack[i].by # f.by
               /\ f.pc = "time" /\ f.stamp = now /\ f.then = "cut"
               /\ \/ f.by = "pulld" /\ stack = <<>> /\ UNCHANGED signals
                  \/ f.by \in Handlers /\ signals' = signals - 1
  <1>1. ASSUME NEW by \in {"pulld"} \cup Handlers
        PROVE  LET f == Frame(by, "time", "cut")
               IN  f \in Frames /\ f.by = by /\ f.pc = "time" /\ f.stamp = now /\ f.then = "cut"
    BY FrameType DEF Frame
  <1>2. CASE Prt
    <2> DEFINE f == Frame("pulld", "time", "cut")
    <2>1. stack = <<>> /\ stack' = <<f>> /\ UNCHANGED signals BY <1>2 DEF Prt
    <2>2. f \in Frames /\ f.by = "pulld" /\ f.pc = "time" /\ f.stamp = now /\ f.then = "cut"
      BY <1>1
    <2>3. stack' = Append(stack, f) /\ DOMAIN stack = {} BY <2>1
    <2> QED BY <2>1, <2>2, <2>3
  <1>3. CASE Signal
    <2>1. PICK signo \in Handlers :
              ~Blocked(signo) /\ stack' = Append(stack, Frame(signo, "time", "cut"))
      BY <1>3 DEF Signal
    <2> DEFINE f == Frame(signo, "time", "cut")
    <2>2. f \in Frames /\ f.by = signo /\ f.pc = "time" /\ f.stamp = now /\ f.then = "cut"
      BY <1>1
    <2>3. \A i \in DOMAIN stack : stack[i].by # f.by BY <2>1, <2>2 DEF Blocked
    <2>4. signals' = signals - 1 BY <1>3 DEF Signal
    <2> QED BY <2>1, <2>2, <2>3, <2>4
  <1> QED BY <1>2, <1>3

LEMMA BeginTimes ==
    ASSUME LogInv, Times, Prt \/ Signal, UNCHANGED mistaken
    PROVE  Times'
  <1>1. StackTyped /\ BoundsTyped /\ FilesTyped BY TypeParts DEF LogInv
  <1>2. PICK f \in Frames :
            /\ stack' = Append(stack, f) /\ \A i \in DOMAIN stack : stack[i].by # f.by
            /\ f.pc = "time" /\ f.stamp = now
    BY <1>1, Begins
  <1>3. /\ DOMAIN stack' = DOMAIN stack \cup {Depth + 1}
        /\ stack'[Depth + 1] = f
        /\ \A i \in DOMAIN stack : stack'[i] = stack[i]
    BY <1>1, <1>2, PushStack
  <1>4. FilesKept /\ UNCHANGED <<now, m_cur_filetime>> BY DEF Prt, Signal, FilesKept
  <1>5. /\ FileTimes' /\ SlotFiles' /\ CurTime' = CurTime /\ NextTime' = NextTime
        /\ now' = now /\ opened' = opened /\ mistaken' = mistaken
    <2>1. \A j \in DOMAIN stack' : stack'[j].pc = "publish" =>
              j \in DOMAIN stack /\ stack'[j] = stack[j]
      BY <1>2, <1>3
    <2> QED BY <1>3, <1>4, <2>1, FileTimesKept DEF Times
  <1>6. FrameTimes(f, now, CurTime, NextTime, opened, mistaken) BY <1>2 DEF FrameTimes
  <1>7. \A i \in DOMAIN stack' : FrameTimes(stack'[i], now', CurTime', NextTime', opened', mistaken')
    BY <1>3, <1>5, <1>6 DEF Times
  <1>8. DOMAIN stack = 1 .. Depth /\ Depth \in Nat BY <1>1 DEF StackTyped, Depth
  <1>9. now \in Int BY <1>1, LogAssumption DEF BoundsTyped
  <1>10. \A i \in DOMAIN stack : stack[i].stamp <= f.stamp
    <2>1. \A i \in DOMAIN stack : stack[i] \in Frames BY <1>1 DEF StackTyped
    <2>2. \A i \in DOMAIN stack : stack[i].stamp \in Int BY <2>1, LogAssumption DEF Frames
    <2>3. \A i \in DOMAIN stack : stack[i].stamp = now \/ stack[i].stamp + 1 = now
      BY DEF Times, FrameTimes
    <2> QED BY <1>2, <1>9, <2>2, <2>3
  <1>11. StampsGrow'
    <2> SUFFICES ASSUME NEW i \in DOMAIN stack', NEW j \in DOMAIN stack', i <= j
                 PROVE  stack'[i].stamp <= stack'[j].stamp
      BY DEF StampsGrow
    <2>1. CASE j \in DOMAIN stack
      <3>1. i \in DOMAIN stack BY <1>3, <1>8, <2>1
      <3> QED BY <1>3, <2>1, <3>1 DEF Times, StampsGrow
    <2>2. CASE j = Depth + 1
      <3>1. CASE i \in DOMAIN stack BY <1>3, <1>10, <2>2, <3>1
      <3>2. CASE i = Depth + 1 BY <1>2, <1>3, <1>9, <2>2, <3>2
      <3> QED BY <1>3, <3>1, <3>2
    <2> QED BY <1>3, <2>1, <2>2
  <1> QED BY <1>5, <1>7, <1>11 DEF Times

\* A day goes by only when every call on the stack has begun on it.
LEMMA TickTimes ==
    ASSUME LogInv, Times, Tick, UNCHANGED mistaken
    PROVE  Times'
  <1>1. StackTyped /\ BoundsTyped /\ FilesTyped BY TypeParts DEF LogInv
  <1>2. /\ now' = now + 1 /\ UNCHANGED <<m_pos, m_fd, m_cur_filetime, opened, stack>>
        /\ \A i \in DOMAIN stack : stack[i].stamp = now
    BY DEF Tick
  <1>3. now \in Int BY <1>1, LogAssumption DEF BoundsTyped
  <1>4. Current' = Current /\ m_next' = m_next BY <1>2 DEF Current, m_next
  <1>5. CurTime' = CurTime /\ NextTime' = NextTime BY <1>2, <1>4 DEF CurTime, NextTime
  <1>6. \A fd \in Fds : opened[fd] \in Int
    BY <1>1, LogAssumption DEF FilesTyped, NoFile, Foreign
  <1>7. \A i \in 0 .. 1 : m_cur_filetime[i] \in Int
    BY <1>1, LogAssumption DEF FilesTyped, Unopened
  <1>8. FileTimes'
    <2>1. \A fd \in Fds : opened'[fd] <= now' BY <1>2, <1>3, <1>6 DEF Times, FileTimes
    <2>2. \A i \in 0 .. 1 : m_cur_filetime'[i] <= now'
      BY <1>2, <1>3, <1>7 DEF Times, FileTimes
    <2> QED BY <2>1, <2>2 DEF FileTimes
  <1>9. SlotFiles' BY <1>2, <1>4, <1>5 DEF Times, SlotFiles
  <1>10. ASSUME NEW i \in DOMAIN stack
        PROVE  FrameTimes(stack[i], now', CurTime', NextTime', opened', mistaken')
    <2>1. FrameTimes(stack[i], now, CurTime, NextTime, opened, mistaken) BY DEF Times
    <2>2. stack[i] \in Frames BY <1>1 DEF StackTyped
    <2>3. stack[i].opening \in Int /\ stack[i].stamp = now BY <1>2, <2>2, LogAssumption DEF Frames
    <2>4. stack[i].pc \in {"openclock", "close", "open", "publish"} =>
              stack[i].stamp <= stack[i].opening /\ stack[i].opening <= now'
      BY <1>2, <1>3, <2>1, <2>3 DEF FrameTimes
    <2> QED BY <1>2, <1>3, <1>5, <2>1, <2>3, <2>4 DEF FrameTimes
  <1>11. StampsGrow' BY <1>2 DEF Times, StampsGrow
  <1> QED BY <1>2, <1>8, <1>10, <1>11, <1>9 DEF Times

\* pulld's loop opens no log file, and goes on only between two calls.
LEMMA LoopTimes ==
    ASSUME LogInv, Times, LoopMoves
    PROVE  Times'
  <1>1. /\ DOMAIN stack = {} /\ DOMAIN stack' = {}
        /\ UNCHANGED <<now, m_pos, m_fd, m_cur_filetime>>
        /\ opened \in [Fds -> 0 .. MaxDay \cup {NoFile, Foreign}]
        /\ now \in 0 .. MaxDay
    BY DEF LoopMoves, LogInv, LogTypeOK
  <1>2. Current' = Current BY <1>1 DEF Current
  <1>3. CurTime' = CurTime BY <1>1, <1>2 DEF CurTime
  <1>4. \A fd \in Fds : opened'[fd] = opened[fd] \/ opened'[fd] \in {NoFile, Foreign}
    <2>1. ASSUME NEW e \in Fds, OpensForeign(e), NEW fd \in Fds
          PROVE  opened'[fd] = opened[fd] \/ opened'[fd] \in {NoFile, Foreign}
      BY <1>1, <2>1 DEF OpensForeign
    <2>2. ASSUME NEW e, ClosesNumber(e), NEW fd \in Fds
          PROVE  opened'[fd] = opened[fd] \/ opened'[fd] \in {NoFile, Foreign}
      BY <2>2 DEF ClosesNumber
    <2> QED BY <2>1, <2>2 DEF LoopMoves
  <1>5. FileTimes'
    <2>1. NoFile <= now /\ Foreign <= now BY <1>1, LogAssumption DEF NoFile, Foreign
    <2> QED BY <1>1, <1>4, <2>1 DEF Times, FileTimes
  <1>6. SlotFiles'
    <2>1. \A fd \in Fds : IsLogFile(opened'[fd]) => opened'[fd] = opened[fd]
      BY <1>4 DEF IsLogFile, NoFile, Foreign
    <2> QED BY <1>1, <1>2, <1>3, <2>1 DEF Times, SlotFiles
  <1> QED BY <1>1, <1>5, <1>6 DEF Times, StampsGrow

LEMMA NextTimes ==
    ASSUME LogInv, Slots, Times, [PulldLogNext]_pvars
    PROVE  Times'
  <1>1. CASE UNCHANGED <<lvars, mistaken>>
    <2>1. FilesKept /\ UNCHANGED <<now, m_cur_filetime, stack, mistaken>>
      BY <1>1 DEF lvars, FilesKept
    <2>2. /\ FileTimes' /\ SlotFiles' /\ CurTime' = CurTime /\ NextTime' = NextTime
          /\ now' = now /\ opened' = opened /\ mistaken' = mistaken
      BY <2>1, FileTimesKept DEF Times
    <2> QED BY <2>1, <2>2 DEF Times, StampsGrow
  <1>2. ASSUME LogStep, UNCHANGED mistaken PROVE Times'
    BY <1>2, QuietTimes, FileStepTimes DEF LogStep, QuietStep, FileStep
  <1> QED BY <1>1, <1>2, BeginTimes, TickTimes, LoopTimes, NextCases DEF LogMoves

LEMMA InitTimes ==
    ASSUME PulldLogInit
    PROVE  Times
  <1>1. /\ m_cur_filetime = [i \in 0 .. 1 |-> Unopened] /\ now = 0
        /\ opened = [fd \in Fds |-> NoFile]
        /\ stack = <<Frame("pulld", "cas", "return")>>
    BY DEF PulldLogInit, LogInit
  <1>2. FileTimes BY <1>1 DEF FileTimes, NoFile, Unopened
  <1>3. \A i \in DOMAIN stack : i = 1 /\ stack[i].pc = "cas" /\ stack[i].stamp = now
    BY <1>1 DEF Frame
  <1>4. SlotFiles BY <1>1, <1>3 DEF SlotFiles, IsLogFile, NoFile
  <1>5. \A i \in DOMAIN stack : FrameTimes(stack[i], now, CurTime, NextTime, opened, mistaken)
    BY <1>3 DEF FrameTimes
  <1>6. StampsGrow BY <1>1, <1>3 DEF StampsGrow
  <1> QED BY <1>2, <1>4, <1>5, <1>6 DEF Times

\* The write itself.
LEMMA NextLines ==
    ASSUME LogInv, Times, LinesInTheirFile, [PulldLogNext]_pvars
    PROVE  LinesInTheirFile'
  <1>1. CASE PrtWrite /\ UNCHANGED mistaken
    <2>1. stack # <<>> /\ Top.pc = "put" BY <1>1 DEF PrtWrite, At
    <2>2. /\ Top \in Frames /\ FrameTimes(Top, now, CurTime, NextTime, opened, mistaken)
          /\ now \in Int /\ Top.stamp \in Int
      BY <2>1, TopTimes
    <2>3. CASE written' = {} BY <2>3 DEF LinesInTheirFile
    <2>4. CASE written' # {}
      <3> DEFINE l == [stamp |-> Top.stamp, retried |-> Top.retried, file |-> opened[Top.fd]]
      <3>1. Top.fd \in Fds /\ IsLogFile(opened[Top.fd]) /\ written' = {l}
        BY <1>1, <2>4 DEF PrtWrite
      <3>2. opened[Top.fd] <= now /\ opened[Top.fd] \in Int
        BY <3>1, TypeParts, LogAssumption
        DEF Times, FileTimes, LogInv, FilesTyped, NoFile, Foreign
      <3>3. opened[Top.fd] <= Top.stamp + 1 BY <2>2, <3>2 DEF FrameTimes
      <3>4. ~Top.retried => NotOld(Top.stamp, opened[Top.fd], mistaken)
        BY <2>1, <2>2, <3>1 DEF FrameTimes
      <3>5. opened[Top.fd] < Top.stamp =>
                \/ Top.retried
                \/ mday(opened[Top.fd]) = mday(Top.stamp)
                \/ mistaken /\ opened[Top.fd] = Top.stamp - 1
        BY <2>2, <3>2, <3>4 DEF NotOld
      <3>6. /\ l.file = opened[Top.fd] /\ l.stamp = Top.stamp /\ l.retried = Top.retried
        OBVIOUS
      <3> HIDE DEF l
      <3> QED BY <1>1, <3>1, <3>3, <3>5, <3>6 DEF LinesInTheirFile
    <2> QED BY <2>3, <2>4
  <1>2. CASE written' = {} BY <1>2 DEF LinesInTheirFile
  <1>3. CASE UNCHANGED written /\ (mistaken => mistaken') BY <1>3 DEF LinesInTheirFile
  <1>4. LogStep /\ ~PrtWrite => UNCHANGED written \/ written' = {}
    BY DEF LogStep, PrtLocaltime, PrtLocaltimeReturns, PrtFd, PrtCut, PrtArgument,
       NewFileCas, NewFileLocaltime, NewFileLocaltimeReturns, NewFileClose, NewFileOpen,
       NewFileFails, NewFilePublish, NewFileRelease
  <1>5. LogMoves /\ ~PrtWrite => UNCHANGED written \/ written' = {}
    BY <1>4 DEF LogMoves, Prt, Signal, Tick
  <1>6. LoopMoves => UNCHANGED written /\ (mistaken => mistaken')
    <2>1. ASSUME LoopMoves, mistaken PROVE mistaken'
      <3>1. CASE UNCHANGED mistaken BY <2>1, <3>1
      <3>2. ASSUME NEW fd, mistaken' = (mistaken \/ \E e \in Fds : e = fd /\ IsLogFile(opened[e]))
            PROVE  mistaken'
        BY <2>1, <3>2
      <3> QED BY <2>1, <3>1, <3>2 DEF LoopMoves
    <2> QED BY <2>1 DEF LoopMoves
  <1> QED BY <1>1, <1>2, <1>3, <1>5, <1>6, NextCases DEF lvars

\* A line is in a file of its day or of the next one, but for the cases that
\* LinesInTheirFile names: for every clock, length of the month and number of calls.
THEOREM LinesCorrect == PulldLogSpec => []LinesInTheirFile
  <1> DEFINE TInv == LogInv /\ Slots /\ Times /\ LinesInTheirFile
  <1>1. PulldLogInit => TInv
    <2> SUFFICES ASSUME PulldLogInit PROVE TInv
      OBVIOUS
    <2>1. LinesInTheirFile BY DEF PulldLogInit, LogInit, LinesInTheirFile
    <2> QED BY <2>1, InitLogInv, InitSlots, InitTimes
  <1>2. TInv /\ [PulldLogNext]_pvars => TInv'
    BY NextLogInv, NextSlots, NextTimes, NextLines
  <1>3. TInv => LinesInTheirFile OBVIOUS
  <1> QED BY <1>1, <1>2, <1>3, PTL DEF PulldLogSpec

-------------------------------------------------------------------------------
(* Why a line is lost *)

Used == Signals - signals

\* m_busy is set only while somebody works.
Busy == m_busy => \E i \in DOMAIN stack : stack[i].pc \in Inside

\* pulld itself interrupts nobody, and every call above another one took a signal.
Callers ==
    \A i \in DOMAIN stack :
        /\ stack[i].by = "pulld" => i = 1
        /\ i <= Used + 1

\* pulld's own call never finds new_file at work, so it has a file when it writes.
PulldHasFile ==
    \A i \in DOMAIN stack :
        /\ stack[i].pc = "release" => m_pos # -1
        /\ stack[i].by = "pulld" /\ stack[i].pc \in {"cut", "write"} => m_pos # -1
        /\ stack[i].by = "pulld" /\ stack[i].pc = "put" => stack[i].fd # -1

\* A call that has read a descriptor for its write; before and after its cut.
Holds(f) == f.pc = "put" /\ f.fd # -1
Early == {"time", "clock", "fd", "cut"}
Late == {"release", "write", "put"}

HoldersHaveFile == \A i \in DOMAIN stack : Holds(stack[i]) => m_pos # -1

\* What interrupts such a call finds a file, and opens at most one more.
AboveHolders ==
    \A i, j \in DOMAIN stack :
        i < j /\ Holds(stack[i]) => stack[j].pc \in Early \/ stack[j].then # "cut"

\* That descriptor is the current one; or, one cut later, still open, with nobody above
\* who could cut again; or a second signal has come.
OneCutLater(i) ==
    /\ stack[i].fd = m_fd[m_next]
    /\ \A fd \in Fds : fd = stack[i].fd => IsLogFile(opened[fd])
    /\ Used >= 1
    /\ \A j \in DOMAIN stack : i < j => stack[j].pc \in Late

\* Unless pulld has closed a file of the log.
HeldReachable ==
    ~mistaken => \A i \in DOMAIN stack : Holds(stack[i]) =>
        stack[i].fd = m_fd[Current] \/ OneCutLater(i) \/ Used >= 2

HeldOwn ==
    ~mistaken => \A i \in DOMAIN stack : Holds(stack[i]) =>
        \A fd \in Fds : fd = stack[i].fd => opened[fd] # Foreign

Calls == /\ Busy /\ Callers /\ PulldHasFile
         /\ HoldersHaveFile /\ AboveHolders /\ HeldReachable /\ HeldOwn

\* What the steps that leave the descriptors alone make of the call on the processor.
GoesOn(f) ==
    /\ f.by = Top.by /\ f.pc # "release"
    /\ f.pc = "put" => f.fd = CurrentFd
    /\ Top.pc \in Late /\ Top.then # "cut" => f.pc \in Late
    /\ m_pos # -1 /\ (Top.pc \in Early \/ Top.then # "cut") => f.pc \in Early \/ f.then # "cut"
    /\ f.by = "pulld" /\ f.pc \in {"cut", "write", "put"} => m_pos # -1

LEMMA QuietGoesOn ==
    ASSUME LogInv, Slots, Calls, QuietStep, UNCHANGED mistaken
    PROVE  \E f : (SetTop(f) /\ GoesOn(f)) \/ Return
  <1>1. StackTyped /\ FilesTyped /\ BoundsTyped BY TypeParts DEF LogInv
  <1>2. stack # <<>> BY QuietSteps
  <1>3. Top \in Frames /\ Depth \in DOMAIN stack /\ DOMAIN stack = 1 .. Depth
        /\ Depth \in Nat
    BY <1>1, <1>2, TopIs
  <1>4. m_fd[Current] = -1 <=> m_pos = -1 BY DEF Slots, FirstFile
  <1>5. /\ Top.pc = "release" => m_pos # -1
        /\ Top.by = "pulld" /\ Top.pc \in {"cut", "write"} => m_pos # -1
        /\ Top.by = "pulld" => Depth = 1
    BY <1>3 DEF Calls, PulldHasFile, Callers, Top
  <1>6. At("fd") => GoesOn(PrtFdFrame)
    <2>1. PrtFdFrame.pc \in {"cas", "cut"} /\ PrtFdFrame.then = "cut"
          /\ PrtFdFrame.by = Top.by
      BY <1>1, <1>2, FramePcs, FrameFields
    <2>2. PrtFdFrame.pc = "cut" <=> m_pos # -1 BY <1>3, <1>4 DEF PrtFdFrame, Frames
    <2> QED BY <2>1, <2>2 DEF GoesOn, At, Early, Late
  <1>7. At("cut") => GoesOn(PrtCutFrame)
    <2>1. PrtCutFrame.pc \in {"cas", "write"} /\ PrtCutFrame.then = "write"
          /\ PrtCutFrame.by = Top.by
      BY <1>1, <1>2, FramePcs, FrameFields
    <2> QED BY <1>5, <2>1 DEF GoesOn, At, Early, Late
  <1>8. At("write") => GoesOn(PutFrame)
    <2>1. PutFrame.pc = "put" /\ PutFrame.fd = CurrentFd /\ PutFrame.by = Top.by
          /\ PutFrame.then = Top.then
      BY <1>1, <1>2, FramePcs, FrameFields
    <2> QED BY <1>5, <2>1 DEF GoesOn, At, Early, Late
  <1>9. ASSUME NEW pc \in {"opentime", "close"}, At("cas") \/ At("openclock")
        PROVE  GoesOn(FrameAt(pc))
    <2>1. FrameAt(pc).pc = pc /\ FrameAt(pc).by = Top.by /\ FrameAt(pc).then = Top.then
      BY <1>1, <1>2, FramePcs, FrameFields
    <2> QED BY <1>9, <2>1 DEF GoesOn, At, Early, Late
  <1>10. At("opentime") => GoesOn(OpenClockFrame)
    <2>1. /\ OpenClockFrame.pc = "openclock" /\ OpenClockFrame.by = Top.by
          /\ OpenClockFrame.then = Top.then
      BY <1>1, <1>2, FramePcs, FrameFields
    <2> QED BY <2>1 DEF GoesOn, At, Early, Late
  <1>11. ASSUME NEW pc \in {"clock", "fd"}, At("time") \/ At("clock")
         PROVE  GoesOn(FrameAt(pc))
    <2>1. FrameAt(pc).pc = pc /\ FrameAt(pc).by = Top.by /\ FrameAt(pc).then = Top.then
      BY <1>1, <1>2, FramePcs, FrameFields
    <2> QED BY <1>11, <2>1 DEF GoesOn, At, Early, Late
  <1>12. At("cas") /\ m_busy /\ Top.then # "return" => GoesOn(BackFrame(TRUE))
    <2> SUFFICES ASSUME At("cas"), m_busy, Top.then # "return" PROVE GoesOn(BackFrame(TRUE))
      OBVIOUS
    <2>1. /\ BackFrame(TRUE).pc = Top.then /\ BackFrame(TRUE).by = Top.by
          /\ BackFrame(TRUE).then = Top.then
      BY <1>1, <1>2, FramePcs, FrameFields
    <2>2. Top.then \in {"cut", "write"} BY <1>3 DEF Frames
    <2>3. Top.by # "pulld"
      <3>1. PICK i \in DOMAIN stack : stack[i].pc \in Inside BY DEF Calls, Busy
      <3>2. i # Depth BY <3>1 DEF At, Top, Inside
      <3> QED BY <1>3, <1>5, <3>2
    <2> QED BY <2>1, <2>2, <2>3 DEF GoesOn, At, Early, Late
  <1>13. At("release") /\ Top.then # "return" => GoesOn(BackFrame(FALSE))
    <2> SUFFICES ASSUME At("release"), Top.then # "return" PROVE GoesOn(BackFrame(FALSE))
      OBVIOUS
    <2>1. /\ BackFrame(FALSE).pc = Top.then /\ BackFrame(FALSE).by = Top.by
          /\ BackFrame(FALSE).then = Top.then
      BY <1>1, <1>2, FramePcs, FrameFields
    <2>2. Top.then \in {"cut", "write"} BY <1>3 DEF Frames
    <2> QED BY <1>5, <2>1, <2>2 DEF GoesOn, At, Early, Late
  <1> QED BY <1>6, <1>7, <1>8, <1>9, <1>12, <1>13, <1>10, <1>11, QuietSteps

LEMMA QuietBusy ==
    ASSUME LogInv, Calls, QuietStep
    PROVE  Busy'
  <1> SUFFICES ASSUME m_busy' PROVE \E i \in DOMAIN stack' : stack'[i].pc \in Inside
    BY DEF Busy
  <1>1. StackTyped BY TypeParts DEF LogInv
  <1>2. stack # <<>> BY QuietSteps
  <1>3. ASSUME NEW f, SetTop(f), f.pc \in Inside
        PROVE  \E i \in DOMAIN stack' : stack'[i].pc \in Inside
    BY <1>1, <1>2, <1>3, StepOthers
  <1>4. CASE At("cas") /\ SetTop(FrameAt("opentime"))
    <2>1. FrameAt("opentime").pc \in Inside BY <1>1, <1>2, FramePcs DEF Inside
    <2> QED BY <1>3, <1>4, <2>1
  <1>5. CASE SetTop(OpenClockFrame)
    <2>1. OpenClockFrame.pc \in Inside BY <1>1, <1>2, FramePcs DEF Inside
    <2> QED BY <1>3, <1>5, <2>1
  <1>6. CASE SetTop(FrameAt("close"))
    <2>1. FrameAt("close").pc \in Inside BY <1>1, <1>2, FramePcs DEF Inside
    <2> QED BY <1>3, <1>6, <2>1
  <1>7. CASE /\ ~(At("cas") /\ SetTop(FrameAt("opentime")))
             /\ ~SetTop(OpenClockFrame) /\ ~SetTop(FrameAt("close"))
    <2>1. m_busy /\ Top.pc \notin Inside /\ \E f : SetTop(f) \/ Return
      <3>1. ~At("release")
        <4>1. At("release") => ~m_busy' BY QuietSteps DEF At
        <4> QED BY <4>1
      <3> QED BY <1>7, <3>1, QuietSteps DEF At, Inside
    <2>2. PICK i \in DOMAIN stack : stack[i].pc \in Inside BY <2>1 DEF Calls, Busy
    <2>3. i # Depth BY <2>1, <2>2 DEF Top
    <2>4. i \in DOMAIN stack' /\ stack'[i] = stack[i]
      BY <1>1, <1>2, <2>1, <2>3, StepOthers
    <2> QED BY <2>2, <2>4
  <1> QED BY <1>4, <1>5, <1>6, <1>7

LEMMA QuietCalls ==
    ASSUME LogInv, Slots, Calls, QuietStep, UNCHANGED mistaken
    PROVE  Calls'
  <1>1. StackTyped /\ FilesTyped BY TypeParts DEF LogInv
  <1>2. stack # <<>> /\ UNCHANGED <<m_pos, m_fd, opened, signals>>
    BY QuietSteps DEF FilesKept
  <1>3. Current' = Current /\ m_next' = m_next /\ Used' = Used
    BY <1>2 DEF Current, m_next, Used
  <1>4. PICK f : (SetTop(f) /\ GoesOn(f)) \/ Return BY QuietGoesOn
  <1>5. /\ DOMAIN stack' \subseteq DOMAIN stack /\ DOMAIN stack = 1 .. Depth /\ Depth \in Nat
        /\ Depth \in DOMAIN stack
        /\ \A i \in DOMAIN stack' : i # Depth => stack'[i] = stack[i]
        /\ Depth \in DOMAIN stack' => stack'[Depth] = f /\ GoesOn(f)
    BY <1>1, <1>2, <1>4, StepOthers, TopIs
  <1>6. \A i \in DOMAIN stack' : i \in DOMAIN stack /\ (i < Depth \/ i = Depth) BY <1>5
  <1>7. m_fd[Current] = -1 <=> m_pos = -1 BY DEF Slots, FirstFile
  <1>8. Callers'
    <2>1. \A i \in DOMAIN stack' : stack'[i].by = stack[i].by
      BY <1>5 DEF GoesOn, Top
    <2> QED BY <1>3, <1>5, <2>1 DEF Calls, Callers
  <1>9. PulldHasFile'
    <2>1. Depth \in DOMAIN stack' =>
              /\ f.pc # "release"
              /\ f.by = "pulld" /\ f.pc \in {"cut", "write"} => m_pos # -1
              /\ f.by = "pulld" /\ f.pc = "put" => f.fd # -1
      BY <1>5, <1>7 DEF GoesOn, CurrentFd
    <2> QED BY <1>2, <1>5, <2>1 DEF Calls, PulldHasFile
  <1>10. HoldersHaveFile'
    <2>1. Depth \in DOMAIN stack' /\ Holds(f) => m_pos # -1
      BY <1>5, <1>7 DEF GoesOn, CurrentFd, Holds
    <2> QED BY <1>2, <1>5, <2>1 DEF Calls, HoldersHaveFile
  <1>11. ASSUME NEW i \in DOMAIN stack', NEW j \in DOMAIN stack', i < j, Holds(stack'[i])
         PROVE  stack'[j].pc \in Early \/ stack'[j].then # "cut"
    <2>1. i # Depth /\ i \in DOMAIN stack /\ j \in DOMAIN stack /\ stack'[i] = stack[i]
      BY <1>5, <1>11
    <2>2. stack[j].pc \in Early \/ stack[j].then # "cut"
      BY <1>11, <2>1 DEF Calls, AboveHolders
    <2>3. m_pos # -1 BY <1>11, <2>1 DEF Calls, HoldersHaveFile
    <2>4. CASE j # Depth BY <1>5, <2>2, <2>4
    <2>5. CASE j = Depth BY <1>5, <2>2, <2>3, <2>5 DEF GoesOn, Top
    <2> QED BY <2>4, <2>5
  <1>12. AboveHolders' BY <1>11 DEF AboveHolders
  <1>13. ASSUME ~mistaken, NEW i \in DOMAIN stack', Holds(stack'[i]),
                stack'[i].fd # m_fd[Current], ~(Used >= 2)
         PROVE  OneCutLater(i)'
    <2>1. i # Depth /\ stack'[i] = stack[i] /\ i \in DOMAIN stack
      <3>1. Depth \in DOMAIN stack' /\ Holds(f) => f.fd = m_fd[Current]
        BY <1>5 DEF GoesOn, CurrentFd, Holds
      <3> QED BY <1>5, <1>13, <3>1
    <2>2. OneCutLater(i) BY <1>13, <2>1 DEF Calls, HeldReachable
    <2>3. ASSUME NEW j \in DOMAIN stack', i < j
          PROVE  stack'[j].pc \in Late
      <3>1. j \in DOMAIN stack /\ stack[j].pc \in Late BY <1>5, <2>2, <2>3 DEF OneCutLater
      <3>2. stack[j].then # "cut"
        BY <1>13, <2>1, <2>3, <3>1 DEF Calls, AboveHolders, Early, Late
      <3>3. CASE j # Depth BY <1>5, <3>1, <3>3
      <3>4. CASE j = Depth BY <1>5, <3>1, <3>2, <3>4 DEF GoesOn, Top
      <3> QED BY <3>3, <3>4
    <2> QED BY <1>2, <1>3, <2>1, <2>2, <2>3 DEF OneCutLater
  <1>14. HeldReachable' BY <1>2, <1>3, <1>13 DEF HeldReachable
  <1>15. HeldOwn'
    <2> SUFFICES ASSUME ~mistaken, NEW i \in DOMAIN stack', Holds(stack'[i]),
                        NEW fd \in Fds, fd = stack'[i].fd
                 PROVE  opened[fd] # Foreign
      BY <1>2 DEF HeldOwn
    <2>1. CASE i # Depth
      BY <1>5, <2>1 DEF Calls, HeldOwn
    <2>2. CASE i = Depth
      <3>1. fd = m_fd[Current] BY <1>5, <2>2 DEF GoesOn, CurrentFd, Holds
      <3>2. Current \in 0 .. 1 /\ Current # m_next BY <1>1, SlotsAlternate
      <3>3. IsLogFile(opened[fd]) BY <3>1, <3>2 DEF Slots, SlotsOpen
      <3> QED BY <3>3 DEF IsLogFile, Foreign
    <2> QED BY <2>1, <2>2
  <1> QED BY <1>8, <1>9, <1>10, <1>12, <1>14, <1>15, QuietBusy DEF Calls

\* The steps inside new_file, but for what they do to the descriptors.
LEMMA InsideCalls ==
    ASSUME LogInv, Calls, stack # <<>>, Top.pc \in Inside \ {"release"},
           NEW f, SetTop(f) \/ Return, m_busy' => SetTop(f),
           SetTop(f) =>
               /\ f.by = Top.by /\ f.then = Top.then
               /\ f.pc \in {"open", "publish", "release"} /\ (f.pc = "release" => m_pos' # -1),
           m_pos # -1 => m_pos' # -1, UNCHANGED <<signals, mistaken>>,
           \A fd \in Fds : opened'[fd] = Foreign => opened[fd] = Foreign
    PROVE  /\ Busy' /\ Callers' /\ PulldHasFile' /\ HoldersHaveFile' /\ AboveHolders'
           /\ HeldOwn' /\ Used' = Used
           /\ \A i \in DOMAIN stack' : Holds(stack'[i]) =>
                 /\ i \in 1 .. Depth - 1 /\ stack'[i] = stack[i]
                 /\ stack[i].fd = m_fd[Current] \/ Used >= 2 \/ mistaken
           /\ \A j \in DOMAIN stack' : j = Depth => stack'[j] = f
           /\ Depth <= Used + 1 /\ DOMAIN stack' \subseteq 1 .. Depth /\ Depth \in Nat
  <1>1. StackTyped BY TypeParts DEF LogInv
  <1>2. Used' = Used BY DEF Used
  <1>3. /\ DOMAIN stack' \subseteq DOMAIN stack /\ DOMAIN stack = 1 .. Depth /\ Depth \in Nat
        /\ Depth \in DOMAIN stack
        /\ \A i \in DOMAIN stack' : i # Depth => stack'[i] = stack[i]
        /\ Depth \in DOMAIN stack' => stack'[Depth] = f /\ SetTop(f)
        /\ SetTop(f) => Depth \in DOMAIN stack'
    BY <1>1, StepOthers, TopIs
  <1>4. Busy' BY <1>3 DEF Busy, Inside
  <1>5. Callers'
    <2>1. \A i \in DOMAIN stack' : stack'[i].by = stack[i].by BY <1>3 DEF Top
    <2> QED BY <1>2, <1>3, <2>1 DEF Calls, Callers
  <1>6. PulldHasFile' BY <1>3 DEF Calls, PulldHasFile
  <1>7. \A i \in DOMAIN stack' : Holds(stack'[i]) =>
            i \in 1 .. Depth - 1 /\ stack'[i] = stack[i]
    BY <1>3 DEF Holds
  <1>8. HoldersHaveFile' BY <1>3, <1>7 DEF Calls, HoldersHaveFile
  <1>9. \A j \in DOMAIN stack' : stack'[j].then = stack[j].then
    BY <1>3 DEF Top
  <1>10. AboveHolders'
    <2> SUFFICES ASSUME NEW i \in DOMAIN stack', NEW j \in DOMAIN stack', i < j,
                        Holds(stack'[i])
                 PROVE  stack'[j].pc \in Early \/ stack'[j].then # "cut"
      BY DEF AboveHolders
    <2>1. stack'[i] = stack[i] /\ i \in DOMAIN stack /\ j \in DOMAIN stack BY <1>3, <1>7
    <2>2. stack[j].pc \in Early \/ stack[j].then # "cut" BY <2>1 DEF Calls, AboveHolders
    <2>3. CASE j # Depth BY <1>3, <2>2, <2>3
    <2>4. CASE j = Depth BY <1>9, <2>2, <2>4 DEF Top, Early, Inside
    <2> QED BY <2>3, <2>4
  <1>11. ASSUME NEW i \in DOMAIN stack', Holds(stack'[i])
         PROVE  stack[i].fd = m_fd[Current] \/ Used >= 2 \/ mistaken
    <2>1. i \in 1 .. Depth - 1 /\ stack'[i] = stack[i] BY <1>7, <1>11
    <2>2. i < Depth /\ i \in DOMAIN stack BY <1>3, <2>1
    <2>3. ~OneCutLater(i) BY <1>3, <2>2 DEF OneCutLater, Top, Late, Inside
    <2> QED BY <1>11, <2>1, <2>2, <2>3 DEF Calls, HeldReachable
  <1>12. Depth <= Used + 1 BY <1>3 DEF Calls, Callers
  <1>13. \A j \in DOMAIN stack' : j = Depth => stack'[j] = f BY <1>3
  <1>14. HeldOwn' BY <1>3, <1>7 DEF Calls, HeldOwn
  <1> QED BY <1>2, <1>3, <1>4, <1>5, <1>6, <1>7, <1>8, <1>10, <1>11, <1>12, <1>13, <1>14

\* Only pulld's loop opens what is not a file of the log.
LEMMA ForeignOfLoop ==
    ASSUME LogInv, LogMoves
    PROVE  \A fd \in Fds : opened'[fd] = Foreign => opened[fd] = Foreign
  <1>1. StackTyped /\ FilesTyped /\ opened \in [Fds -> 0 .. MaxDay \cup {NoFile, Foreign}]
    BY TypeParts DEF LogInv, FilesTyped
  <1>2. CASE NewFileClose BY <1>2 DEF NewFileClose, NextClosed, NoFile, Foreign
  <1>3. CASE NewFileOpen
    <2>1. stack # <<>> BY <1>3 DEF NewFileOpen, At
    <2>2. Top \in Frames BY <1>1, <2>1, TopIs
    <2>3. Top.opening # Foreign BY <2>2, LogAssumption DEF Frames, Foreign
    <2>4. PICK new \in Fds : opened' = [opened EXCEPT ![new] = Top.opening]
      BY <1>3 DEF NewFileOpen
    <2> QED BY <1>1, <2>3, <2>4
  <1>4. CASE UNCHANGED opened BY <1>4
  <1>5. LogStep => NewFileClose \/ NewFileOpen \/ UNCHANGED opened
    BY DEF LogStep, PrtLocaltime, PrtLocaltimeReturns, PrtFd, PrtCut, PrtArgument, PrtWrite,
       NewFileCas, NewFileLocaltime, NewFileLocaltimeReturns,
       NewFileFails, NewFilePublish, NewFileRelease
  <1>6. Prt \/ Signal \/ Tick => UNCHANGED opened BY DEF Prt, Signal, Tick
  <1> QED BY <1>2, <1>3, <1>4, <1>5, <1>6 DEF LogMoves

LEMMA FileCalls ==
    ASSUME LogInv, Slots, Calls, FileStep, UNCHANGED mistaken
    PROVE  Calls'
  <1>1. StackTyped /\ FilesTyped /\ BoundsTyped BY TypeParts DEF LogInv
  <1>2. stack # <<>> /\ Top.pc \in Inside BY FileSteps
  <1>3. /\ Current \in 0 .. 1 /\ m_next \in 0 .. 1 /\ Current # m_next
        /\ m_fd \in [0 .. 1 -> Fds \cup {-1}]
    BY <1>1, SlotsAlternate DEF FilesTyped
  <1>4. UNCHANGED <<signals, mistaken>> BY FileSteps DEF FileStep
  <1>5. \A fd \in Fds : opened'[fd] = Foreign => opened[fd] = Foreign BY ForeignOfLoop DEF LogMoves, LogStep, FileStep
  <1>6. CASE NewFileClose
    <2>1. /\ SetTop(FrameAt("open")) /\ UNCHANGED <<m_pos, m_fd>> /\ FrameAt("open").pc = "open"
          /\ FrameAt("open").by = Top.by /\ FrameAt("open").then = Top.then
      BY <1>1, <1>2, <1>6, FileSteps, FramePcs, FrameFields
    <2>2. Top.pc # "release" BY <1>6 DEF NewFileClose, At
    <2>3. Current' = Current BY <2>1 DEF Current
    <2>4. /\ Busy' /\ Callers' /\ PulldHasFile' /\ HoldersHaveFile' /\ AboveHolders'
          /\ HeldOwn' /\ Used' = Used
          /\ \A i \in DOMAIN stack' : Holds(stack'[i]) =>
                /\ i \in 1 .. Depth - 1 /\ stack'[i] = stack[i]
                /\ stack[i].fd = m_fd[Current] \/ Used >= 2 \/ mistaken
      BY <1>2, <1>4, <2>1, <2>2, <1>5, InsideCalls
    <2>5. HeldReachable' BY <1>4, <2>1, <2>3, <2>4 DEF HeldReachable
    <2> QED BY <2>4, <2>5 DEF Calls
  <1>7. CASE NewFileOpen
    <2>1. /\ SetTop(FrameAt("publish")) /\ UNCHANGED m_pos /\ Top.pc = "open"
          /\ FrameAt("publish").pc = "publish" /\ FrameAt("publish").by = Top.by
          /\ FrameAt("publish").then = Top.then
          /\ \E new \in Fds : m_fd' = [m_fd EXCEPT ![m_next] = new]
      BY <1>1, <1>2, <1>7, FileSteps, FramePcs, FrameFields
    <2>2. Current' = Current /\ m_fd'[Current] = m_fd[Current] BY <1>3, <2>1 DEF Current
    <2>3. /\ Busy' /\ Callers' /\ PulldHasFile' /\ HoldersHaveFile' /\ AboveHolders'
          /\ HeldOwn' /\ Used' = Used
          /\ \A i \in DOMAIN stack' : Holds(stack'[i]) =>
                /\ i \in 1 .. Depth - 1 /\ stack'[i] = stack[i]
                /\ stack[i].fd = m_fd[Current] \/ Used >= 2 \/ mistaken
      BY <1>2, <1>4, <2>1, <1>5, InsideCalls
    <2>4. HeldReachable' BY <1>4, <2>2, <2>3 DEF HeldReachable
    <2> QED BY <2>3, <2>4 DEF Calls
  <1>8. CASE NewFileFails
    <2>1. /\ Return /\ UNCHANGED <<m_pos, opened>> /\ m_fd' = [m_fd EXCEPT ![m_next] = -1]
          /\ Top.pc = "open" /\ ~m_busy'
      BY <1>8, FileSteps DEF NewFileFails
    <2>2. Current' = Current /\ m_fd'[Current] = m_fd[Current] BY <1>3, <2>1 DEF Current
    <2>3. ~SetTop(Top) BY <1>1, <1>2, <2>1, StepOthers
    <2>4. /\ Busy' /\ Callers' /\ PulldHasFile' /\ HoldersHaveFile' /\ AboveHolders'
          /\ HeldOwn' /\ Used' = Used
          /\ \A i \in DOMAIN stack' : Holds(stack'[i]) =>
                /\ i \in 1 .. Depth - 1 /\ stack'[i] = stack[i]
                /\ stack[i].fd = m_fd[Current] \/ Used >= 2 \/ mistaken
      BY <1>2, <1>4, <2>1, <2>3, <1>5, InsideCalls
    <2>5. HeldReachable' BY <1>4, <2>2, <2>4 DEF HeldReachable
    <2> QED BY <2>4, <2>5 DEF Calls
  <1>9. CASE NewFilePublish
    <2> DEFINE f == FrameAt("release")
    <2>1. /\ SetTop(f) /\ m_pos' = m_pos + 1 /\ UNCHANGED <<m_fd, opened>>
          /\ Top.pc = "publish" /\ f.pc = "release"
          /\ f.by = Top.by /\ f.then = Top.then
      BY <1>1, <1>2, <1>9, FileSteps, FramePcs, FrameFields
    <2>2. m_pos' # -1 BY <1>1, <2>1 DEF FilesTyped
    <2> HIDE DEF f
    <2>3. /\ Busy' /\ Callers' /\ PulldHasFile' /\ HoldersHaveFile' /\ AboveHolders'
          /\ HeldOwn' /\ Used' = Used
          /\ \A i \in DOMAIN stack' : Holds(stack'[i]) =>
                /\ i \in 1 .. Depth - 1 /\ stack'[i] = stack[i]
                /\ stack[i].fd = m_fd[Current] \/ Used >= 2 \/ mistaken
          /\ \A j \in DOMAIN stack' : j = Depth => stack'[j] = f
          /\ Depth <= Used + 1 /\ DOMAIN stack' \subseteq 1 .. Depth /\ Depth \in Nat
      BY <1>2, <1>4, <2>1, <2>2, <1>5, InsideCalls
    <2>4. m_next' = Current BY <1>1, <2>1, SlotsAlternate
    <2>5. Used \in Int BY <1>1, LogAssumption DEF Used, BoundsTyped
    <2>6. ASSUME ~mistaken, NEW i \in DOMAIN stack', Holds(stack'[i]), ~(Used' >= 2)
          PROVE  OneCutLater(i)'
      <3>1. /\ i \in 1 .. Depth - 1 /\ stack'[i] = stack[i] /\ stack[i].fd = m_fd[Current]
        BY <2>3, <2>6
      <3>2. Depth = 2 /\ i = 1 /\ Used = 1 BY <2>3, <2>5, <2>6, <3>1
      <3>3. \A j \in DOMAIN stack' : i < j => stack'[j].pc \in Late
        <4>1. \A j \in DOMAIN stack' : i < j => j = Depth BY <2>3, <3>2
        <4> QED BY <2>1, <2>3, <4>1 DEF Late
      <3>4. stack'[i].fd = m_fd'[m_next'] BY <2>1, <2>4, <3>1
      <3>5. \A fd \in Fds : fd = m_fd[Current] => IsLogFile(opened[fd])
        BY <1>3, <2>6 DEF Slots, SlotsOpen
      <3>6. \A fd \in Fds : fd = stack'[i].fd => IsLogFile(opened'[fd])
        BY <2>1, <3>1, <3>5
      <3>7. Used' >= 1 BY <2>3, <3>2
      <3> QED BY <3>3, <3>4, <3>6, <3>7 DEF OneCutLater
    <2>7. HeldReachable' BY <1>4, <2>6 DEF HeldReachable
    <2> QED BY <2>3, <2>7 DEF Calls
  <1> QED BY <1>6, <1>7, <1>8, <1>9 DEF FileStep

\* A handler comes on top with a signal; what it interrupts has one more to its name.
LEMMA BeginCalls ==
    ASSUME LogInv, Slots, Calls, Prt \/ Signal, UNCHANGED mistaken
    PROVE  Calls'
  <1>1. StackTyped /\ BoundsTyped /\ FilesTyped BY TypeParts DEF LogInv
  <1>2. PICK f \in Frames :
            /\ stack' = Append(stack, f) /\ \A i \in DOMAIN stack : stack[i].by # f.by
            /\ f.pc = "time"
            /\ \/ f.by = "pulld" /\ stack = <<>> /\ UNCHANGED signals
               \/ f.by \in Handlers /\ signals' = signals - 1
    BY <1>1, Begins
  <1>3. /\ DOMAIN stack' = DOMAIN stack \cup {Depth + 1}
        /\ stack'[Depth + 1] = f
        /\ \A i \in DOMAIN stack : stack'[i] = stack[i]
    BY <1>1, <1>2, PushStack
  <1>4. UNCHANGED <<m_pos, m_fd, m_busy, opened>> BY DEF Prt, Signal
  <1>5. Current' = Current /\ m_next' = m_next BY <1>4 DEF Current, m_next
  <1>6. DOMAIN stack = 1 .. Depth /\ Depth \in Nat /\ (stack = <<>> => Depth = 0)
    BY <1>1 DEF StackTyped, Depth
  <1>7. Used \in Int /\ Used >= 0 /\ (Used' = Used \/ Used' = Used + 1)
    <2>1. signals \in 0 .. Signals /\ Signals \in Nat BY <1>1, LogAssumption DEF BoundsTyped
    <2> QED BY <1>2, <2>1 DEF Used
  <1>8. Busy' BY <1>3, <1>4 DEF Calls, Busy
  <1>9. Callers'
    <2>1. ASSUME NEW i \in DOMAIN stack
          PROVE  (stack'[i].by = "pulld" => i = 1) /\ i <= Used' + 1
      BY <1>3, <1>6, <1>7 DEF Calls, Callers
    <2>2. (f.by = "pulld" => Depth + 1 = 1) /\ Depth + 1 <= Used' + 1
      <3>1. CASE f.by = "pulld" /\ stack = <<>> BY <1>6, <1>7, <3>1
      <3>2. CASE f.by \in Handlers /\ signals' = signals - 1
        <4>1. Used' = Used + 1
          BY <1>1, <3>2, LogAssumption DEF Used, BoundsTyped
        <4>2. Depth <= Used + 1
          <5>1. CASE Depth = 0 BY <1>7, <5>1
          <5>2. CASE Depth \in DOMAIN stack BY <5>2 DEF Calls, Callers
          <5> QED BY <1>6, <5>1, <5>2
        <4>3. f.by # "pulld" BY <3>2 DEF Handlers
        <4> QED BY <1>6, <1>7, <4>1, <4>2, <4>3
      <3> QED BY <1>2, <3>1, <3>2
    <2> QED BY <1>3, <2>1, <2>2 DEF Callers
  <1>10. PulldHasFile' BY <1>2, <1>3, <1>4 DEF Calls, PulldHasFile
  <1>11. \A i \in DOMAIN stack' : Holds(stack'[i]) => i \in DOMAIN stack /\ stack'[i] = stack[i]
    BY <1>2, <1>3 DEF Holds
  <1>12. HoldersHaveFile' BY <1>4, <1>11 DEF Calls, HoldersHaveFile
  <1>13. AboveHolders'
    <2> SUFFICES ASSUME NEW i \in DOMAIN stack', NEW j \in DOMAIN stack', i < j,
                        Holds(stack'[i])
                 PROVE  stack'[j].pc \in Early \/ stack'[j].then # "cut"
      BY DEF AboveHolders
    <2>1. CASE j \in DOMAIN stack BY <1>3, <1>11, <2>1 DEF Calls, AboveHolders
    <2>2. CASE j = Depth + 1 BY <1>2, <1>3, <2>2 DEF Early
    <2> QED BY <1>3, <2>1, <2>2
  <1>14. ASSUME ~mistaken, NEW i \in DOMAIN stack', Holds(stack'[i]),
                stack'[i].fd # m_fd[Current]
         PROVE  Used' >= 2
    <2>1. i \in DOMAIN stack /\ stack'[i] = stack[i] BY <1>11, <1>14
    <2>2. Used >= 1 BY <1>7, <1>14, <2>1 DEF Calls, HeldReachable, OneCutLater
    <2>3. stack # <<>>
      <3>1. Depth # 0 BY <1>6, <2>1
      <3> QED BY <3>1 DEF Depth
    <2>4. Used' = Used + 1
      BY <1>1, <1>2, <2>3, LogAssumption DEF Used, BoundsTyped
    <2> QED BY <1>7, <2>2, <2>4
  <1>15. HeldReachable' BY <1>4, <1>5, <1>14 DEF HeldReachable
  <1>16. HeldOwn' BY <1>4, <1>11 DEF Calls, HeldOwn
  <1> QED BY <1>8, <1>9, <1>10, <1>12, <1>13, <1>15, <1>16 DEF Calls

\* pulld's loop goes on only when no call is on the stack.
LEMMA LoopCalls ==
    ASSUME LogInv, Calls, LoopMoves
    PROVE  Calls'
  <1>1. DOMAIN stack = {} /\ DOMAIN stack' = {} /\ UNCHANGED m_busy BY DEF LoopMoves
  <1>2. Busy' BY <1>1 DEF Calls, Busy
  <1> QED BY <1>1, <1>2
      DEF Calls, Callers, PulldHasFile, HoldersHaveFile, AboveHolders, HeldReachable, HeldOwn

LEMMA NextCalls ==
    ASSUME LogInv, Slots, Calls, [PulldLogNext]_pvars
    PROVE  Calls'
  <1>1. ASSUME Tick \/ UNCHANGED lvars, UNCHANGED mistaken PROVE Calls'
    <2>1. UNCHANGED <<m_pos, m_fd, m_busy, opened, stack, signals, mistaken>>
      BY <1>1 DEF Tick, lvars
    <2>2. Current' = Current /\ m_next' = m_next /\ Used' = Used
      BY <2>1 DEF Current, m_next, Used
    <2>3. Busy' /\ Callers' /\ PulldHasFile'
      BY <2>1, <2>2 DEF Calls, Busy, Callers, PulldHasFile
    <2>4. HoldersHaveFile' /\ AboveHolders' /\ HeldOwn'
      BY <2>1 DEF Calls, HoldersHaveFile, AboveHolders, HeldOwn
    <2>5. HeldReachable' BY <2>1, <2>2 DEF Calls, HeldReachable, OneCutLater
    <2> QED BY <2>3, <2>4, <2>5 DEF Calls
  <1>2. ASSUME LogStep, UNCHANGED mistaken PROVE Calls'
    BY <1>2, QuietCalls, FileCalls DEF LogStep, QuietStep, FileStep
  <1> QED BY <1>1, <1>2, BeginCalls, LoopCalls, NextCases DEF LogMoves

LEMMA InitCalls ==
    ASSUME PulldLogInit
    PROVE  Calls
  <1>1. stack = <<Frame("pulld", "cas", "return")>> /\ ~m_busy /\ signals = Signals
    BY DEF PulldLogInit, LogInit
  <1>2. \A i \in DOMAIN stack : i = 1 /\ stack[i].pc = "cas" /\ stack[i].by = "pulld"
    BY <1>1 DEF Frame
  <1>3. Used = 0 BY <1>1, LogAssumption DEF Used
  <1>4. Busy BY <1>1 DEF Busy
  <1>5. Callers BY <1>2, <1>3 DEF Callers
  <1>6. PulldHasFile BY <1>2 DEF PulldHasFile
  <1>7. HoldersHaveFile /\ AboveHolders /\ HeldReachable /\ HeldOwn
    BY <1>2 DEF HoldersHaveFile, AboveHolders, HeldReachable, HeldOwn, Holds
  <1> QED BY <1>4, <1>5, <1>6, <1>7 DEF Calls

-------------------------------------------------------------------------------
(* What pulld's loop has open *)

\* The pid file before its first close, or the connection to the database.
ForeignOwned ==
    \A fd \in Fds : opened[fd] = Foreign =>
        \/ loop = "close" /\ fd = pid_fd
        \/ loop \in {"found", "deleted"} /\ fd = connection

\* pulld itself logs nothing while it has them open.
HasOpen == loop \in {"close", "found", "deleted"}
PulldSays == \A i \in DOMAIN stack : stack[i].by = "pulld" => ~HasOpen

LEMMA StepCallers ==
    ASSUME LogInv, Slots, Calls, LogStep, UNCHANGED mistaken
    PROVE  DOMAIN stack' \subseteq DOMAIN stack
           /\ \A i \in DOMAIN stack' : stack'[i].by = stack[i].by
  <1>1. StackTyped /\ FilesTyped /\ BoundsTyped BY TypeParts DEF LogInv
  <1>2. stack # <<>> /\ \E f : (SetTop(f) /\ f.by = Top.by) \/ Return
    <2>1. CASE QuietStep BY <2>1, QuietSteps, QuietGoesOn DEF GoesOn
    <2>2. CASE FileStep
      <3>1. stack # <<>> BY <2>2, FileSteps
      <3>2. \A pc \in {"open", "publish", "release"} : FrameAt(pc).by = Top.by
        BY <1>1, <3>1, FrameFields
      <3> QED BY <2>2, <3>1, <3>2, FileSteps DEF FileStep
    <2> QED BY <2>1, <2>2 DEF LogStep, QuietStep, FileStep
  <1>3. PICK f : (SetTop(f) /\ f.by = Top.by) \/ Return BY <1>2
  <1>4. /\ Depth \in DOMAIN stack /\ DOMAIN stack' \subseteq DOMAIN stack
        /\ \A i \in DOMAIN stack : i # Depth => i \in DOMAIN stack' /\ stack'[i] = stack[i]
        /\ SetTop(f) => DOMAIN stack' = DOMAIN stack /\ stack'[Depth] = f
        /\ Return => Depth \notin DOMAIN stack'
    BY <1>1, <1>2, <1>3, StepOthers
  <1>5. ASSUME NEW i \in DOMAIN stack' PROVE stack'[i].by = stack[i].by
    <2>1. CASE i # Depth BY <1>4, <1>5, <2>1
    <2>2. CASE i = Depth BY <1>3, <1>4, <1>5, <2>2 DEF Top
    <2> QED BY <2>1, <2>2
  <1> QED BY <1>4, <1>5

LEMMA NextLoopOpen ==
    ASSUME LogInv, Slots, Calls, ForeignOwned, PulldSays, [PulldLogNext]_pvars
    PROVE  ForeignOwned' /\ PulldSays'
  <1>1. opened \in [Fds -> 0 .. MaxDay \cup {NoFile, Foreign}] BY DEF LogInv, LogTypeOK
  <1>2. ~HasOpen => \A fd \in Fds : opened[fd] # Foreign BY DEF ForeignOwned, HasOpen
  <1>3. CASE UNCHANGED pvars
    BY <1>3 DEF pvars, lvars, loopVars, ForeignOwned, PulldSays, HasOpen
  <1>4. CASE LogStep /\ UNCHANGED loopVars
    <2>1. UNCHANGED <<loop, pid_fd, connection, mistaken>> BY <1>4 DEF loopVars
    <2>2. \A fd \in Fds : opened'[fd] = Foreign => opened[fd] = Foreign
      BY <1>4, ForeignOfLoop DEF LogMoves
    <2>3. ForeignOwned' BY <2>1, <2>2 DEF ForeignOwned
    <2>4. PulldSays' BY <1>4, <2>1, StepCallers DEF PulldSays, HasOpen
    <2> QED BY <2>3, <2>4
  <1>5. CASE Tick /\ UNCHANGED loopVars
    <2>1. UNCHANGED <<loop, pid_fd, connection, opened, stack>> BY <1>5 DEF Tick, loopVars
    <2> QED BY <2>1 DEF ForeignOwned, PulldSays, HasOpen
  <1>6. CASE SigTerminal
    <2>1. UNCHANGED <<loop, pid_fd, connection, opened>> /\ Signal
      BY <1>6 DEF SigTerminal, Signal
    <2>2. StackTyped /\ BoundsTyped BY TypeParts DEF LogInv
    <2>3. PICK f \in Frames :
              /\ stack' = Append(stack, f) /\ \A i \in DOMAIN stack : stack[i].by # f.by
              /\ f.by \in Handlers \/ (f.by = "pulld" /\ UNCHANGED signals)
      BY <2>1, <2>2, Begins
    <2>4. f.by # "pulld"
      <3>1. signals \in Int /\ signals' = signals - 1
        BY <2>1, <2>2, LogAssumption DEF Signal, BoundsTyped
      <3> QED BY <2>3, <3>1 DEF Handlers
    <2>5. /\ DOMAIN stack' = DOMAIN stack \cup {Depth + 1} /\ stack'[Depth + 1] = f
          /\ \A i \in DOMAIN stack : stack'[i] = stack[i]
      BY <2>2, <2>3, PushStack
    <2>6. PulldSays' BY <2>1, <2>4, <2>5 DEF PulldSays, HasOpen
    <2> QED BY <2>1, <2>6 DEF ForeignOwned
  <1>7. ASSUME NEW from, NEW to, Says(from, to),
               from \notin {"close", "found", "deleted"}, to \notin {"close", "found", "deleted"}
        PROVE  ForeignOwned' /\ PulldSays'
    <2>1. loop = from /\ loop' = to /\ UNCHANGED opened BY <1>7 DEF Says, Prt
    <2>2. ~HasOpen /\ ~HasOpen' BY <1>7, <2>1 DEF HasOpen
    <2> QED BY <1>2, <2>1, <2>2 DEF ForeignOwned, PulldSays
  <1>8. CASE LoopLogs
    BY <1>7, <1>8 DEF LoopLogs, Daemon, Exit, Gone, Answer, Run
  <1>9. CASE LoopStep
    <2>1. DOMAIN stack' = {}
      BY <1>9 DEF LoopStep, EnterLoop, OpenPidFile, OpenPidFileFails, ClosePidFile,
         CloseAgain, Connect, Disconnect, Wake, LogUntouched
    <2>2. PulldSays' BY <2>1 DEF PulldSays
    <2>3. CASE EnterLoop \/ OpenPidFileFails \/ Wake
      <3>1. ~HasOpen /\ UNCHANGED opened
        BY <2>3 DEF EnterLoop, OpenPidFileFails, Wake, HasOpen
      <3> QED BY <1>2, <2>2, <3>1 DEF ForeignOwned
    <2>4. CASE OpenPidFile
      <3>1. PICK fd \in Fds : opened' = [opened EXCEPT ![fd] = Foreign] /\ pid_fd' = fd
        BY <2>4 DEF OpenPidFile, OpenForeign
      <3>2. ~HasOpen /\ loop' = "close" BY <2>4 DEF OpenPidFile, HasOpen
      <3> QED BY <1>1, <1>2, <2>2, <3>1, <3>2 DEF ForeignOwned
    <2>5. CASE Connect
      <3>1. ~HasOpen /\ loop' \in {"found", "deleted"} BY <2>5 DEF Connect, HasOpen
      <3>2. \/ \E fd \in Fds : opened' = [opened EXCEPT ![fd] = Foreign] /\ connection' = fd
            \/ UNCHANGED opened
        BY <2>5 DEF Connect, OpenForeign
      <3> QED BY <1>1, <1>2, <2>2, <3>1, <3>2 DEF ForeignOwned
    <2>6. ASSUME NEW fd, CloseNumber(fd), \A e \in Fds : opened[e] = Foreign => e = fd
          PROVE  ForeignOwned'
      <3>1. \A e \in Fds : opened'[e] # Foreign
        BY <2>6 DEF CloseNumber, NoFile, Foreign
      <3> QED BY <3>1 DEF ForeignOwned
    <2>7. CASE ClosePidFile
      BY <2>2, <2>6, <2>7 DEF ClosePidFile, ForeignOwned
    <2>8. CASE CloseAgain
      <3>1. ~HasOpen /\ CloseNumber(pid_fd) BY <2>8 DEF CloseAgain, HasOpen
      <3> QED BY <1>2, <2>2, <2>6, <3>1
    <2>9. CASE Disconnect
      <3>1. loop \in {"found", "deleted"} /\ CloseNumber(connection) BY <2>9 DEF Disconnect
      <3> QED BY <2>2, <2>6, <3>1 DEF ForeignOwned
    <2> QED BY <1>9, <2>3, <2>4, <2>5, <2>7, <2>8, <2>9 DEF LoopStep
  <1> QED BY <1>3, <1>4, <1>5, <1>6, <1>8, <1>9 DEF PulldLogNext

-------------------------------------------------------------------------------
(* A lost line *)

\* The write of a call on the processor that finds no file of the log.
LEMMA WriteLost ==
    ASSUME LogInv, Slots, Calls, ForeignOwned, PulldSays, PrtWrite, UNCHANGED mistaken
    PROVE  LostForAReason'
  <1>1. signals \in 0 .. Signals /\ Signals \in Nat /\ UNCHANGED signals
    BY TypeParts, LogAssumption DEF LogInv, BoundsTyped, PrtWrite
  <1>2. stack # <<>> /\ Top.pc = "put" BY DEF PrtWrite, At
  <1>3. StackTyped /\ FilesTyped BY TypeParts DEF LogInv
  <1>4. Top \in Frames /\ Depth \in DOMAIN stack BY <1>2, <1>3, TopIs
  <1>5. CASE lost' = {} BY <1>5 DEF LostForAReason
  <1>6. CASE lost' # {}
    <2> DEFINE l == [by |-> Top.by, why |-> WhyLost(Top.fd)]
    <2>1. /\ ~(Top.fd \in Fds /\ IsLogFile(opened[Top.fd]))
          /\ lost' = {l} /\ l.by = Top.by /\ l.why = WhyLost(Top.fd)
      BY <1>6 DEF PrtWrite
    <2> HIDE DEF l
    <2>2. CASE Top.fd = -1
      <3>1. WhyLost(Top.fd) = "none" BY <2>2 DEF WhyLost
      <3>2. Top.by # "pulld" BY <1>2, <1>4, <2>2 DEF Calls, PulldHasFile, Top
      <3>3. Top.by \in Handlers BY <1>4, <3>2 DEF Frames
      <3> QED BY <2>1, <3>1, <3>3 DEF LostForAReason
    <2>3. CASE Top.fd # -1
      <3>1. Top.fd \in Fds /\ opened[Top.fd] \in {NoFile, Foreign}
        BY <1>3, <1>4, <2>1, <2>3 DEF Frames, FilesTyped, IsLogFile
      <3>2. CASE opened[Top.fd] = NoFile
        <4>1. WhyLost(Top.fd) = "closed"
          BY <2>3, <3>2 DEF WhyLost, NoFile, Foreign
        <4>2. ASSUME ~mistaken PROVE Used >= 2
          <5>1. stack[Depth].fd = m_fd[Current] \/ OneCutLater(Depth) \/ Used >= 2
            BY <1>2, <1>4, <2>3, <4>2 DEF Calls, HeldReachable, Holds, Top
          <5>2. Current \in 0 .. 1 /\ Current # m_next BY <1>3, SlotsAlternate
          <5>3. \A fd \in Fds : fd = m_fd[Current] => IsLogFile(opened[fd])
            BY <4>2, <5>2 DEF Slots, SlotsOpen
          <5>4. Top.fd # m_fd[Current] BY <2>1, <3>1, <5>3
          <5>5. ~OneCutLater(Depth) BY <2>1, <3>1 DEF OneCutLater, Top
          <5> QED BY <5>1, <5>4, <5>5 DEF Top
        <4>3. mistaken' \/ signals' <= Signals - 2 BY <1>1, <4>2 DEF Used
        <4> QED BY <2>1, <4>1, <4>3 DEF LostForAReason
      <3>3. CASE opened[Top.fd] = Foreign
        <4>1. WhyLost(Top.fd) = "foreign"
          BY <2>3, <3>3 DEF WhyLost, NoFile, Foreign
        <4>2. mistaken
          BY <1>2, <1>4, <2>3, <3>1, <3>3 DEF Calls, HeldOwn, Holds, Top
        <4>3. HasOpen BY <3>1, <3>3 DEF ForeignOwned, HasOpen
        <4>4. Top.by # "pulld" BY <1>4, <4>3 DEF PulldSays, Top
        <4>5. Top.by \in Handlers BY <1>4, <4>4 DEF Frames
        <4> QED BY <2>1, <4>1, <4>2, <4>5 DEF LostForAReason
      <3> QED BY <3>1, <3>2, <3>3
    <2> QED BY <2>2, <2>3
  <1> QED BY <1>5, <1>6

\* A line is given up where open fails, or at the write.
LEMMA NextLost ==
    ASSUME LogInv, Slots, Calls, ForeignOwned, PulldSays, LostForAReason,
           [PulldLogNext]_pvars
    PROVE  LostForAReason'
  <1>1. signals \in 0 .. Signals /\ Signals \in Nat
    BY TypeParts, LogAssumption DEF LogInv, BoundsTyped
  <1>2. signals' = signals \/ signals' = signals - 1
    <2>1. LogStep => signals' = signals
      BY DEF LogStep, PrtLocaltime, PrtLocaltimeReturns, PrtFd, PrtCut, PrtArgument, PrtWrite,
         NewFileCas, NewFileLocaltime, NewFileLocaltimeReturns, NewFileClose, NewFileOpen,
         NewFileFails, NewFilePublish, NewFileRelease
    <2> QED BY <2>1, NextCases DEF LogMoves, LoopMoves, Prt, Signal, Tick, lvars
  <1>3. signals <= Signals - 2 => signals' <= Signals - 2 BY <1>1, <1>2
  <1>4. mistaken => mistaken'
    <2>1. ASSUME LoopMoves, mistaken PROVE mistaken'
      <3>1. CASE UNCHANGED mistaken BY <2>1, <3>1
      <3>2. ASSUME NEW fd, mistaken' = (mistaken \/ \E e \in Fds : e = fd /\ IsLogFile(opened[e]))
            PROVE  mistaken'
        BY <2>1, <3>2
      <3> QED BY <2>1, <3>1, <3>2 DEF LoopMoves
    <2> QED BY <2>1, NextCases
  <1>5. CASE UNCHANGED lost BY <1>3, <1>4, <1>5 DEF LostForAReason
  <1>6. CASE lost' = {} BY <1>6 DEF LostForAReason
  <1>7. CASE NewFileFails
    <2> DEFINE l == [by |-> Top.by, why |-> "open"]
    <2>1. lost' = {l} /\ l.why = "open" BY <1>7 DEF NewFileFails
    <2> HIDE DEF l
    <2> QED BY <2>1 DEF LostForAReason
  <1>8. CASE PrtWrite /\ UNCHANGED mistaken BY <1>8, WriteLost
  <1>9. LogMoves => UNCHANGED lost \/ lost' = {} \/ NewFileFails \/ PrtWrite
    <2>1. LogStep => UNCHANGED lost \/ NewFileFails \/ PrtWrite
      BY DEF LogStep, PrtLocaltime, PrtLocaltimeReturns, PrtFd, PrtCut, PrtArgument,
         NewFileCas, NewFileLocaltime, NewFileLocaltimeReturns, NewFileClose, NewFileOpen,
         NewFilePublish, NewFileRelease
    <2> QED BY <2>1 DEF LogMoves, Prt, Signal, Tick
  <1>10. LoopMoves => UNCHANGED lost BY DEF LoopMoves
  <1> QED BY <1>5, <1>6, <1>7, <1>8, <1>9, <1>10, NextCases DEF lvars

\* A line is lost to a failing open; a handler's before the first file; to two handlers
\* that each cut; or after pulld has closed a file of the log, and then into what pulld
\* has open only when it is a handler's.
THEOREM LostCorrect == PulldLogSpec => []LostForAReason
  <1> DEFINE CInv == /\ LogInv /\ Slots /\ Calls /\ ForeignOwned /\ PulldSays
                     /\ LostForAReason
  <1>1. PulldLogInit => CInv
    <2> SUFFICES ASSUME PulldLogInit PROVE CInv
      OBVIOUS
    <2>1. LostForAReason BY DEF PulldLogInit, LogInit, LostForAReason
    <2>2. ForeignOwned /\ PulldSays
      BY DEF PulldLogInit, LogInit, ForeignOwned, PulldSays, HasOpen, NoFile, Foreign
    <2> QED BY <2>1, <2>2, InitLogInv, InitSlots, InitCalls
  <1>2. CInv /\ [PulldLogNext]_pvars => CInv'
    BY NextLogInv, NextSlots, NextCalls, NextLoopOpen, NextLost
  <1>3. CInv => LostForAReason OBVIOUS
  <1> QED BY <1>1, <1>2, <1>3, PTL DEF PulldLogSpec
===============================================================================
