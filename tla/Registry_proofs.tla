--------------------------- MODULE Registry_proofs ---------------------------
(***************************************************************************)
(* Proofs about the control-mode connection, for every set of goroutines,  *)
(* of commands and of answers and every capacity, from ControlMode's       *)
(* definitions alone; and about Registry, which uses it.                   *)
(*                                                                         *)
(* The connection.  That an Execute that returns a response returns its    *)
(* own command's, as long as no Execute has timed out, is not inductive.   *)
(* A response travels from tmux's input over its output and readLoop to    *)
(* the channel, and nothing on the way says whose it is; what makes it the *)
(* right one is that one response at most is on its way, that of the       *)
(* goroutine that waits (OneInFlight), that only the holder of the mutex   *)
(* waits (LockOK), and that the attach's response is the first line tmux   *)
(* writes (AttachOK).                                                      *)
(*                                                                         *)
(* The registry, the goroutines of the clients and tmux, put together as   *)
(* in Registry, use the connection as ControlMode describes it: every step *)
(* is one of ControlMode's or leaves the connection alone.  So what is     *)
(* shown of the connection holds for the registry as well.                 *)
(*                                                                         *)
(* The registry's own invariants are not inductive as they stand:          *)
(*   - that the events tell the map also needs that between two scans      *)
(*     nothing is left to send, and that the parts of a difference are     *)
(*     disjoint (EventsInv);                                               *)
(*   - that a scan's result is justified needs that the answer to its      *)
(*     question is, in tmux's output, in readLoop, in responseCh or in     *)
(*     Execute's result, one that was true at some time since the scan     *)
(*     began (AnswerFits), and the same of what is found so far.           *)
(***************************************************************************)
EXTENDS Registry, TLAPS


----------------------------------------------------------------------------
(* Sequences. *)

\* What Tail leaves.
LEMMA TailFacts ==
  ASSUME NEW S, NEW q \in Seq(S), q # <<>>
  PROVE  /\ Len(q) \in Nat /\ Len(q) >= 1
         /\ Head(q) = q[1] /\ Head(q) \in S
         /\ Tail(q) \in Seq(S) /\ Len(Tail(q)) = Len(q) - 1
         /\ \A i \in 1..Len(Tail(q)) : i + 1 \in 1..Len(q) /\ Tail(q)[i] = q[i + 1]
<1>1. Len(q) \in Nat /\ Len(q) >= 1
  OBVIOUS
<1>2. Head(q) = q[1] /\ Head(q) \in S
  OBVIOUS
<1>3. Tail(q) \in Seq(S) /\ Len(Tail(q)) = Len(q) - 1
  OBVIOUS
<1>4. \A i \in 1..Len(Tail(q)) : i + 1 \in 1..Len(q) /\ Tail(q)[i] = q[i + 1]
  BY <1>1, <1>3
<1> QED BY <1>1, <1>2, <1>3, <1>4

\* What Append adds.
LEMMA AppendFacts ==
  ASSUME NEW S, NEW q \in Seq(S), NEW e \in S
  PROVE  /\ Len(q) \in Nat
         /\ Append(q, e) \in Seq(S) /\ Len(Append(q, e)) = Len(q) + 1
         /\ \A i \in 1..Len(q) : Append(q, e)[i] = q[i]
         /\ Append(q, e)[Len(q) + 1] = e
  OBVIOUS

----------------------------------------------------------------------------
(* The type invariant. *)

\* What Execute returns is a command's number and an answer, or None and Failed.
LEMMA ReturnKeepsType ==
  ASSUME ControlTypeOK, NEW c \in Callers, NEW answered, NEW result,
         answered \in Nat \cup {None}, result \in Replies \cup {Failed, None},
         Return(c, answered, result)
  PROVE  callers' \in [Callers -> Caller]
<1> DEFINE new == [pc |-> "idle", request |-> callers[c].request,
                   cmd |-> callers[c].cmd, answered |-> answered, result |-> result]
<1>1. callers[c].request \in Requests \cup {None} /\ callers[c].cmd \in Nat
  BY DEF ControlTypeOK, Caller, Calling, Returned
<1>2. new \in Returned
  BY <1>1 DEF Returned
<1>3. callers' = [callers EXCEPT ![c] = new] /\ callers \in [Callers -> Caller]
  BY DEF Return, ControlTypeOK
<1> HIDE DEF new
<1> QED BY <1>2, <1>3 DEF Caller

\* Every step keeps the types, the two channels within their capacity.
LEMMA TypeStep ==
  ASSUME ControlTypeOK, Next
  PROVE  ControlTypeOK'
<1> USE ControlAssumption
<1>1. ASSUME NEW c \in Callers, NEW r \in Requests, Call(c, r)
      PROVE  ControlTypeOK'
  <2>1. callers' \in [Callers -> Caller]
    BY <1>1 DEF Call, ControlTypeOK, Caller, Calling
  <2> QED BY <1>1, <2>1 DEF Call, ControlTypeOK
<1>2. ASSUME NEW c \in Callers, Acquire(c)
      PROVE  ControlTypeOK'
  <2>1. CASE closing
    <3>1. callers' \in [Callers -> Caller]
      BY <1>2, <2>1, ReturnKeepsType DEF Acquire
    <3> QED BY <1>2, <2>1, <3>1 DEF Acquire, Return, ControlTypeOK
  <2>2. CASE ~closing
    <3>1. callers[c] \in Calling
      BY <1>2 DEF Acquire, ControlTypeOK, Caller, Returned
    <3>2. callers' \in [Callers -> Caller]
      BY <1>2, <2>2, <3>1 DEF Acquire, GoesTo, ControlTypeOK, Caller, Calling
    <3>3. responseCh' \in Seq(Response) /\ Len(responseCh') <= 1
      BY <1>2, <2>2 DEF Acquire
    <3> QED BY <1>2, <2>2, <3>2, <3>3 DEF Acquire, ControlTypeOK
  <2> QED BY <2>1, <2>2
<1>3. ASSUME NEW c \in Callers, Write(c)
      PROVE  ControlTypeOK'
  <2>1. CASE closer \in {"open", "closing"} /\ tmux = "running"
    <3>1. /\ callers[c] \in Calling /\ callers[c].request \in Requests
          /\ issued' = issued + 1 /\ issued' \in Nat
      BY <1>3, <2>1 DEF Write, ControlTypeOK, Caller, Calling, Returned
    <3>2. callers' \in [Callers -> Caller]
      <4> DEFINE new == [pc |-> "wait", request |-> callers[c].request, cmd |-> issued + 1,
                         answered |-> None, result |-> None]
      <4>1. new \in Calling
        BY <3>1 DEF Calling
      <4>2. callers' = [callers EXCEPT ![c] = new] /\ callers \in [Callers -> Caller]
        BY <1>3, <2>1 DEF Write, GoesTo, ControlTypeOK
      <4> HIDE DEF new
      <4> QED BY <4>1, <4>2 DEF Caller
    <3>3. PICK e \in Command : stdin' = Append(stdin, e)
      BY <1>3, <2>1, <3>1 DEF Write, Command
    <3>4. stdin' \in Seq(Command)
      BY <3>3 DEF ControlTypeOK
    <3> QED BY <1>3, <2>1, <3>1, <3>2, <3>4 DEF Write, ControlTypeOK
  <2>2. CASE ~(closer \in {"open", "closing"} /\ tmux = "running")
    <3>1. callers' \in [Callers -> Caller]
      BY <1>3, <2>2, ReturnKeepsType DEF Write
    <3> QED BY <1>3, <2>2, <3>1 DEF Write, Return, ControlTypeOK
  <2> QED BY <2>1, <2>2
<1>4. ASSUME NEW c \in Callers, Receive(c)
      PROVE  ControlTypeOK'
  <2>1. Head(responseCh) \in Response /\ responseCh' \in Seq(Response) /\ Len(responseCh') <= 1
    BY <1>4, TailFacts DEF Receive, ControlTypeOK
  <2>2. callers' \in [Callers -> Caller]
    BY <1>4, <2>1, ReturnKeepsType DEF Receive, Response
  <2> QED BY <1>4, <2>1, <2>2 DEF Receive, Return, ControlTypeOK
<1>5. ASSUME NEW c \in Callers, TimeOut(c) \/ SeeDone(c)
      PROVE  ControlTypeOK'
  <2>1. callers' \in [Callers -> Caller]
    BY <1>5, ReturnKeepsType DEF TimeOut, SeeDone
  <2> QED BY <1>5, <2>1 DEF TimeOut, SeeDone, Return, ControlTypeOK
<1>a. ASSUME NEW c \in Callers, TakeResult(c)
      PROVE  ControlTypeOK'
  <2>1. NoCall \in Caller
    BY DEF NoCall, Caller, Returned
  <2>2. callers' \in [Callers -> Caller]
    BY <1>a, <2>1 DEF TakeResult, ControlTypeOK
  <2> QED BY <1>a, <2>2 DEF TakeResult, ControlTypeOK
<1>6. CASE ReadLine
  <2>1. Head(stdout) \in Line /\ stdout' \in Seq(Line)
    BY <1>6, TailFacts DEF ReadLine, ControlTypeOK
  <2>2. reader' \in Reader
    BY <1>6, <2>1 DEF ReadLine, ControlTypeOK, Reader
  <2> QED BY <1>6, <2>1, <2>2 DEF ReadLine, ControlTypeOK
<1>7. CASE SendResponse
  <2>1. reader' \in Reader /\ reader.line \in Response
    BY <1>7 DEF SendResponse, ControlTypeOK, Reader, Line, Response, Notification,
                NoteTypes, AttachResponse
  <2> QED BY <1>7, <2>1 DEF SendResponse, ControlTypeOK
<1>8. CASE SendNotification
  <2>1. reader' \in Reader /\ reader.line \in Notification
    BY <1>8 DEF SendNotification, ControlTypeOK, Reader, Line, Response, Notification,
                AttachResponse
  <2>2. notifications' \in Seq(Notification) /\ Len(notifications') <= NotifCap
    BY <1>8, <2>1, AppendFacts DEF SendNotification, ControlTypeOK
  <2> QED BY <1>8, <2>1, <2>2 DEF SendNotification, ControlTypeOK
<1>9. CASE ReadEnds \/ Close \/ TmuxExits
  <2>1. reader' \in Reader
    BY <1>9 DEF ReadEnds, Close, CloseBegins, CloseStdin, CloseDone, TmuxExits,
                ControlTypeOK, Reader
  <2>2. stdin' \in Seq(Command) /\ stdout' \in Seq(Line)
    <3>1. stdin' \in {stdin, <<>>} /\ stdout' \in {stdout, <<>>}
      BY <1>9 DEF ReadEnds, Close, CloseBegins, CloseStdin, CloseDone, TmuxExits
    <3>2. <<>> \in Seq(Command) /\ <<>> \in Seq(Line)
      OBVIOUS
    <3> QED BY <3>1, <3>2 DEF ControlTypeOK
  <2> QED
    BY <1>9, <2>1, <2>2 DEF ReadEnds, Close, CloseBegins, CloseStdin, CloseDone, TmuxExits,
                            ControlTypeOK
<1>10. CASE TakeNotification
  <2>1. notifications' \in Seq(Notification) /\ Len(notifications') <= NotifCap
    BY <1>10, TailFacts DEF TakeNotification, ControlTypeOK
  <2> QED BY <1>10, <2>1 DEF TakeNotification, ControlTypeOK
<1>11. ASSUME NEW r \in Replies, TmuxAnswers(r)
       PROVE  ControlTypeOK'
  <2>1. Head(stdin) \in Command /\ stdin' \in Seq(Command)
    BY <1>11, TailFacts DEF TmuxAnswers, ControlTypeOK
  <2>2. [type |-> "response", cmd |-> Head(stdin).cmd, reply |-> r] \in Line
    BY <2>1 DEF Line, Response, Command
  <2>3. stdout' \in Seq(Line)
    BY <1>11, <2>2, AppendFacts DEF TmuxAnswers, ControlTypeOK
  <2> QED BY <1>11, <2>1, <2>3 DEF TmuxAnswers, ControlTypeOK
<1>12. ASSUME NEW t \in NoteTypes, TmuxNotifies(t)
       PROVE  ControlTypeOK'
  <2>1. Note(t) \in Line
    BY DEF Note, Line, Notification
  <2>2. stdout' \in Seq(Line)
    BY <1>12, <2>1, AppendFacts DEF TmuxNotifies, ControlTypeOK
  <2> QED BY <1>12, <2>2 DEF TmuxNotifies, ControlTypeOK
<1> QED
  BY <1>1, <1>2, <1>3, <1>4, <1>5, <1>a, <1>6, <1>7, <1>8, <1>9, <1>10, <1>11, <1>12
     DEF Next, Execute, ReadLoop

\* The initial state has the types.
LEMMA TypeInit ==
  ASSUME Init
  PROVE  ControlTypeOK
<1> USE ControlAssumption DEF Init
<1>1. callers \in [Callers -> Caller]
  BY DEF NoCall, Caller, Returned
<1>2. AttachResponse \in Line
  BY DEF AttachResponse, Line, Response
<1>3. stdout \in Seq(Line) /\ reader \in Reader
  BY <1>2 DEF Reader
<1>4. stdin \in Seq(Command) /\ responseCh \in Seq(Response) /\ Len(responseCh) <= 1
  OBVIOUS
<1>5. notifications \in Seq(Notification) /\ Len(notifications) <= NotifCap
  OBVIOUS
<1> QED BY <1>1, <1>3, <1>4, <1>5 DEF ControlTypeOK

\* Every variable keeps its type and neither channel of control.go holds more
\* than its capacity.
THEOREM TypeCorrect == Spec => []ControlTypeOK
<1>1. Init => ControlTypeOK
  BY TypeInit
<1>2. ControlTypeOK /\ [Next]_controlVars => ControlTypeOK'
  <2>1. ASSUME ControlTypeOK, UNCHANGED controlVars
        PROVE  ControlTypeOK'
    BY <2>1 DEF controlVars, ControlTypeOK
  <2> QED BY <2>1, TypeStep
<1> QED BY <1>1, <1>2, PTL DEF Spec

----------------------------------------------------------------------------
(* The response in flight. *)

Waits(c) == callers[c].pc = "wait"

\* The mutex is held by the goroutine that writes its command or waits for the
\* answer, and by no other.
LockOK ==
  \A c \in Callers : callers[c].pc \in {"write", "wait"} <=> execMu = c

\* Until the attach's response is read, it is the first line of tmux's output,
\* and readLoop has passed on nothing.
AttachOK ==
  reader.seen = 0 =>
    /\ responseCh = <<>> /\ reader.pc # "send"
    /\ IF stdout = <<>> THEN tmux = "gone" ELSE stdout[1].type = "response"

\* Where responses to commands are: lines of the output, readLoop.
FirstLine == IF reader.seen = 0 THEN 2 ELSE 1
Answers == {i \in FirstLine..Len(stdout) : stdout[i].type = "response"}
InReader == reader.pc = "send" /\ reader.line.type = "response"

NoneInFlight == stdin = <<>> /\ Answers = {} /\ ~InReader /\ responseCh = <<>>

\* At most one command is unanswered or its response not taken.
OneInFlight ==
  /\ Len(stdin) <= 1
  /\ \A i, j \in Answers : i = j
  /\ stdin # <<>> => Answers = {} /\ ~InReader /\ responseCh = <<>>
  /\ Answers # {} => ~InReader /\ responseCh = <<>>
  /\ InReader => responseCh = <<>>

\* Whatever is in flight belongs to command id.
Carries(id) ==
  /\ stdin # <<>> => stdin[1].cmd = id
  /\ \A i \in Answers : stdout[i].cmd = id
  /\ InReader => reader.line.cmd = id
  /\ responseCh # <<>> => responseCh[1].cmd = id

\* It belongs to the goroutine that waits; without one there is nothing in
\* flight, or Execute is closed for good.
FlightOK ==
  /\ OneInFlight
  /\ \A c \in Callers : Waits(c) => Carries(callers[c].cmd)
  /\ (\A c \in Callers : ~Waits(c)) => NoneInFlight \/ done

ControlInv ==
  /\ ControlTypeOK /\ LockOK /\ AttachOK
  /\ ~timedOut => FlightOK
  /\ AnswersMatchUntilTimeout

\* Return leaves its goroutine idle with what it was given.
LEMMA ReturnFacts ==
  ASSUME ControlTypeOK, NEW c \in Callers, NEW answered, NEW result,
         Return(c, answered, result)
  PROVE  /\ callers'[c].pc = "idle" /\ callers'[c].answered = answered
         /\ callers'[c].cmd = callers[c].cmd
         /\ \A d \in Callers \ {c} : callers'[d] = callers[d]
         /\ execMu' = None
  BY DEF Return, ControlTypeOK

----------------------------------------------------------------------------
\* The mutex is taken by Acquire, kept by Write and given back by Return.
LEMMA LockStep ==
  ASSUME ControlTypeOK, LockOK, Next
  PROVE  LockOK'
<1>0. None \notin Callers
  BY ControlAssumption
<1>1. ASSUME NEW c \in Callers, NEW answered, NEW result, Return(c, answered, result),
             execMu \in {None, c}
      PROVE  LockOK'
  <2>1. callers'[c].pc = "idle" /\ execMu' = None
        /\ \A d \in Callers \ {c} : callers'[d] = callers[d]
    BY <1>1, ReturnFacts
  <2>2. \A d \in Callers \ {c} : callers[d].pc \notin {"write", "wait"}
    BY <1>0, <1>1 DEF LockOK
  <2> QED BY <1>0, <2>1, <2>2 DEF LockOK
<1>2. ASSUME NEW c \in Callers, NEW pc, NEW cmd, GoesTo(c, pc, cmd), pc \in {"write", "wait"},
             execMu' = c, execMu \in {None, c}
      PROVE  LockOK'
  <2>1. callers'[c].pc = pc /\ \A d \in Callers \ {c} : callers'[d] = callers[d]
    BY <1>2 DEF GoesTo, ControlTypeOK
  <2>2. \A d \in Callers \ {c} : callers[d].pc \notin {"write", "wait"}
    BY <1>0, <1>2 DEF LockOK
  <2> QED BY <1>2, <2>1, <2>2 DEF LockOK
<1>3. ASSUME NEW c \in Callers, NEW r \in Requests, Call(c, r)
      PROVE  LockOK'
  <2>1. /\ callers'[c].pc = "lock" /\ callers[c].pc = "idle" /\ execMu' = execMu
        /\ \A d \in Callers \ {c} : callers'[d] = callers[d]
    BY <1>3 DEF Call, ControlTypeOK
  <2> QED BY <2>1 DEF LockOK
<1>4. ASSUME NEW c \in Callers, Acquire(c)
      PROVE  LockOK'
  <2>1. CASE closing
    BY <1>1, <1>4, <2>1 DEF Acquire
  <2>2. CASE ~closing
    BY <1>2, <1>4, <2>2 DEF Acquire
  <2> QED BY <2>1, <2>2
<1>5. ASSUME NEW c \in Callers, Write(c)
      PROVE  LockOK'
  <2>0. execMu = c
    BY <1>5 DEF Write, LockOK
  <2>1. CASE closer \in {"open", "closing"} /\ tmux = "running"
    <3>1. GoesTo(c, "wait", issued + 1) /\ execMu' = c
      BY <1>5, <2>0, <2>1 DEF Write
    <3> QED BY <1>2, <2>0, <3>1
  <2>2. CASE ~(closer \in {"open", "closing"} /\ tmux = "running")
    <3>1. Return(c, None, Failed)
      BY <1>5, <2>2 DEF Write
    <3> QED BY <1>1, <2>0, <3>1
  <2> QED BY <2>1, <2>2
<1>6. ASSUME NEW c \in Callers, Receive(c) \/ TimeOut(c) \/ SeeDone(c)
      PROVE  LockOK'
  <2>1. execMu = c
    BY <1>6 DEF Receive, TimeOut, SeeDone, LockOK
  <2> QED BY <1>1, <1>6, <2>1 DEF Receive, TimeOut, SeeDone
<1>7. ASSUME NEW c \in Callers, TakeResult(c)
      PROVE  LockOK'
  <2>1. /\ callers'[c].pc = "idle" /\ callers[c].pc = "idle" /\ execMu' = execMu
        /\ \A d \in Callers \ {c} : callers'[d] = callers[d]
    BY <1>7 DEF TakeResult, NoCall, ControlTypeOK
  <2> QED BY <2>1 DEF LockOK
<1>8. CASE UNCHANGED <<callers, execMu>>
  BY <1>8 DEF LockOK
<1> QED
  BY <1>3, <1>4, <1>5, <1>6, <1>7, <1>8
     DEF Next, Execute, ReadLoop, ReadLine, SendResponse, SendNotification, ReadEnds, Close,
         CloseBegins, CloseStdin, CloseDone, TakeNotification, TmuxAnswers, TmuxNotifies,
         TmuxExits

\* The attach's response stays first until readLoop reads it.
LEMMA AttachStep ==
  ASSUME ControlTypeOK, AttachOK, Next
  PROVE  AttachOK'
<1>1. ASSUME NEW c \in Callers, Acquire(c) \/ Receive(c)
      PROVE  AttachOK'
  <2>1. UNCHANGED <<reader, stdout, tmux>> /\ (responseCh = <<>> => responseCh' = <<>>)
    BY <1>1 DEF Acquire, Receive
  <2> QED BY <2>1 DEF AttachOK
<1>2. CASE ReadLine
  <2>1. CASE reader.seen = 1
    BY <1>2, <2>1 DEF ReadLine, AttachOK
  <2>2. CASE reader.seen = 0
    <3>1. Head(stdout) = stdout[1]
      BY <1>2, TailFacts DEF ReadLine, ControlTypeOK
    <3>2. reader'.seen = 1
      BY <1>2, <2>2, <3>1 DEF ReadLine, AttachOK
    <3> QED BY <3>2 DEF AttachOK
  <2> QED BY <2>1, <2>2 DEF ControlTypeOK, Reader
<1>3. CASE SendResponse \/ SendNotification
  <2>1. reader'.seen = reader.seen /\ reader.pc = "send"
    BY <1>3 DEF SendResponse, SendNotification, ControlTypeOK, Reader
  <2> QED BY <2>1 DEF AttachOK
<1>4. CASE ReadEnds
  <2>1. reader'.seen = reader.seen /\ reader'.pc = "ended"
    BY <1>4 DEF ReadEnds, ControlTypeOK, Reader
  <2> QED BY <1>4, <2>1 DEF ReadEnds, AttachOK
<1>5. CASE CloseDone \/ TmuxExits
  BY <1>5 DEF CloseDone, TmuxExits, AttachOK
<1>6. ASSUME NEW line \in Line, stdout' = Append(stdout, line), tmux = "running",
             UNCHANGED <<reader, tmux, responseCh>>
      PROVE  AttachOK'
  <2>1. stdout # <<>> => stdout' # <<>> /\ stdout'[1] = stdout[1]
    BY <1>6, AppendFacts DEF ControlTypeOK
  <2> QED BY <1>6, <2>1 DEF AttachOK
<1>7. ASSUME NEW r \in Replies, TmuxAnswers(r)
      PROVE  AttachOK'
  <2>1. Head(stdin) \in Command
    BY <1>7, TailFacts DEF TmuxAnswers, ControlTypeOK
  <2>2. [type |-> "response", cmd |-> Head(stdin).cmd, reply |-> r] \in Line
    BY <2>1 DEF Line, Response, Command
  <2> QED BY <1>6, <1>7, <2>2 DEF TmuxAnswers
<1>8. ASSUME NEW t \in NoteTypes, TmuxNotifies(t)
      PROVE  AttachOK'
  <2>1. Note(t) \in Line
    BY DEF Note, Line, Notification
  <2> QED BY <1>6, <1>8, <2>1 DEF TmuxNotifies
<1>9. CASE UNCHANGED <<reader, stdout, tmux, responseCh>>
  BY <1>9 DEF AttachOK
<1> QED
  BY <1>1, <1>2, <1>3, <1>4, <1>5, <1>7, <1>8, <1>9
     DEF Next, Call, Execute, Write, TimeOut, SeeDone, TakeResult, ReadLoop, Close,
         CloseBegins, CloseStdin, TakeNotification

----------------------------------------------------------------------------
\* A step that leaves the four places of responses alone leaves what is in
\* flight alone.
LEMMA FlightUnchanged ==
  ASSUME UNCHANGED <<stdin, stdout, reader, responseCh>>
  PROVE  /\ OneInFlight => OneInFlight'
         /\ NoneInFlight => NoneInFlight'
         /\ \A id : Carries(id) => Carries(id)'
<1>1. Answers' = Answers /\ InReader' = InReader
  BY DEF Answers, FirstLine, InReader
<1> QED BY <1>1 DEF OneInFlight, NoneInFlight, Carries

\* A step of readLoop, tmux or Close keeps FlightOK if it keeps what is in flight.
LEMMA FlightMoves ==
  ASSUME FlightOK, UNCHANGED callers, done => done', OneInFlight',
         \A id : Carries(id) => Carries(id)', NoneInFlight => NoneInFlight'
  PROVE  FlightOK'
<1>1. \A c \in Callers : Waits(c)' = Waits(c) /\ callers'[c].cmd = callers[c].cmd
  BY DEF Waits
<1> QED BY <1>1 DEF FlightOK

\* readLoop takes a line: a response moves from the output into readLoop, the
\* attach's is skipped, the lines behind move up.
LEMMA ReadLineFlight ==
  ASSUME ControlTypeOK, AttachOK, OneInFlight, ReadLine
  PROVE  /\ OneInFlight' /\ (NoneInFlight => NoneInFlight')
         /\ \A id : Carries(id) => Carries(id)'
<1>1. /\ Len(stdout) \in Nat /\ Len(stdout) >= 1 /\ Head(stdout) = stdout[1]
      /\ Len(stdout') = Len(stdout) - 1
      /\ \A i \in 1..Len(stdout') : i + 1 \in 1..Len(stdout) /\ stdout'[i] = stdout[i + 1]
  <2>1. stdout \in Seq(Line) /\ stdout # <<>> /\ stdout' = Tail(stdout)
    BY DEF ReadLine, ControlTypeOK
  <2> QED BY <2>1, TailFacts
<1>2. /\ stdin' = stdin /\ responseCh' = responseCh /\ reader.pc = "read"
      /\ reader.seen \in {0, 1} /\ stdout # <<>>
  BY DEF ReadLine, ControlTypeOK, Reader
<1>3. FirstLine' = 1
  <2>1. stdout[1].type = "response" \/ reader.seen = 1
    BY <1>2 DEF AttachOK
  <2> QED BY <1>1, <2>1 DEF ReadLine, FirstLine
<1>4. \A i \in Answers' : i \in Nat /\ i + 1 \in Answers /\ stdout'[i] = stdout[i + 1]
  <2> SUFFICES ASSUME NEW i \in Answers'
               PROVE  i \in Nat /\ i + 1 \in Answers /\ stdout'[i] = stdout[i + 1]
    OBVIOUS
  <2>1. Answers' = {k \in 1..Len(stdout') : stdout'[k].type = "response"}
    BY <1>3 DEF Answers
  <2>2. i \in 1..Len(stdout') /\ stdout'[i].type = "response"
    BY <2>1
  <2>3. i + 1 \in 1..Len(stdout) /\ stdout'[i] = stdout[i + 1]
    BY <1>1, <2>2
  <2>4. i + 1 \in FirstLine..Len(stdout)
    BY <1>1, <2>2, <2>3 DEF FirstLine
  <2> QED BY <2>2, <2>3, <2>4 DEF Answers
<1>5. InReader' => 1 \in Answers /\ reader'.line = stdout[1]
  <2> SUFFICES ASSUME InReader' PROVE 1 \in Answers /\ reader'.line = stdout[1]
    OBVIOUS
  <2>1. ~Skipped(stdout[1]) /\ reader'.line = stdout[1] /\ stdout[1].type = "response"
    BY <1>1 DEF ReadLine, InReader
  <2>2. FirstLine = 1
    BY <1>2, <2>1 DEF Skipped, FirstLine
  <2> QED BY <1>1, <2>1, <2>2 DEF Answers
<1>6. ~InReader
  BY <1>2 DEF InReader
<1>7. InReader' => Answers' = {}
  <2> SUFFICES ASSUME InReader', NEW i \in Answers' PROVE FALSE
    OBVIOUS
  <2>1. i \in Nat /\ i + 1 \in Answers /\ 1 \in Answers /\ i # 0
    <3>1. i \in 1..Len(stdout')
      BY <1>3 DEF Answers
    <3> QED BY <1>4, <1>5, <3>1
  <2>2. i + 1 = 1
    BY <2>1 DEF OneInFlight
  <2> QED BY <2>1, <2>2
<1>8. \A i, j \in Answers' : i = j
  <2> SUFFICES ASSUME NEW i \in Answers', NEW j \in Answers' PROVE i = j
    OBVIOUS
  <2>1. i \in Nat /\ j \in Nat /\ i + 1 = j + 1
    BY <1>4 DEF OneInFlight
  <2> QED BY <2>1
<1>9. Answers' # {} => Answers # {}
  BY <1>4
<1>10. OneInFlight'
  BY <1>2, <1>5, <1>7, <1>8, <1>9 DEF OneInFlight
<1>11. NoneInFlight => NoneInFlight'
  BY <1>2, <1>5, <1>9 DEF NoneInFlight
<1>12. \A id : Carries(id) => Carries(id)'
  BY <1>2, <1>4, <1>5 DEF Carries
<1> QED BY <1>10, <1>11, <1>12

\* readLoop hands its response over.
LEMMA SendResponseFlight ==
  ASSUME ControlTypeOK, OneInFlight, SendResponse
  PROVE  /\ OneInFlight' /\ (NoneInFlight => NoneInFlight')
         /\ \A id : Carries(id) => Carries(id)'
<1>1. InReader /\ responseCh' = <<reader.line>> /\ stdin' = stdin /\ stdout' = stdout
  BY DEF SendResponse, InReader
<1>2. reader'.pc = "read" /\ reader'.seen = reader.seen
  BY DEF SendResponse, ControlTypeOK, Reader
<1>3. Answers' = Answers /\ ~InReader'
  BY <1>1, <1>2 DEF Answers, FirstLine, InReader
<1> QED BY <1>1, <1>3 DEF OneInFlight, NoneInFlight, Carries

\* A line is added to the output: a notification, or the response to the only
\* command in the input, which moves from there.
LEMMA AppendFlight ==
  ASSUME ControlTypeOK, OneInFlight, NEW line \in Line, stdout' = Append(stdout, line),
         UNCHANGED <<reader, responseCh>>,
         \/ line.type # "response" /\ stdin' = stdin
         \/ stdin # <<>> /\ stdin' = Tail(stdin) /\ line.cmd = stdin[1].cmd
  PROVE  /\ OneInFlight' /\ (NoneInFlight => NoneInFlight')
         /\ \A id : Carries(id) => Carries(id)'
<1>1. /\ Len(stdout) \in Nat /\ Len(stdout') = Len(stdout) + 1
      /\ \A i \in 1..Len(stdout) : stdout'[i] = stdout[i]
      /\ stdout'[Len(stdout) + 1] = line
  BY AppendFacts DEF ControlTypeOK
<1>2. FirstLine' = FirstLine /\ FirstLine \in {1, 2} /\ InReader' = InReader
  BY DEF FirstLine, InReader
<1>3. \A i \in Answers' : \/ i \in Answers /\ stdout'[i] = stdout[i]
                          \/ i = Len(stdout) + 1 /\ stdout'[i] = line /\ line.type = "response"
  <2> SUFFICES ASSUME NEW i \in Answers', i # Len(stdout) + 1
               PROVE  i \in Answers /\ stdout'[i] = stdout[i]
    BY <1>1 DEF Answers
  <2>1. i \in FirstLine..(Len(stdout) + 1) /\ stdout'[i].type = "response"
    BY <1>1, <1>2 DEF Answers
  <2>2. i \in FirstLine..Len(stdout) /\ i \in 1..Len(stdout)
    BY <1>1, <1>2, <2>1
  <2> QED BY <1>1, <2>1, <2>2 DEF Answers
<1>4. CASE line.type # "response" /\ stdin' = stdin
  <2>1. \A i \in Answers' : i \in Answers /\ stdout'[i] = stdout[i]
    BY <1>3, <1>4
  <2> QED BY <1>2, <1>4, <2>1 DEF OneInFlight, NoneInFlight, Carries
<1>5. CASE stdin # <<>> /\ stdin' = Tail(stdin) /\ line.cmd = stdin[1].cmd
  <2>1. Answers = {} /\ ~InReader /\ responseCh = <<>>
    BY <1>5 DEF OneInFlight
  <2>2. stdin' = <<>> /\ Len(stdin') <= 1
    <3>1. Len(stdin) <= 1
      BY DEF OneInFlight
    <3> QED BY <1>5, <3>1 DEF ControlTypeOK
  <2>3. \A i \in Answers' : i = Len(stdout) + 1 /\ stdout'[i].cmd = stdin[1].cmd
    BY <1>3, <1>5, <2>1
  <2> QED BY <1>2, <1>5, <2>1, <2>2, <2>3 DEF OneInFlight, NoneInFlight, Carries
<1> QED BY <1>4, <1>5

\* What was in flight is lost with the tmux client or its output.
LEMMA LossFlight ==
  ASSUME ControlTypeOK, OneInFlight, CloseDone \/ TmuxExits
  PROVE  /\ OneInFlight' /\ (NoneInFlight => NoneInFlight')
         /\ \A id : Carries(id) => Carries(id)'
<1>1. CASE CloseDone
  <2>1. stdout' = <<>> /\ stdin' = stdin /\ reader' = reader /\ responseCh' = responseCh
    BY <1>1 DEF CloseDone
  <2>2. Answers' = {} /\ InReader' = InReader
    BY <2>1 DEF Answers, FirstLine, InReader
  <2> QED BY <2>1, <2>2 DEF OneInFlight, NoneInFlight, Carries
<1>2. CASE TmuxExits
  <2>1. stdin' = <<>> /\ stdout' = stdout /\ reader' = reader /\ responseCh' = responseCh
    BY <1>2 DEF TmuxExits
  <2>2. Answers' = Answers /\ InReader' = InReader /\ Len(stdin') <= 1
    BY <2>1 DEF Answers, FirstLine, InReader
  <2> QED BY <2>1, <2>2 DEF OneInFlight, NoneInFlight, Carries
<1> QED BY <1>1, <1>2

\* readLoop goes on or ends without a response in hand.
LEMMA NoResponseFlight ==
  ASSUME ControlTypeOK, OneInFlight, SendNotification \/ ReadEnds
  PROVE  /\ OneInFlight' /\ (NoneInFlight => NoneInFlight')
         /\ \A id : Carries(id) => Carries(id)'
<1>1. /\ UNCHANGED <<stdin, stdout, responseCh>> /\ ~InReader
      /\ reader'.pc # "send" /\ reader'.seen = reader.seen
  BY DEF SendNotification, ReadEnds, InReader, ControlTypeOK, Reader
<1>2. Answers' = Answers /\ ~InReader'
  BY <1>1 DEF Answers, FirstLine, InReader
<1> QED BY <1>1, <1>2 DEF OneInFlight, NoneInFlight, Carries

\* Every step of readLoop, Close, the reader of notifications and tmux.
LEMMA EnvironmentFlight ==
  ASSUME ControlTypeOK, AttachOK, FlightOK,
         \/ ReadLoop \/ Close \/ TakeNotification
         \/ (\E r \in Replies : TmuxAnswers(r)) \/ (\E t \in NoteTypes : TmuxNotifies(t))
         \/ TmuxExits
  PROVE  FlightOK'
<1>0. OneInFlight
  BY DEF FlightOK
<1>1. UNCHANGED callers /\ (done => done')
  BY DEF ReadLoop, ReadLine, SendResponse, SendNotification, ReadEnds, Close, CloseBegins,
         CloseStdin, CloseDone, TakeNotification, TmuxAnswers, TmuxNotifies, TmuxExits, done
<1>2. CASE ReadLine
  BY <1>0, <1>1, <1>2, ReadLineFlight, FlightMoves
<1>3. CASE SendResponse
  BY <1>0, <1>1, <1>3, SendResponseFlight, FlightMoves
<1>4. CASE SendNotification \/ ReadEnds
  BY <1>0, <1>1, <1>4, NoResponseFlight, FlightMoves
<1>5. CASE CloseDone \/ TmuxExits
  BY <1>0, <1>1, <1>5, LossFlight, FlightMoves
<1>6. CASE CloseBegins \/ CloseStdin \/ TakeNotification
  <2>1. UNCHANGED <<stdin, stdout, reader, responseCh>>
    BY <1>6 DEF CloseBegins, CloseStdin, TakeNotification
  <2> QED BY <1>0, <1>1, <2>1, FlightUnchanged, FlightMoves
<1>7. ASSUME NEW r \in Replies, TmuxAnswers(r)
      PROVE  FlightOK'
  <2>1. Head(stdin) \in Command /\ Head(stdin) = stdin[1]
    BY <1>7, TailFacts DEF TmuxAnswers, ControlTypeOK
  <2> DEFINE line == [type |-> "response", cmd |-> Head(stdin).cmd, reply |-> r]
  <2>2. line \in Line /\ line.cmd = stdin[1].cmd
    BY <2>1 DEF Line, Response, Command
  <2>3. /\ stdout' = Append(stdout, line) /\ UNCHANGED <<reader, responseCh>>
        /\ stdin # <<>> /\ stdin' = Tail(stdin)
    BY <1>7 DEF TmuxAnswers
  <2> HIDE DEF line
  <2>4. OneInFlight' /\ (NoneInFlight => NoneInFlight') /\ \A id : Carries(id) => Carries(id)'
    BY <1>0, <2>2, <2>3, AppendFlight
  <2> QED BY <1>1, <2>4, FlightMoves
<1>8. ASSUME NEW t \in NoteTypes, TmuxNotifies(t)
      PROVE  FlightOK'
  <2>1. Note(t) \in Line /\ Note(t).type # "response"
    BY DEF Note, Line, Notification, NoteTypes
  <2>2. /\ stdout' = Append(stdout, Note(t)) /\ UNCHANGED <<reader, responseCh>>
        /\ stdin' = stdin
    BY <1>8 DEF TmuxNotifies
  <2>3. OneInFlight' /\ (NoneInFlight => NoneInFlight') /\ \A id : Carries(id) => Carries(id)'
    BY <1>0, <2>1, <2>2, AppendFlight
  <2> QED BY <1>1, <2>3, FlightMoves
<1> QED BY <1>2, <1>3, <1>4, <1>5, <1>6, <1>7, <1>8 DEF ReadLoop, Close

\* Every step of a goroutine's Execute that is not a timeout.
LEMMA ExecuteFlight ==
  ASSUME ControlTypeOK, LockOK, FlightOK, NEW c \in Callers,
         \/ \E r \in Requests : Call(c, r)
         \/ TakeResult(c) \/ Acquire(c) \/ Write(c) \/ Receive(c) \/ SeeDone(c)
  PROVE  FlightOK'
<1>0. None \notin Callers
  BY ControlAssumption
<1>1. \A d \in Callers \ {c} : callers'[d] = callers[d]
  BY DEF Call, TakeResult, Acquire, Write, Receive, SeeDone, Return, GoesTo, ControlTypeOK
<1>2. done' = done
  BY DEF Call, TakeResult, Acquire, Write, Receive, SeeDone, done
\* A step after which c does not wait and, if it waited, leaves nothing behind.
<1>3. ASSUME ~Waits(c)', OneInFlight', \A id : Carries(id) => Carries(id)',
             IF Waits(c) THEN NoneInFlight' \/ done ELSE NoneInFlight => NoneInFlight'
      PROVE  FlightOK'
  <2>1. \A d \in Callers : Waits(d)' => Waits(d) /\ callers'[d] = callers[d]
    BY <1>1, <1>3 DEF Waits
  <2>2. \A d \in Callers : Waits(d)' => Carries(callers[d].cmd)'
    BY <1>3, <2>1 DEF FlightOK
  <2>3. (\A d \in Callers : ~Waits(d)') => NoneInFlight' \/ done'
    BY <1>1, <1>2, <1>3 DEF FlightOK, Waits
  <2> QED BY <1>3, <2>2, <2>3 DEF FlightOK
<1>4. CASE (\E r \in Requests : Call(c, r)) \/ TakeResult(c)
  <2>1. ~Waits(c)' /\ ~Waits(c) /\ UNCHANGED <<stdin, stdout, reader, responseCh>>
    BY <1>4 DEF Call, TakeResult, NoCall, Waits, ControlTypeOK
  <2> QED BY <1>3, <2>1, FlightUnchanged DEF FlightOK
<1>5. CASE Acquire(c)
  <2>1. ~Waits(c)' /\ ~Waits(c)
    BY <1>5 DEF Acquire, Return, GoesTo, Waits, ControlTypeOK
  <2>2. /\ UNCHANGED <<stdin, stdout, reader>> /\ responseCh' \in {responseCh, <<>>}
    BY <1>5 DEF Acquire
  <2>3. Answers' = Answers /\ InReader' = InReader
    BY <2>2 DEF Answers, FirstLine, InReader
  <2>4. OneInFlight' /\ (NoneInFlight => NoneInFlight') /\ \A id : Carries(id) => Carries(id)'
    BY <2>2, <2>3 DEF FlightOK, OneInFlight, NoneInFlight, Carries
  <2> QED BY <1>3, <2>1, <2>4
<1>6. CASE Write(c)
  <2>0. ~Waits(c) /\ execMu = c
    BY <1>6 DEF Write, Waits, LockOK
  <2>1. CASE closer \in {"open", "closing"} /\ tmux = "running"
    <3>1. \A d \in Callers : ~Waits(d)
      BY <2>0 DEF LockOK, Waits
    <3>2. NoneInFlight
      BY <2>1, <3>1 DEF FlightOK, done
    <3>3. /\ callers'[c].pc = "wait" /\ callers'[c].cmd = issued + 1
          /\ UNCHANGED <<stdout, reader, responseCh>>
      BY <1>6, <2>1 DEF Write, GoesTo, ControlTypeOK
    <3>4. Len(stdin') <= 1 /\ stdin'[1].cmd = issued + 1
      <4> DEFINE e == [cmd |-> issued + 1, request |-> callers[c].request]
      <4>1. e.cmd = issued + 1
        OBVIOUS
      <4>2. stdin' = Append(<<>>, e)
        BY <1>6, <2>1, <3>2 DEF Write, NoneInFlight
      <4> HIDE DEF e
      <4>3. Len(stdin') = 1 /\ stdin'[1] = e
        BY <4>2
      <4> QED BY <4>1, <4>3
    <3>5. Answers' = {} /\ ~InReader' /\ responseCh' = <<>>
      BY <3>2, <3>3 DEF NoneInFlight, Answers, FirstLine, InReader
    <3>6. OneInFlight'
      BY <3>4, <3>5 DEF OneInFlight
    <3>7. \A d \in Callers : Waits(d)' => Carries(callers[d].cmd)'
      <4> SUFFICES ASSUME NEW d \in Callers, Waits(d)'
                   PROVE  Carries(callers[d].cmd)'
        OBVIOUS
      <4>1. d = c
        BY <1>1, <3>1 DEF Waits
      <4> QED BY <3>3, <3>4, <3>5, <4>1 DEF Carries
    <3> QED BY <3>3, <3>6, <3>7 DEF FlightOK, Waits
  <2>2. CASE ~(closer \in {"open", "closing"} /\ tmux = "running")
    <3>1. ~Waits(c)' /\ UNCHANGED <<stdin, stdout, reader, responseCh>>
      BY <1>6, <2>2, ReturnFacts DEF Write, Waits
    <3> QED BY <1>3, <2>0, <3>1, FlightUnchanged DEF FlightOK
  <2> QED BY <2>1, <2>2
<1>7. CASE Receive(c)
  <2>1. responseCh # <<>> /\ responseCh' = Tail(responseCh) /\ UNCHANGED <<stdin, stdout, reader>>
    BY <1>7 DEF Receive
  <2>2. responseCh' = <<>>
    BY <2>1 DEF ControlTypeOK
  <2>3. stdin = <<>> /\ Answers = {} /\ ~InReader
    BY <2>1 DEF FlightOK, OneInFlight
  <2>4. NoneInFlight'
    BY <2>1, <2>2, <2>3 DEF NoneInFlight, Answers, FirstLine, InReader
  <2>5. OneInFlight' /\ \A id : Carries(id)'
    BY <2>4 DEF NoneInFlight, OneInFlight, Carries
  <2>6. ~Waits(c)'
    BY <1>7, ReturnFacts DEF Receive, Waits
  <2> QED BY <1>3, <2>4, <2>5, <2>6
<1>8. CASE SeeDone(c)
  <2>1. ~Waits(c)' /\ done /\ UNCHANGED <<stdin, stdout, reader, responseCh>>
    BY <1>8, ReturnFacts DEF SeeDone, Waits
  <2> QED BY <1>3, <2>1, FlightUnchanged DEF FlightOK
<1> QED BY <1>4, <1>5, <1>6, <1>7, <1>8

----------------------------------------------------------------------------
(* The invariant, and what follows. *)

\* An Execute under way has returned nothing yet, and the response that one
\* returns is the waiting goroutine's own.
LEMMA AnswersStep ==
  ASSUME ControlInv, Next
  PROVE  AnswersMatchUntilTimeout'
<1>0. ControlTypeOK
  BY DEF ControlInv
<1> SUFFICES ASSUME ~timedOut', NEW d \in Callers
             PROVE  callers'[d].answered \in {None, callers'[d].cmd}
  BY DEF AnswersMatchUntilTimeout
<1>1. ~timedOut
  BY DEF Next, Call, Execute, Acquire, Write, Receive, TimeOut, SeeDone, TakeResult, ReadLoop,
         ReadLine, SendResponse, SendNotification, ReadEnds, Close, CloseBegins, CloseStdin,
         CloseDone, TakeNotification, TmuxAnswers, TmuxNotifies, TmuxExits
<1>2. callers[d].answered \in {None, callers[d].cmd} /\ FlightOK
  BY <1>1 DEF ControlInv, AnswersMatchUntilTimeout
<1>3. ASSUME NEW c \in Callers, Return(c, None, Failed)
      PROVE  callers'[d].answered \in {None, callers'[d].cmd}
  BY <1>0, <1>2, <1>3, ReturnFacts
<1>4. ASSUME NEW c \in Callers, NEW r \in Requests, Call(c, r)
      PROVE  callers'[d].answered \in {None, callers'[d].cmd}
  BY <1>0, <1>2, <1>4 DEF Call, ControlTypeOK
<1>5. ASSUME NEW c \in Callers, NEW pc, NEW cmd, GoesTo(c, pc, cmd)
      PROVE  callers'[d].answered \in {None, callers'[d].cmd}
  BY <1>0, <1>2, <1>5 DEF GoesTo, ControlTypeOK
<1>6. ASSUME NEW c \in Callers, TakeResult(c)
      PROVE  callers'[d].answered \in {None, callers'[d].cmd}
  BY <1>0, <1>2, <1>6 DEF TakeResult, NoCall, ControlTypeOK
<1>7. ASSUME NEW c \in Callers, Receive(c)
      PROVE  callers'[d].answered \in {None, callers'[d].cmd}
  <2>1. Waits(c) /\ responseCh # <<>> /\ Return(c, Head(responseCh).cmd, Head(responseCh).reply)
    BY <1>7 DEF Receive, Waits
  <2>2. Head(responseCh) = responseCh[1]
    BY <1>0, <2>1, TailFacts DEF ControlTypeOK
  <2>3. responseCh[1].cmd = callers[c].cmd
    BY <1>2, <2>1 DEF FlightOK, Carries
  <2>4. /\ callers'[c].answered = callers[c].cmd /\ callers'[c].cmd = callers[c].cmd
        /\ \A e \in Callers \ {c} : callers'[e] = callers[e]
    BY <1>0, <2>1, <2>2, <2>3, ReturnFacts
  <2> QED BY <1>2, <2>4
<1>8. CASE UNCHANGED callers
  BY <1>2, <1>8
<1>9. ASSUME NEW c \in Callers, Execute(c)
      PROVE  callers'[d].answered \in {None, callers'[d].cmd}
  BY <1>3, <1>5, <1>7, <1>9 DEF Execute, Acquire, Write, TimeOut, SeeDone
<1> QED
  BY <1>4, <1>6, <1>8, <1>9
     DEF Next, ReadLoop, ReadLine, SendResponse, SendNotification, ReadEnds, Close, CloseBegins,
         CloseStdin, CloseDone, TakeNotification, TmuxAnswers, TmuxNotifies, TmuxExits

\* The inductive step.
LEMMA ControlInvStep ==
  ASSUME ControlInv, Next
  PROVE  ControlInv'
<1>0. ControlTypeOK /\ LockOK /\ AttachOK /\ (~timedOut => FlightOK)
  BY DEF ControlInv
<1>1. ControlTypeOK' /\ LockOK' /\ AttachOK'
  BY <1>0, TypeStep, LockStep, AttachStep
<1>2. ~timedOut' => FlightOK'
  <2>1. CASE \E c \in Callers : TimeOut(c)
    BY <2>1 DEF TimeOut
  <2>2. CASE /\ ~timedOut
             /\ ~\E c \in Callers : TimeOut(c)
    BY <1>0, <2>2, EnvironmentFlight, ExecuteFlight DEF Next, Execute
  <2>3. CASE timedOut /\ ~\E c \in Callers : TimeOut(c)
    BY <2>3 DEF Next, Call, Execute, Acquire, Write, Receive, SeeDone, TakeResult, ReadLoop,
         ReadLine, SendResponse, SendNotification, ReadEnds, Close, CloseBegins, CloseStdin,
         CloseDone, TakeNotification, TmuxAnswers, TmuxNotifies, TmuxExits
  <2> QED BY <2>1, <2>2, <2>3
<1>3. AnswersMatchUntilTimeout'
  BY AnswersStep
<1> QED BY <1>1, <1>2, <1>3 DEF ControlInv

\* At the start nothing is in flight but the attach's response.
LEMMA ControlInvInit ==
  ASSUME Init
  PROVE  ControlInv
<1>1. ControlTypeOK
  BY TypeInit
<1>2. \A c \in Callers : callers[c].pc = "idle" /\ callers[c].answered = None
  BY DEF Init, NoCall
<1>3. LockOK
  BY <1>2, ControlAssumption DEF Init, LockOK
<1>4. /\ Len(stdout) = 1 /\ stdout # <<>> /\ stdout[1].type = "response"
      /\ reader.pc = "read" /\ reader.seen = 0 /\ responseCh = <<>> /\ stdin = <<>>
  BY DEF Init, AttachResponse
<1>5. AttachOK
  BY <1>4 DEF AttachOK
<1>6. NoneInFlight
  BY <1>4 DEF NoneInFlight, Answers, FirstLine, InReader
<1>7. FlightOK
  BY <1>2, <1>6 DEF FlightOK, NoneInFlight, OneInFlight, Waits
<1> QED BY <1>1, <1>2, <1>3, <1>5, <1>7 DEF ControlInv, AnswersMatchUntilTimeout

\* A step that leaves the connection alone.
LEMMA ControlInvStutters ==
  ASSUME ControlInv, UNCHANGED controlVars
  PROVE  ControlInv'
<1>1. UNCHANGED <<callers, execMu, stdin, stdout, tmux, reader, responseCh, closer, timedOut>>
  BY DEF controlVars
<1>2. ControlTypeOK' /\ LockOK' /\ AttachOK' /\ AnswersMatchUntilTimeout'
  BY <1>1 DEF controlVars, ControlInv, ControlTypeOK, LockOK, AttachOK,
              AnswersMatchUntilTimeout
<1>3. FlightOK => FlightOK'
  BY <1>1, FlightUnchanged DEF FlightOK, Waits, done
<1> QED BY <1>1, <1>2, <1>3 DEF ControlInv

\* The invariant holds in every state of the connection.
THEOREM InvariantHolds == Spec => []ControlInv
<1>1. Init => ControlInv
  BY ControlInvInit
<1>2. ControlInv /\ [Next]_controlVars => ControlInv'
  BY ControlInvStep, ControlInvStutters
<1> QED BY <1>1, <1>2, PTL DEF Spec

\* control.go:113: the response Execute receives is its own command's, unless
\* some Execute has timed out and left one behind.
THEOREM AnswersMatchHolds == Spec => []AnswersMatchUntilTimeout
<1>1. ControlInv => AnswersMatchUntilTimeout
  BY DEF ControlInv
<1> QED BY <1>1, InvariantHolds, PTL

----------------------------------------------------------------------------
(* The registry uses the connection. *)


\* The requests in tmux's input are ones the registry's tmux has an answer for.
LEMMA ReplyIsKnown ==
  ASSUME NEW r \in Requests
  PROVE  TmuxReply(r) \in Replies
<1>1. \A kind \in {"list", "pane", "ok", "error"}, ss, att \in SUBSET Sessions :
        Answer(kind, ss, att) \in Replies
  BY RegistryAssumption DEF Answer
<1>2. Existing \in SUBSET Sessions /\ attached \cap Existing \in SUBSET Sessions
  BY DEF Existing
<1>3. r.ask = "pane" => r.of \in Sessions
  BY RegistryAssumption DEF ListSessions, ClientCommand, PaneInfo
<1> QED BY <1>1, <1>2, <1>3 DEF TmuxReply

\* Each step of the registry is a step of the connection or stutters on it.
LEMMA StepMaps ==
  ASSUME ControlTypeOK, [RegistryNext]_vars
  PROVE  [Next]_controlVars
<1>1. ASSUME NEW r \in Requests, NEW next, Ask(r, next)
      PROVE  Next
  BY <1>1, RegistryAssumption DEF Ask, Next
<1>2. CASE RunScan
  <2>1. CASE AskList \/ \E s \in Sessions : AskPane(s)
    <3>1. ListSessions \in Requests /\ \A s \in Sessions : PaneInfo(s) \in Requests
      BY RegistryAssumption
    <3> QED BY <1>1, <2>1, <3>1 DEF AskList, AskPane
  <2>2. CASE ListFails \/ TakeList \/ TakePane
    BY <2>2, RegistryAssumption DEF ListFails, TakeList, TakePane, Next
  <2>3. CASE Diff \/ ScanDone
    BY <2>3 DEF Diff, ScanDone
  <2>4. CASE \E s \in Sessions : SendRemoved(s) \/ SendAdded(s) \/ SendUpdated(s)
    BY <2>4 DEF SendRemoved, SendAdded, SendUpdated, Send
  <2> QED BY <1>2, <2>1, <2>2, <2>3, <2>4 DEF RunScan
<1>3. CASE WatchLoop
  BY <1>3 DEF WatchLoop, Next
<1>4. CASE LoopEnds \/ Stop \/ ReadEvent
  BY <1>4 DEF LoopEnds, Stop, ReadEvent
<1>5. CASE Connection
  <2>1. ASSUME NEW c \in Callers, Execute(c) \/ ClientCalls(c)
        PROVE  Next
    <3>1. ClientCommand \in Requests
      BY RegistryAssumption
    <3> QED BY <2>1, <3>1 DEF ClientCalls, Next
  <2>2. CASE ReadLoop \/ Close
    BY <2>2 DEF Next
  <2>3. CASE stdin # <<>> /\ TmuxAnswers(TmuxReply(Head(stdin).request))
    <3>1. Head(stdin).request \in Requests
      <4>1. Head(stdin) \in Command
        BY <2>3, TailFacts DEF ControlTypeOK
      <4> QED BY <4>1 DEF Command
    <3>2. TmuxReply(Head(stdin).request) \in Replies
      BY <3>1, ReplyIsKnown
    <3> QED BY <2>3, <3>2 DEF Next
  <2> QED BY <1>5, <2>1, <2>2, <2>3 DEF Connection
<1>6. CASE TmuxGoes
  BY <1>6 DEF TmuxGoes, Next
<1>7. CASE PaneOutput \/ \E s \in Sessions, new \in Statuses : Becomes(s, new)
  BY <1>7 DEF PaneOutput, Becomes, NoteTypes, Next
<1>8. CASE \E s \in Sessions : Attaches(s)
  BY <1>8 DEF Attaches
<1>9. CASE UNCHANGED vars
  BY <1>9 DEF vars
<1> QED BY <1>2, <1>3, <1>4, <1>5, <1>6, <1>7, <1>8, <1>9 DEF RegistryNext

\* Registry implements ControlMode: no use the registry makes of the connection
\* steps outside what control.go allows its callers.
THEOREM RegistryUsesControlMode == RegistrySpec => Spec
<1>1. RegistryInit => Init /\ ControlTypeOK
  BY TypeInit DEF RegistryInit
<1>2. ControlTypeOK /\ [RegistryNext]_vars => ControlTypeOK'
  <2>1. ASSUME ControlTypeOK, UNCHANGED controlVars
        PROVE  ControlTypeOK'
    BY <2>1 DEF controlVars, ControlTypeOK
  <2> QED BY <2>1, StepMaps, TypeStep
<1>3. ControlTypeOK /\ [RegistryNext]_vars => [Next]_controlVars
  BY StepMaps
<1> QED BY <1>1, <1>2, <1>3, PTL DEF RegistrySpec, Spec

\* The answers a scan and the clients work with are those to their own commands,
\* as long as none has timed out.
THEOREM RegistryAnswersMatch == RegistrySpec => []AnswersMatchUntilTimeout
  BY RegistryUsesControlMode, AnswersMatchHolds, PTL

----------------------------------------------------------------------------
(* What the answers say. *)

\* Every answer on its way is one of S.
ReplyIn(S) ==
  /\ \A i \in Answers : stdout[i].reply \in S
  /\ InReader => reader.line.reply \in S
  /\ responseCh # <<>> => responseCh[1].reply \in S

\* A line more: a notification, or an answer of S.
LEMMA RepliesAppend ==
  ASSUME ControlTypeOK, NEW S, ReplyIn(S), NEW line \in Line, stdout' = Append(stdout, line),
         UNCHANGED <<reader, responseCh>>, line.type = "response" => line.reply \in S
  PROVE  ReplyIn(S)'
<1>1. /\ Len(stdout) \in Nat /\ Len(stdout') = Len(stdout) + 1
      /\ \A i \in 1..Len(stdout) : stdout'[i] = stdout[i]
      /\ stdout'[Len(stdout) + 1] = line
  BY AppendFacts DEF ControlTypeOK
<1>2. FirstLine' = FirstLine /\ FirstLine \in {1, 2} /\ InReader' = InReader
  BY DEF FirstLine, InReader
<1>3. \A i \in Answers' : stdout'[i].reply \in S
  <2> SUFFICES ASSUME NEW i \in Answers' PROVE stdout'[i].reply \in S
    OBVIOUS
  <2>1. i \in FirstLine..(Len(stdout) + 1) /\ stdout'[i].type = "response"
    BY <1>1, <1>2 DEF Answers
  <2>2. CASE i = Len(stdout) + 1
    BY <1>1, <2>1, <2>2
  <2>3. CASE i # Len(stdout) + 1
    <3>1. i \in FirstLine..Len(stdout) /\ i \in 1..Len(stdout)
      BY <1>1, <1>2, <2>1, <2>3
    <3>2. i \in Answers
      BY <1>1, <2>1, <3>1 DEF Answers
    <3> QED BY <1>1, <3>1, <3>2 DEF ReplyIn
  <2> QED BY <2>2, <2>3
<1> QED BY <1>2, <1>3 DEF ReplyIn

LEMMA RepliesAnswered ==
  ASSUME ControlTypeOK, NEW S, ReplyIn(S), NEW r \in Replies, r \in S, TmuxAnswers(r)
  PROVE  ReplyIn(S)'
<1>1. Head(stdin) \in Command
  BY TailFacts DEF TmuxAnswers, ControlTypeOK
<1> DEFINE line == [type |-> "response", cmd |-> Head(stdin).cmd, reply |-> r]
<1>2. line \in Line /\ line.reply = r
  BY <1>1 DEF Line, Response, Command
<1>3. stdout' = Append(stdout, line) /\ UNCHANGED <<reader, responseCh>>
  BY DEF TmuxAnswers
<1> HIDE DEF line
<1> QED BY <1>2, <1>3, RepliesAppend

\* An answer is what tmux said, wherever it is: the other steps put none on its
\* way.
Moves ==
  \/ \E c \in Callers : (\E r \in Requests : Call(c, r)) \/ Execute(c) \/ TakeResult(c)
  \/ ReadLoop \/ Close \/ TakeNotification \/ (\E t \in NoteTypes : TmuxNotifies(t))
  \/ TmuxExits

LEMMA RepliesMove ==
  ASSUME ControlTypeOK, AttachOK, NEW S, ReplyIn(S), Moves
  PROVE  ReplyIn(S)'
<1>1. ASSUME UNCHANGED <<stdout, reader>>, responseCh' \in {responseCh, <<>>}
      PROVE  ReplyIn(S)'
  <2>1. Answers' = Answers /\ InReader' = InReader
    BY <1>1 DEF Answers, FirstLine, InReader
  <2> QED BY <1>1, <2>1 DEF ReplyIn
<1>2. ASSUME NEW c \in Callers,
             (\E r \in Requests : Call(c, r)) \/ Execute(c) \/ TakeResult(c)
      PROVE  ReplyIn(S)'
  <2>1. CASE Receive(c)
    <3>1. responseCh' = <<>> /\ UNCHANGED <<stdout, reader>>
      BY <2>1 DEF Receive, ControlTypeOK
    <3> QED BY <1>1, <3>1
  <2>2. CASE Acquire(c)
    BY <1>1, <2>2 DEF Acquire
  <2>3. CASE (\E r \in Requests : Call(c, r)) \/ Write(c) \/ TimeOut(c) \/ SeeDone(c) \/ TakeResult(c)
    BY <1>1, <2>3 DEF Call, Write, TimeOut, SeeDone, TakeResult
  <2> QED BY <1>2, <2>1, <2>2, <2>3 DEF Execute
<1>3. CASE ReadLine
  <2>1. /\ Len(stdout) \in Nat /\ Len(stdout) >= 1 /\ Head(stdout) = stdout[1]
        /\ Len(stdout') = Len(stdout) - 1
        /\ \A i \in 1..Len(stdout') : i + 1 \in 1..Len(stdout) /\ stdout'[i] = stdout[i + 1]
    BY <1>3, TailFacts DEF ReadLine, ControlTypeOK
  <2>2. reader.seen \in {0, 1} /\ responseCh' = responseCh /\ stdout # <<>>
    BY <1>3 DEF ReadLine, ControlTypeOK, Reader
  <2>3. FirstLine' = 1
    <3>1. stdout[1].type = "response" \/ reader.seen = 1
      BY <2>2 DEF AttachOK
    <3> QED BY <1>3, <2>1, <3>1 DEF ReadLine, FirstLine
  <2>4. \A i \in Answers' : i + 1 \in Answers /\ stdout'[i] = stdout[i + 1]
    <3> SUFFICES ASSUME NEW i \in Answers'
                 PROVE  i + 1 \in Answers /\ stdout'[i] = stdout[i + 1]
      OBVIOUS
    <3>1. i \in 1..Len(stdout') /\ stdout'[i].type = "response"
      BY <2>3 DEF Answers
    <3>2. i + 1 \in FirstLine..Len(stdout) /\ stdout'[i] = stdout[i + 1]
      BY <2>1, <3>1 DEF FirstLine
    <3> QED BY <3>1, <3>2 DEF Answers
  <2>5. InReader' => 1 \in Answers /\ reader'.line = stdout[1]
    <3> SUFFICES ASSUME InReader' PROVE 1 \in Answers /\ reader'.line = stdout[1]
      OBVIOUS
    <3>1. ~Skipped(stdout[1]) /\ reader'.line = stdout[1] /\ stdout[1].type = "response"
      BY <1>3, <2>1 DEF ReadLine, InReader
    <3>2. FirstLine = 1
      BY <2>2, <3>1 DEF Skipped, FirstLine
    <3> QED BY <2>1, <3>1, <3>2 DEF Answers
  <2> QED BY <2>2, <2>4, <2>5 DEF ReplyIn
<1>4. CASE SendResponse
  <2>1. InReader /\ responseCh' = <<reader.line>> /\ stdout' = stdout
    BY <1>4 DEF SendResponse, InReader
  <2>2. reader'.pc = "read" /\ reader'.seen = reader.seen
    BY <1>4 DEF SendResponse, ControlTypeOK, Reader
  <2>3. Answers' = Answers /\ ~InReader'
    BY <2>1, <2>2 DEF Answers, FirstLine, InReader
  <2>4. responseCh'[1] = reader.line
    BY <2>1
  <2> QED BY <2>1, <2>3, <2>4 DEF ReplyIn
<1>5. CASE SendNotification \/ ReadEnds
  <2>1. /\ UNCHANGED <<stdout, responseCh>>
        /\ reader'.pc # "send" /\ reader'.seen = reader.seen
    BY <1>5 DEF SendNotification, ReadEnds, ControlTypeOK, Reader
  <2>2. Answers' = Answers /\ ~InReader'
    BY <2>1 DEF Answers, FirstLine, InReader
  <2> QED BY <2>1, <2>2 DEF ReplyIn
<1>6. CASE CloseDone
  <2>1. stdout' = <<>> /\ UNCHANGED <<reader, responseCh>>
    BY <1>6 DEF CloseDone
  <2>2. Answers' = {} /\ InReader' = InReader
    BY <2>1 DEF Answers, FirstLine, InReader
  <2> QED BY <2>1, <2>2 DEF ReplyIn
<1>7. CASE CloseBegins \/ CloseStdin \/ TakeNotification \/ TmuxExits
  BY <1>1, <1>7 DEF CloseBegins, CloseStdin, TakeNotification, TmuxExits
<1>8. ASSUME NEW t \in NoteTypes, TmuxNotifies(t)
       PROVE  ReplyIn(S)'
  <2>1. Note(t) \in Line /\ Note(t).type # "response"
    BY DEF Note, Line, Notification, NoteTypes
  <2>2. stdout' = Append(stdout, Note(t)) /\ UNCHANGED <<reader, responseCh>>
    BY <1>8 DEF TmuxNotifies
  <2> QED BY <2>1, <2>2, RepliesAppend
<1> QED
  BY <1>2, <1>3, <1>4, <1>5, <1>6, <1>7, <1>8 DEF Moves, ReadLoop, Close

----------------------------------------------------------------------------
(* Types. *)

\* An Execute that has returned gave an answer of tmux's or its own error.
ResultsOK ==
  \A c \in Callers : callers[c].pc = "idle" /\ callers[c].request # None =>
    callers[c].result \in Replies \cup {Failed}

\* What the scan has asked, and waits for or has not looked at.
AsksOK ==
  /\ scan.pc = "listing" => callers[Watcher].request = ListSessions
  /\ scan.pc = "asking" => scan.cur \in Sessions /\ callers[Watcher].request = PaneInfo(scan.cur)
  /\ scan.pc \notin {"listing", "asking"} => callers[Watcher] = NoCall

LEMMA ResultsStep ==
  ASSUME ControlTypeOK, ReplyIn(Replies), ResultsOK, Next
  PROVE  ResultsOK'
<1>1. ASSUME NEW c \in Callers, NEW answered, NEW result, Return(c, answered, result),
             result \in Replies \cup {Failed}
      PROVE  ResultsOK'
  <2>1. /\ callers'[c].result = result
        /\ \A d \in Callers \ {c} : callers'[d] = callers[d]
    BY <1>1 DEF Return, ControlTypeOK
  <2> QED BY <1>1, <2>1 DEF ResultsOK
<1>2. ASSUME NEW c \in Callers, NEW pc, NEW cmd, GoesTo(c, pc, cmd), pc # "idle"
      PROVE  ResultsOK'
  <2>1. callers'[c].pc = pc /\ \A d \in Callers \ {c} : callers'[d] = callers[d]
    BY <1>2 DEF GoesTo, ControlTypeOK
  <2> QED BY <1>2, <2>1 DEF ResultsOK
<1>3. ASSUME NEW c \in Callers, NEW r \in Requests, Call(c, r)
      PROVE  ResultsOK'
  <2>1. callers'[c].pc = "lock" /\ \A d \in Callers \ {c} : callers'[d] = callers[d]
    BY <1>3 DEF Call, ControlTypeOK
  <2> QED BY <2>1 DEF ResultsOK
<1>4. ASSUME NEW c \in Callers, TakeResult(c)
      PROVE  ResultsOK'
  <2>1. callers'[c].request = None /\ \A d \in Callers \ {c} : callers'[d] = callers[d]
    BY <1>4 DEF TakeResult, NoCall, ControlTypeOK
  <2> QED BY <2>1 DEF ResultsOK
<1>5. ASSUME NEW c \in Callers, Receive(c)
      PROVE  ResultsOK'
  <2>1. responseCh # <<>> /\ Head(responseCh) = responseCh[1]
    BY <1>5, TailFacts DEF Receive, ControlTypeOK
  <2>2. Head(responseCh).reply \in Replies
    BY <2>1 DEF ReplyIn
  <2> QED BY <1>1, <1>5, <2>2 DEF Receive
<1>6. ASSUME NEW c \in Callers, Acquire(c) \/ Write(c) \/ TimeOut(c) \/ SeeDone(c)
      PROVE  ResultsOK'
  <2>1. \/ Return(c, None, Failed)
        \/ GoesTo(c, "write", 0) \/ GoesTo(c, "wait", issued + 1)
    BY <1>6 DEF Acquire, Write, TimeOut, SeeDone
  <2> QED BY <1>1, <1>2, <2>1
<1>7. CASE UNCHANGED callers
  BY <1>7 DEF ResultsOK
<1> QED
  BY <1>3, <1>4, <1>5, <1>6, <1>7
     DEF Next, Execute, ReadLoop, ReadLine, SendResponse, SendNotification, ReadEnds, Close,
         CloseBegins, CloseStdin, CloseDone, TakeNotification, TmuxAnswers, TmuxNotifies,
         TmuxExits

\* Execute keeps what its goroutine asked, and does not begin by itself.
LEMMA ExecuteKeeps ==
  ASSUME ControlTypeOK, NEW c \in Callers, Execute(c)
  PROVE  /\ callers[c].pc # "idle"
         /\ callers'[c].request = callers[c].request
         /\ \A d \in Callers \ {c} : callers'[d] = callers[d]
<1>1. \/ Return(c, None, Failed)
      \/ Return(c, Head(responseCh).cmd, Head(responseCh).reply)
      \/ GoesTo(c, "write", 0) \/ GoesTo(c, "wait", issued + 1)
  BY DEF Execute, Acquire, Write, Receive, TimeOut, SeeDone
<1>2. callers[c].pc # "idle"
  BY DEF Execute, Acquire, Write, Receive, TimeOut, SeeDone
<1> QED BY <1>1, <1>2 DEF Return, GoesTo, ControlTypeOK

\* The steps that are not the scan's, the watchLoop's or the reader's leave the
\* registry alone, and the scan's call to Execute.
Outside ==
  Connection \/ TmuxGoes \/ PaneOutput
  \/ \E s \in Sessions : Attaches(s) \/ \E new \in Statuses : Becomes(s, new)

LEMMA OutsideFacts ==
  ASSUME ControlTypeOK, Outside
  PROVE  /\ UNCHANGED <<scan, agents, pending, regEvents, view, stopped>>
         /\ callers'[Watcher].request = callers[Watcher].request
         /\ callers[Watcher].pc = "idle" => callers'[Watcher] = callers[Watcher]
<1>0. Watcher \in Callers
  BY RegistryAssumption
<1>1. UNCHANGED <<scan, agents, pending, regEvents, view, stopped>>
  BY DEF Outside, Connection, TmuxGoes, PaneOutput, Attaches, Becomes, registryVars
<1>2. CASE \E c \in Callers : Execute(c)
  BY <1>0, <1>1, <1>2, ExecuteKeeps
<1>3. CASE \E c \in Callers : ClientCalls(c)
  BY <1>0, <1>1, <1>3 DEF ClientCalls, Call, ControlTypeOK
<1>4. CASE UNCHANGED callers
  BY <1>1, <1>4
<1> QED
  BY <1>2, <1>3, <1>4
     DEF Outside, Connection, TmuxGoes, PaneOutput, Attaches, Becomes, controlVars,
         ReadLoop, ReadLine, SendResponse, SendNotification, ReadEnds, Close,
         CloseBegins, CloseStdin, CloseDone, TmuxAnswers, TmuxNotifies, TmuxExits

LEMMA AsksStep ==
  ASSUME RegistryTypeOK, AsksOK, RegistryNext
  PROVE  AsksOK'
<1>0. Watcher \in Callers /\ ControlTypeOK /\ scan \in Scan
  BY RegistryAssumption DEF RegistryTypeOK
<1>1. CASE AskList
  <2>1. scan'.pc = "listing" /\ callers'[Watcher].request = ListSessions
    BY <1>0, <1>1 DEF AskList, Ask, Call, ControlTypeOK, Scan
  <2> QED BY <2>1 DEF AsksOK
<1>2. ASSUME NEW s \in Sessions, AskPane(s)
      PROVE  AsksOK'
  <2>1. scan'.pc = "asking" /\ scan'.cur = s /\ callers'[Watcher].request = PaneInfo(s)
    BY <1>0, <1>2 DEF AskPane, Ask, Call, ControlTypeOK, Scan
  <2> QED BY <2>1 DEF AsksOK
<1>3. CASE ListFails \/ TakeList \/ TakePane
  <2>1. scan'.pc \notin {"listing", "asking"}
    BY <1>0, <1>3 DEF ListFails, TakeList, TakePane, Scan
  <2>2. callers'[Watcher] = NoCall
    BY <1>0, <1>3 DEF ListFails, TakeList, TakePane, TakeResult, ControlTypeOK
  <2> QED BY <2>1, <2>2 DEF AsksOK
<1>4. CASE Diff \/ ScanDone \/ WatchLoop \/ LoopEnds
  <2>1. scan.pc \notin {"listing", "asking"} /\ scan'.pc \notin {"listing", "asking"}
    BY <1>0, <1>4 DEF Diff, ScanDone, WatchLoop, LoopEnds, Scan
  <2>2. UNCHANGED callers
    BY <1>4 DEF Diff, ScanDone, WatchLoop, LoopEnds, TakeNotification, controlVars
  <2> QED BY <2>1, <2>2 DEF AsksOK
<1>5. CASE Stop \/ ReadEvent \/ \E s \in Sessions : SendRemoved(s) \/ SendAdded(s) \/ SendUpdated(s)
  <2>1. UNCHANGED <<callers, scan>>
    BY <1>5 DEF Stop, ReadEvent, SendRemoved, SendAdded, SendUpdated, Send, controlVars,
                registryVars
  <2> QED BY <2>1 DEF AsksOK
<1>6. CASE Outside
  <2>1. NoCall.pc = "idle"
    BY DEF NoCall
  <2> QED BY <1>0, <1>6, <2>1, OutsideFacts DEF AsksOK
<1> QED BY <1>1, <1>2, <1>3, <1>4, <1>5, <1>6 DEF RegistryNext, RunScan, Outside

\* What the scan waits for, if there is an answer, is one of tmux's.
LEMMA ResultIsAnswer ==
  ASSUME RegistryTypeOK, AsksOK, ResultsOK, scan.pc \in {"listing", "asking"}, Answered, ~AskFailed
  PROVE  Result \in Replies /\ Result.sessions \subseteq Sessions /\ Result.attached \subseteq Sessions
<1>1. callers[Watcher].request \in Requests
  BY RegistryAssumption DEF AsksOK
<1>2. None \notin Requests
  BY ControlAssumption
<1>3. Result \in Replies \cup {Failed}
  BY <1>1, <1>2, RegistryAssumption DEF ResultsOK, Answered, Result
<1>4. Result \in Replies
  BY <1>3 DEF AskFailed
<1> QED BY <1>4, RegistryAssumption

LEMMA ScanTypes ==
  ASSUME RegistryTypeOK, AsksOK, ResultsOK, RunScan
  PROVE  /\ scan' \in Scan /\ agents' \in [Sessions -> AgentStates] /\ pending' \in Pending
         /\ regEvents' \in Seq(Event) /\ Len(regEvents') <= EventsCap
         /\ was' \in [Sessions -> SUBSET Statuses]
         /\ UNCHANGED <<status, attached, view, stopped>>
<1> USE DEF RegistryTypeOK
<1>0. /\ scan \in Scan /\ agents \in [Sessions -> AgentStates] /\ pending \in Pending
      /\ regEvents \in Seq(Event) /\ Len(regEvents) <= EventsCap /\ Len(regEvents) \in Nat
      /\ was \in [Sessions -> SUBSET Statuses]
  OBVIOUS
<1>1. CASE AskList
  <2>1. scan' \in Scan
    BY <1>0, <1>1 DEF AskList, Ask, Scan
  <2> QED BY <1>0, <1>1, <2>1 DEF AskList, tmuxVars
<1>2. CASE \E s \in Sessions : AskPane(s)
  <2>1. scan' \in Scan
    BY <1>0, <1>2 DEF AskPane, Ask, Scan
  <2> QED BY <1>0, <1>2, <2>1 DEF AskPane, tmuxVars
<1>3. CASE ListFails
  <2>1. scan' \in Scan
    BY <1>0, <1>3 DEF ListFails, Scan
  <2> QED BY <1>0, <1>3, <2>1 DEF ListFails, tmuxVars
<1>4. CASE TakeList
  <2>1. scan.pc = "listing" /\ Answered /\ ~AskFailed
    BY <1>4 DEF TakeList
  <2>2. Result.sessions \subseteq Sessions /\ Result.attached \subseteq Sessions
    BY <2>1, ResultIsAnswer
  <2>3. Listed(Result) \subseteq Sessions /\ ListedAttached(Result) \subseteq Sessions
    BY <2>2 DEF Listed, ListedAttached
  <2> HIDE DEF RegistryTypeOK
  <2>4. scan' \in Scan
    BY <1>0, <1>4, <2>3 DEF TakeList, Scan
  <2> QED BY <1>0, <1>4, <2>4 DEF TakeList, tmuxVars
<1>5. CASE TakePane
  <2>1. scan.cur \in Sessions
    BY <1>5 DEF TakePane, AsksOK
  <2>2. scan' \in Scan
    BY <1>0, <1>5, <2>1 DEF TakePane, Scan
  <2> QED BY <1>0, <1>5, <2>2 DEF TakePane, tmuxVars
<1>6. CASE Diff
  <2>1. scan' \in Scan
    BY <1>0, <1>6 DEF Diff, Scan
  <2>2. agents' \in [Sessions -> AgentStates]
    BY <1>6 DEF Diff, Found, AgentStates
  <2>3. pending' \in Pending
    BY <1>6 DEF Diff, Pending
  <2> QED BY <1>0, <1>6, <2>1, <2>2, <2>3 DEF Diff, tmuxVars
<1>7. ASSUME NEW type \in {"added", "removed", "updated"}, NEW s \in Sessions,
             NEW state \in AgentStates, Send(type, s, state)
      PROVE  regEvents' \in Seq(Event) /\ Len(regEvents') <= EventsCap
  <2>1. [type |-> type, session |-> s, state |-> state] \in Event
    BY DEF Event
  <2> DEFINE e == [type |-> type, session |-> s, state |-> state]
  <2>2. regEvents' = Append(regEvents, e) /\ Len(regEvents) < EventsCap
    BY <1>7 DEF Send
  <2> HIDE DEF e
  <2>3. e \in Event /\ EventsCap \in Nat
    BY <2>1, RegistryAssumption DEF e
  <2> QED BY <1>0, <2>2, <2>3, AppendFacts
<1>8. ASSUME NEW s \in Sessions, SendRemoved(s) \/ SendAdded(s) \/ SendUpdated(s)
      PROVE  regEvents' \in Seq(Event) /\ Len(regEvents') <= EventsCap /\ pending' \in Pending
  <2>1. "none" \in AgentStates /\ agents[s] \in AgentStates
    BY <1>0 DEF AgentStates
  <2>2. regEvents' \in Seq(Event) /\ Len(regEvents') <= EventsCap
    BY <1>7, <1>8, <2>1 DEF SendRemoved, SendAdded, SendUpdated
  <2>3. pending' \in Pending
    BY <1>0, <1>8 DEF SendRemoved, SendAdded, SendUpdated, Pending
  <2> QED BY <2>2, <2>3
<1>9. CASE \E s \in Sessions : SendRemoved(s) \/ SendAdded(s) \/ SendUpdated(s)
  BY <1>0, <1>8, <1>9 DEF SendRemoved, SendAdded, SendUpdated, Send, tmuxVars
<1>10. CASE ScanDone
  <2>1. scan' \in Scan
    BY <1>0, <1>10 DEF ScanDone, Scan
  <2> QED BY <1>0, <1>10, <2>1 DEF ScanDone, tmuxVars
<1> QED BY <1>1, <1>2, <1>3, <1>4, <1>5, <1>6, <1>9, <1>10 DEF RunScan

\* The registry's own types.
OwnTypes ==
  /\ status \in [Sessions -> Statuses]
  /\ attached \subseteq Existing
  /\ scan \in Scan
  /\ agents \in [Sessions -> AgentStates]
  /\ pending \in Pending
  /\ regEvents \in Seq(Event) /\ Len(regEvents) <= EventsCap
  /\ view \in [Sessions -> AgentStates]
  /\ was \in [Sessions -> SUBSET Statuses]

LEMMA OwnTypesStep ==
  ASSUME RegistryTypeOK, AsksOK, ResultsOK, RegistryNext
  PROVE  OwnTypes'
<1>0. OwnTypes /\ ControlTypeOK
  BY DEF RegistryTypeOK, OwnTypes
<1>1. CASE RunScan
  <2>1. UNCHANGED <<status, attached, view>>
    BY <1>1, ScanTypes
  <2>2. Existing' = Existing
    BY <2>1 DEF Existing
  <2> QED BY <1>0, <1>1, <2>1, <2>2, ScanTypes DEF OwnTypes
<1>2. CASE WatchLoop \/ LoopEnds
  <2>1. scan' \in Scan
    BY <1>0, <1>2 DEF WatchLoop, LoopEnds, OwnTypes, Scan
  <2>2. UNCHANGED <<tmuxVars, agents, pending, regEvents, view, was>>
    BY <1>2 DEF WatchLoop, LoopEnds
  <2> QED BY <1>0, <2>1, <2>2 DEF OwnTypes, tmuxVars, Existing
<1>3. CASE Stop
  BY <1>0, <1>3 DEF Stop, OwnTypes, tmuxVars, registryVars, Existing
<1>4. CASE ReadEvent
  <2>1. regEvents # <<>> /\ regEvents \in Seq(Event) /\ Len(regEvents) <= EventsCap
    BY <1>0, <1>4 DEF ReadEvent, OwnTypes
  <2>2. /\ Head(regEvents) \in Event /\ Tail(regEvents) \in Seq(Event)
        /\ Len(Tail(regEvents)) = Len(regEvents) - 1 /\ Len(regEvents) \in Nat
    BY <2>1, TailFacts
  <2>3. view' \in [Sessions -> AgentStates]
    BY <1>0, <1>4, <2>2 DEF ReadEvent, Event, OwnTypes
  <2>4. regEvents' \in Seq(Event) /\ Len(regEvents') <= EventsCap
    BY <1>4, <2>1, <2>2, RegistryAssumption DEF ReadEvent
  <2>5. UNCHANGED <<tmuxVars, scan, agents, pending, was>>
    BY <1>4 DEF ReadEvent
  <2> QED BY <1>0, <2>3, <2>4, <2>5 DEF OwnTypes, tmuxVars, Existing
<1>5. CASE Outside
  <2>1. UNCHANGED <<scan, agents, pending, regEvents, view>>
    BY <1>0, <1>5, OutsideFacts
  <2>2. status' \in [Sessions -> Statuses] /\ attached' \subseteq Existing' /\ was' \in [Sessions -> SUBSET Statuses]
    <3>1. ASSUME NEW s \in Sessions, NEW new \in Statuses, Becomes(s, new)
          PROVE  status' \in [Sessions -> Statuses] /\ attached' \subseteq Existing' /\ was' \in [Sessions -> SUBSET Statuses]
      <4>1. /\ status' = [status EXCEPT ![s] = new]
            /\ was' = [was EXCEPT ![s] = IF was[s] = {} THEN {} ELSE was[s] \cup {new}]
            /\ attached' = attached \ (IF new = "none" THEN {s} ELSE {})
        BY <3>1 DEF Becomes
      <4> QED BY <1>0, <4>1 DEF OwnTypes, Existing
    <3>2. ASSUME NEW s \in Sessions, Attaches(s)
          PROVE  status' \in [Sessions -> Statuses] /\ attached' \subseteq Existing' /\ was' \in [Sessions -> SUBSET Statuses]
      <4>1. /\ status' = status /\ was' = was /\ status[s] # "none"
            /\ attached' \subseteq attached \cup {s}
        BY <3>2 DEF Attaches
      <4> QED BY <1>0, <4>1 DEF OwnTypes, Existing
    <3>3. CASE Connection \/ TmuxGoes \/ PaneOutput
      BY <1>0, <3>3 DEF Connection, TmuxGoes, PaneOutput, OwnTypes, Existing, tmuxVars
    <3> QED BY <1>5, <3>1, <3>2, <3>3 DEF Outside
  <2> QED BY <1>0, <2>1, <2>2 DEF OwnTypes
<1> QED BY <1>1, <1>2, <1>3, <1>4, <1>5 DEF RegistryNext, Outside

----------------------------------------------------------------------------
(* The events and the map. *)

EventsInv ==
  /\ EventsTellTheMap
  /\ scan.pc # "send" => pending = Nothing
  /\ pending.removed \cap pending.added = {}
  /\ (pending.removed \cup pending.added) \cap pending.updated = {}
  /\ \A s \in pending.removed : agents[s] = "none"

LEMMA KnowsAppend ==
  ASSUME regEvents \in Seq(Event), NEW e \in Event, regEvents' = Append(regEvents, e),
         view' = view, NEW s \in Sessions, NEW x \in AgentStates
  PROVE  /\ \A i \in 1..(Len(regEvents) + 1) : Knows(s, i, x)' => Knows(s, i, x)
         /\ Knows(s, Len(regEvents) + 1, x)' =>
              IF e.session = s THEN x = e.state ELSE Knows(s, Len(regEvents) + 1, x)
<1> DEFINE n == Len(regEvents)
<1>1. /\ n \in Nat /\ Len(regEvents') = n + 1 /\ regEvents'[n + 1] = e
      /\ \A i \in 1..n : regEvents'[i] = regEvents[i]
  BY AppendFacts
<1>2. ASSUME NEW i \in 1..(n + 1), Knows(s, i, x)'
      PROVE  Knows(s, i, x)
  <2>1. \A k \in 1..(i - 1) : k \in 1..n
    BY <1>1
  <2>2. CASE x = view'[s] /\ \A k \in 1..(i - 1) : regEvents'[k].session # s
    BY <1>1, <2>1, <2>2 DEF Knows
  <2>3. CASE \E j \in 1..(i - 1) :
               /\ regEvents'[j].session = s /\ regEvents'[j].state = x
               /\ \A k \in (j + 1)..(i - 1) : regEvents'[k].session # s
    <3>1. PICK j \in 1..(i - 1) :
               /\ regEvents'[j].session = s /\ regEvents'[j].state = x
               /\ \A k \in (j + 1)..(i - 1) : regEvents'[k].session # s
      BY <2>3
    <3>2. regEvents'[j] = regEvents[j]
      BY <1>1, <2>1
    <3>3. \A k \in (j + 1)..(i - 1) : k \in 1..n /\ regEvents'[k] = regEvents[k]
      BY <1>1
    <3> QED BY <3>1, <3>2, <3>3, Zenon DEF Knows
  <2> QED BY <1>2, <2>2, <2>3 DEF Knows
<1>3. ASSUME Knows(s, Len(regEvents) + 1, x)'
      PROVE  IF e.session = s THEN x = e.state ELSE Knows(s, n + 1, x)
  <2>0. (Len(regEvents') + 1) - 1 = n + 1 /\ (n + 1) - 1 = n
    BY <1>1
  <2>1. CASE x = view'[s] /\ \A k \in 1..(n + 1) : regEvents'[k].session # s
    <3>1. e.session # s
      BY <1>1, <2>1
    <3>2. \A k \in 1..n : regEvents[k].session # s
      BY <1>1, <2>1
    <3> QED BY <2>0, <2>1, <3>1, <3>2 DEF Knows
  <2>2. CASE \E j \in 1..(n + 1) :
               /\ regEvents'[j].session = s /\ regEvents'[j].state = x
               /\ \A k \in (j + 1)..(n + 1) : regEvents'[k].session # s
    <3>1. PICK j \in 1..(n + 1) :
               /\ regEvents'[j].session = s /\ regEvents'[j].state = x
               /\ \A k \in (j + 1)..(n + 1) : regEvents'[k].session # s
      BY <2>2
    <3>2. CASE j = n + 1
      BY <1>1, <3>1, <3>2
    <3>3. CASE j # n + 1
      <4>1. j \in 1..n /\ n + 1 \in (j + 1)..(n + 1)
        BY <1>1, <3>3
      <4>2. e.session # s
        BY <1>1, <3>1, <4>1
      <4>3. regEvents[j].session = s /\ regEvents[j].state = x
        BY <1>1, <3>1, <4>1
      <4>4. \A k \in (j + 1)..n : regEvents[k].session # s
        BY <1>1, <3>1, <4>1
      <4> QED BY <2>0, <4>1, <4>2, <4>3, <4>4 DEF Knows
    <3> QED BY <3>2, <3>3
  <2> QED BY <1>3, <2>0, <2>1, <2>2 DEF Knows
<1> QED BY <1>2, <1>3

LEMMA KnowsTail ==
  ASSUME regEvents \in Seq(Event), regEvents # <<>>, view \in [Sessions -> AgentStates],
         regEvents' = Tail(regEvents),
         view' = [view EXCEPT ![Head(regEvents).session] = Head(regEvents).state],
         NEW s \in Sessions, NEW x \in AgentStates, NEW i \in 1..Len(regEvents), Knows(s, i, x)'
  PROVE  Knows(s, i + 1, x)
<1>1. /\ Len(regEvents) \in Nat /\ Head(regEvents) = regEvents[1]
      /\ Len(regEvents') = Len(regEvents) - 1
      /\ \A k \in 1..Len(regEvents') : regEvents'[k] = regEvents[k + 1]
  BY TailFacts
<1>2. \A k \in 1..(i - 1) : regEvents'[k] = regEvents[k + 1]
  BY <1>1
<1>3. (i + 1) - 1 = i
  OBVIOUS
<1>4. CASE x = view'[s] /\ \A k \in 1..(i - 1) : regEvents'[k].session # s
  <2>1. \A k \in 2..i : regEvents[k].session # s
    <3> SUFFICES ASSUME NEW k \in 2..i PROVE regEvents[k].session # s
      OBVIOUS
    <3>1. k - 1 \in 1..(i - 1) /\ (k - 1) + 1 = k
      OBVIOUS
    <3> QED BY <1>2, <1>4, <3>1
  <2>2. CASE regEvents[1].session = s
    <3>1. regEvents[1].state = x
      BY <1>1, <1>4, <2>2
    <3>2. 1 \in 1..i /\ 1 + 1 = 2
      OBVIOUS
    <3> QED BY <1>3, <2>1, <2>2, <3>1, <3>2 DEF Knows
  <2>3. CASE regEvents[1].session # s
    <3>1. x = view[s]
      BY <1>1, <1>4, <2>3
    <3>2. \A k \in 1..i : k = 1 \/ k \in 2..i
      OBVIOUS
    <3> QED BY <1>3, <2>1, <2>3, <3>1, <3>2 DEF Knows
  <2> QED BY <2>2, <2>3
<1>5. CASE \E j \in 1..(i - 1) :
             /\ regEvents'[j].session = s /\ regEvents'[j].state = x
             /\ \A k \in (j + 1)..(i - 1) : regEvents'[k].session # s
  <2>1. PICK j \in 1..(i - 1) :
             /\ regEvents'[j].session = s /\ regEvents'[j].state = x
             /\ \A k \in (j + 1)..(i - 1) : regEvents'[k].session # s
    BY <1>5
  <2>2. j + 1 \in 1..i /\ regEvents[j + 1].session = s /\ regEvents[j + 1].state = x
    BY <1>2, <2>1
  <2>3. \A k \in ((j + 1) + 1)..i : regEvents[k].session # s
    <3> SUFFICES ASSUME NEW k \in ((j + 1) + 1)..i PROVE regEvents[k].session # s
      OBVIOUS
    <3>1. k - 1 \in (j + 1)..(i - 1) /\ k - 1 \in 1..(i - 1) /\ (k - 1) + 1 = k
      OBVIOUS
    <3> QED BY <1>2, <2>1, <3>1
  <2> QED BY <1>3, <2>2, <2>3 DEF Knows
<1> QED BY <1>4, <1>5 DEF Knows

LEMMA SendEvents ==
  ASSUME RegistryTypeOK, EventsInv, NEW type, NEW s0 \in Sessions, NEW state \in AgentStates,
         type \in {"added", "removed", "updated"},
         Send(type, s0, state),
         \A x \in AgentStates : LeftToTell(s0, x) => Takes([type |-> type, session |-> s0, state |-> state], x),
         LeftToTell(s0, state)', \A s \in Sessions \ {s0}, x \in AgentStates : LeftToTell(s, x) => LeftToTell(s, x)'
  PROVE  EventsTellTheMap'
<1> DEFINE e == [type |-> type, session |-> s0, state |-> state]
           n == Len(regEvents)
<1>1. /\ e \in Event /\ e.session = s0 /\ e.state = state
      /\ \A x \in AgentStates : LeftToTell(s0, x) => Takes(e, x)
  BY DEF Event
<1>2. regEvents \in Seq(Event) /\ regEvents' = Append(regEvents, e) /\ view' = view
  BY DEF RegistryTypeOK, Send
<1> HIDE DEF e
<1>3. /\ n \in Nat /\ Len(regEvents') = n + 1 /\ regEvents'[n + 1] = e
      /\ \A i \in 1..n : regEvents'[i] = regEvents[i]
      /\ DOMAIN regEvents' = 1..(n + 1) /\ DOMAIN regEvents = 1..n
  BY <1>1, <1>2, AppendFacts
<1> HIDE DEF n
<1> SUFFICES ASSUME NEW s \in Sessions, NEW x \in AgentStates
             PROVE  /\ \A i \in 1..(n + 1) :
                         regEvents'[i].session = s /\ Knows(s, i, x)' => Takes(regEvents'[i], x)
                    /\ Knows(s, Len(regEvents) + 1, x)' => LeftToTell(s, x)'
  BY <1>3 DEF EventsTellTheMap
<1>4. /\ \A i \in 1..n : regEvents[i].session = s /\ Knows(s, i, x) => Takes(regEvents[i], x)
      /\ Knows(s, n + 1, x) => LeftToTell(s, x)
  BY <1>3 DEF EventsInv, EventsTellTheMap, n
<1>5. /\ \A i \in 1..(n + 1) : Knows(s, i, x)' => Knows(s, i, x)
      /\ Knows(s, Len(regEvents) + 1, x)' =>
           IF s0 = s THEN x = state ELSE Knows(s, n + 1, x)
  BY <1>1, <1>2, KnowsAppend DEF n
<1>6. ASSUME NEW i \in 1..(n + 1), regEvents'[i].session = s, Knows(s, i, x)'
      PROVE  Takes(regEvents'[i], x)
  <2>1. CASE i = n + 1
    BY <1>1, <1>3, <1>4, <1>5, <1>6, <2>1
  <2>2. CASE i # n + 1
    <3>1. i \in 1..n
      BY <1>3, <2>2
    <3> QED BY <1>3, <1>4, <1>5, <1>6, <3>1
  <2> QED BY <2>1, <2>2
<1>7. ASSUME Knows(s, Len(regEvents) + 1, x)'
      PROVE  LeftToTell(s, x)'
  <2>1. CASE s = s0
    BY <1>5, <1>7, <2>1
  <2>2. CASE s # s0
    BY <1>4, <1>5, <1>7, <2>2
  <2> QED BY <2>1, <2>2
<1> QED BY <1>6, <1>7

LEMMA SendsEvents ==
  ASSUME RegistryTypeOK, EventsInv, NEW s0 \in Sessions,
         SendRemoved(s0) \/ SendAdded(s0) \/ SendUpdated(s0)
  PROVE  EventsInv'
<1>0. /\ pending \in Pending /\ agents \in [Sessions -> AgentStates] /\ "none" \in AgentStates
      /\ agents[s0] \in AgentStates
  BY DEF RegistryTypeOK, AgentStates
<1>1. scan.pc = "send" /\ UNCHANGED <<scan, agents>>
  BY DEF SendRemoved, SendAdded, SendUpdated, Send
<1>2. CASE SendRemoved(s0)
  <2>1. /\ s0 \in pending.removed /\ Send("removed", s0, "none")
        /\ pending'.removed = pending.removed \ {s0} /\ pending'.added = pending.added
        /\ pending'.updated = pending.updated
    BY <1>0, <1>2 DEF SendRemoved, Pending
  <2>2. s0 \notin pending.added /\ s0 \notin pending.updated /\ agents[s0] = "none"
    BY <2>1 DEF EventsInv
  <2>3. \A x \in AgentStates : LeftToTell(s0, x) =>
          Takes([type |-> "removed", session |-> s0, state |-> "none"], x)
    BY <2>1 DEF LeftToTell, Takes
  <2>4. LeftToTell(s0, "none")'
    BY <1>1, <2>1, <2>2 DEF LeftToTell
  <2>5. \A s \in Sessions \ {s0}, x \in AgentStates : LeftToTell(s, x) => LeftToTell(s, x)'
    BY <1>1, <2>1 DEF LeftToTell
  <2>6. EventsTellTheMap'
    BY <1>0, <2>1, <2>3, <2>4, <2>5, SendEvents
  <2> QED BY <1>1, <2>1, <2>6 DEF EventsInv
<1>3. CASE SendAdded(s0)
  <2>1. /\ s0 \in pending.added /\ pending.removed = {} /\ Send("added", s0, agents[s0])
        /\ pending'.removed = {} /\ pending'.added = pending.added \ {s0}
        /\ pending'.updated = pending.updated
    BY <1>0, <1>3 DEF SendAdded, Pending
  <2>2. s0 \notin pending.updated
    BY <2>1 DEF EventsInv
  <2>3. \A x \in AgentStates : LeftToTell(s0, x) =>
          Takes([type |-> "added", session |-> s0, state |-> agents[s0]], x)
    BY <2>1 DEF LeftToTell, Takes
  <2>4. LeftToTell(s0, agents[s0])'
    BY <1>1, <2>1, <2>2 DEF LeftToTell
  <2>5. \A s \in Sessions \ {s0}, x \in AgentStates : LeftToTell(s, x) => LeftToTell(s, x)'
    BY <1>1, <2>1 DEF LeftToTell
  <2>6. EventsTellTheMap'
    BY <1>0, <1>1, <2>1, <2>3, <2>4, <2>5, SendEvents
  <2> QED BY <1>1, <2>1, <2>6 DEF EventsInv
<1>4. CASE SendUpdated(s0)
  <2>1. /\ s0 \in pending.updated /\ pending.removed = {} /\ Send("updated", s0, agents[s0])
        /\ pending'.removed = {} /\ pending'.added = pending.added
        /\ pending'.updated = pending.updated \ {s0}
    BY <1>0, <1>4 DEF SendUpdated, Pending
  <2>2. s0 \notin pending.added
    BY <2>1 DEF EventsInv
  <2>3. \A x \in AgentStates : LeftToTell(s0, x) =>
          Takes([type |-> "updated", session |-> s0, state |-> agents[s0]], x)
    BY <2>1, <2>2 DEF LeftToTell, Takes
  <2>4. LeftToTell(s0, agents[s0])'
    BY <1>1, <2>1, <2>2 DEF LeftToTell
  <2>5. \A s \in Sessions \ {s0}, x \in AgentStates : LeftToTell(s, x) => LeftToTell(s, x)'
    BY <1>1, <2>1 DEF LeftToTell
  <2>6. EventsTellTheMap'
    BY <1>0, <1>1, <2>1, <2>3, <2>4, <2>5, SendEvents
  <2> QED BY <1>1, <2>1, <2>6 DEF EventsInv
<1> QED BY <1>2, <1>3, <1>4

LEMMA EventsStep ==
  ASSUME RegistryTypeOK, EventsInv, RegistryNext
  PROVE  EventsInv'
<1>0. /\ pending \in Pending /\ agents \in [Sessions -> AgentStates] /\ scan \in Scan
      /\ ControlTypeOK
  BY DEF RegistryTypeOK
<1>1. CASE \E s \in Sessions : SendRemoved(s) \/ SendAdded(s) \/ SendUpdated(s)
  BY <1>1, SendsEvents
<1>2. ASSUME UNCHANGED <<agents, pending, regEvents, view>>,
             scan.pc = "send" => scan'.pc = "send" \/ pending = Nothing
      PROVE  EventsInv'
  <2>1. EventsTellTheMap'
    BY <1>2 DEF EventsInv, EventsTellTheMap, Knows, LeftToTell
  <2> QED BY <1>2, <2>1 DEF EventsInv
<1>3. CASE AskList \/ (\E s \in Sessions : AskPane(s)) \/ ListFails \/ TakeList \/ TakePane \/ ScanDone
  BY <1>2, <1>3 DEF AskList, AskPane, ListFails, TakeList, TakePane, ScanDone
<1>4. CASE WatchLoop \/ LoopEnds \/ Stop
  BY <1>2, <1>4 DEF WatchLoop, LoopEnds, Stop, registryVars
<1>5. CASE Outside
  BY <1>0, <1>2, <1>5, OutsideFacts
<1>6. CASE Diff
  <2>1. /\ pending = Nothing /\ UNCHANGED <<regEvents, view>> /\ scan'.pc = "send"
        /\ agents' = [s \in Sessions |-> Found(s)]
    BY <1>0, <1>6 DEF Diff, EventsInv, Scan
  <2>2. /\ pending'.removed = {s \in Sessions : agents[s] # "none" /\ Found(s) = "none"}
        /\ pending'.added = {s \in Sessions : agents[s] = "none" /\ Found(s) # "none"}
        /\ pending'.updated = {s \in Sessions : "none" \notin {agents[s], Found(s)}
                                                   /\ agents[s] # Found(s)}
    BY <1>6 DEF Diff
  <2>3. \A s \in Sessions, x \in AgentStates : LeftToTell(s, x) => LeftToTell(s, x)'
    <3> SUFFICES ASSUME NEW s \in Sessions, NEW x \in AgentStates, LeftToTell(s, x)
                 PROVE  LeftToTell(s, x)'
      OBVIOUS
    <3>1. x = agents[s]
      BY <2>1 DEF LeftToTell, Nothing
    <3> QED BY <2>1, <2>2, <3>1 DEF LeftToTell
  <2>4. EventsTellTheMap'
    BY <2>1, <2>3 DEF EventsInv, EventsTellTheMap, Knows
  <2> QED BY <2>1, <2>2, <2>4 DEF EventsInv
<1>7. CASE ReadEvent
  <2>1. /\ regEvents # <<>> /\ regEvents \in Seq(Event) /\ regEvents' = Tail(regEvents)
        /\ view' = [view EXCEPT ![Head(regEvents).session] = Head(regEvents).state]
        /\ view \in [Sessions -> AgentStates] /\ UNCHANGED <<scan, agents, pending>>
    BY <1>7 DEF ReadEvent, RegistryTypeOK
  <2>2. /\ Len(regEvents) \in Nat /\ Len(regEvents') = Len(regEvents) - 1 /\ Len(regEvents) >= 1
        /\ DOMAIN regEvents' = 1..Len(regEvents') /\ DOMAIN regEvents = 1..Len(regEvents)
        /\ \A k \in 1..Len(regEvents') : k + 1 \in 1..Len(regEvents) /\ regEvents'[k] = regEvents[k + 1]
    BY <2>1, TailFacts
  <2>3. ASSUME NEW s \in Sessions, NEW x \in AgentStates
        PROVE  /\ \A i \in DOMAIN regEvents' :
                    regEvents'[i].session = s /\ Knows(s, i, x)' => Takes(regEvents'[i], x)
               /\ Knows(s, Len(regEvents) + 1, x)' => LeftToTell(s, x)'
    <3>1. \A i \in 1..Len(regEvents) : Knows(s, i, x)' => Knows(s, i + 1, x)
      BY <2>1, KnowsTail
    <3>2. ASSUME NEW i \in DOMAIN regEvents', regEvents'[i].session = s, Knows(s, i, x)'
          PROVE  Takes(regEvents'[i], x)
      <4>1. i \in 1..Len(regEvents) /\ i + 1 \in DOMAIN regEvents /\ regEvents'[i] = regEvents[i + 1]
        BY <2>2
      <4> QED BY <3>1, <3>2, <4>1 DEF EventsInv, EventsTellTheMap
    <3>3. ASSUME Knows(s, Len(regEvents) + 1, x)'
          PROVE  LeftToTell(s, x)'
      <4>1. PICK i \in 1..Len(regEvents) : i = Len(regEvents') + 1 /\ i = Len(regEvents)
        BY <2>2
      <4>2. Knows(s, i, x)'
        BY <3>3, <4>1 DEF Knows
      <4>3. Knows(s, Len(regEvents) + 1, x)
        BY <3>1, <4>1, <4>2
      <4>4. LeftToTell(s, x)
        BY <4>3 DEF EventsInv, EventsTellTheMap
      <4> QED BY <2>1, <4>4 DEF LeftToTell
    <3> QED BY <3>2, <3>3
  <2>4. EventsTellTheMap'
    BY <2>3 DEF EventsTellTheMap
  <2> QED BY <2>1, <2>4 DEF EventsInv
<1> QED BY <1>1, <1>2, <1>3, <1>4, <1>5, <1>6, <1>7 DEF RegistryNext, RunScan, Outside

----------------------------------------------------------------------------
(* What a scan finds. *)

\* As long as nothing has gone wrong with the connection.
Calm == ~timedOut /\ closer = "open" /\ tmux = "running"

\* The answers to r that what was so since the scan began can explain.
Fits(r) ==
  IF r.ask = "list"
  THEN {a \in Replies : a.kind = "list" /\ \A s \in Sessions \ a.sessions : "none" \in was[s]}
  ELSE {a \in Replies : IF ShowsAgent(a) THEN "agent" \in was[r.of] ELSE was[r.of] # {"agent"}}

Asked == callers[Watcher].request

WasOK ==
  scan.pc \in {"listing", "pane", "asking"} => \A s \in Sessions : status[s] \in was[s]

\* The scan's question is the one on its way, the answer fits it wherever it is.
AnswerFits ==
  Calm =>
    /\ Waits(Watcher) => /\ stdin # <<>> => stdin[1].request = Asked
                         /\ ReplyIn(Fits(Asked))
    /\ scan.pc \in {"listing", "asking"} /\ Answered => Result \in Fits(Asked)

FoundFits ==
  Calm /\ scan.pc \in {"pane", "asking"} => \A s \in Sessions :
    IF s \in scan.todo THEN s \notin scan.found
    ELSE IF s \in scan.found THEN "agent" \in was[s] ELSE was[s] # {"agent"}

LEMMA CalmBefore ==
  ASSUME [Next]_controlVars, Calm'
  PROVE  Calm
<1>1. CASE UNCHANGED controlVars
  BY <1>1 DEF controlVars, Calm
<1>2. CASE Next
  <2>1. timedOut => timedOut'
    BY <1>2 DEF Next, Call, Execute, Acquire, Write, Receive, TimeOut, SeeDone, TakeResult,
         ReadLoop, ReadLine, SendResponse, SendNotification, ReadEnds, Close, CloseBegins,
         CloseStdin, CloseDone, TakeNotification, TmuxAnswers, TmuxNotifies, TmuxExits
  <2>2. closer' = "open" => closer = "open"
    BY <1>2 DEF Next, Call, Execute, Acquire, Write, Receive, TimeOut, SeeDone, TakeResult,
         ReadLoop, ReadLine, SendResponse, SendNotification, ReadEnds, Close, CloseBegins,
         CloseStdin, CloseDone, TakeNotification, TmuxAnswers, TmuxNotifies, TmuxExits
  <2>3. tmux' = "running" => tmux = "running"
    BY <1>2 DEF Next, Call, Execute, Acquire, Write, Receive, TimeOut, SeeDone, TakeResult,
         ReadLoop, ReadLine, SendResponse, SendNotification, ReadEnds, Close, CloseBegins,
         CloseStdin, CloseDone, TakeNotification, TmuxAnswers, TmuxNotifies, TmuxExits
  <2> QED BY <2>1, <2>2, <2>3 DEF Calm
<1> QED BY <1>1, <1>2

LEMMA WasStep ==
  ASSUME RegistryTypeOK, WasOK, RegistryNext
  PROVE  WasOK'
<1>0. /\ status \in [Sessions -> Statuses] /\ was \in [Sessions -> SUBSET Statuses]
      /\ scan \in Scan /\ ControlTypeOK
  BY DEF RegistryTypeOK
<1>1. CASE AskList
  BY <1>0, <1>1 DEF AskList, tmuxVars, WasOK
<1>2. CASE ListFails \/ Diff \/ ScanDone \/ WatchLoop \/ LoopEnds
  <2>1. scan'.pc \notin {"listing", "pane", "asking"}
    BY <1>0, <1>2 DEF ListFails, Diff, ScanDone, WatchLoop, LoopEnds, Scan
  <2> QED BY <2>1 DEF WasOK
<1>3. CASE TakeList \/ TakePane \/ \E s \in Sessions : AskPane(s)
  <2>1. scan.pc \in {"listing", "pane", "asking"} /\ UNCHANGED <<status, was>>
    BY <1>3 DEF TakeList, TakePane, AskPane, tmuxVars
  <2> QED BY <2>1 DEF WasOK
<1>4. CASE Stop \/ ReadEvent \/ \E s \in Sessions : SendRemoved(s) \/ SendAdded(s) \/ SendUpdated(s)
  <2>1. UNCHANGED <<status, was, scan>>
    BY <1>4 DEF Stop, ReadEvent, SendRemoved, SendAdded, SendUpdated, Send, tmuxVars, registryVars
  <2> QED BY <2>1 DEF WasOK
<1>5. CASE Connection \/ TmuxGoes \/ PaneOutput \/ \E s \in Sessions : Attaches(s)
  <2>1. UNCHANGED <<status, was, scan>>
    BY <1>5 DEF Connection, TmuxGoes, PaneOutput, Attaches, tmuxVars, registryVars
  <2> QED BY <2>1 DEF WasOK
<1>6. ASSUME NEW s \in Sessions, NEW new \in Statuses, Becomes(s, new)
      PROVE  WasOK'
  <2>1. /\ status' = [status EXCEPT ![s] = new] /\ scan' = scan
        /\ was' = [was EXCEPT ![s] = IF was[s] = {} THEN {} ELSE was[s] \cup {new}]
    BY <1>6 DEF Becomes, registryVars
  <2> QED BY <1>0, <2>1 DEF WasOK
<1> QED BY <1>1, <1>2, <1>3, <1>4, <1>5, <1>6 DEF RegistryNext, RunScan

LEMMA ReplyFits ==
  ASSUME RegistryTypeOK, AsksOK, WasOK, scan.pc \in {"listing", "asking"}
  PROVE  TmuxReply(Asked) \in Fits(Asked)
<1>1. \A s \in Sessions : status[s] \in was[s] /\ status[s] \in Statuses
  BY DEF WasOK, RegistryTypeOK
<1>2. CASE scan.pc = "listing"
  <2>1. Asked = ListSessions
    BY <1>2 DEF AsksOK, Asked
  <2>2. TmuxReply(Asked) = Answer("list", Existing, attached \cap Existing)
    BY <2>1 DEF TmuxReply, ListSessions
  <2>3. Answer("list", Existing, attached \cap Existing) \in Replies
    BY RegistryAssumption DEF Answer, Existing
  <2>4. \A s \in Sessions \ Existing : "none" \in was[s]
    BY <1>1 DEF Existing
  <2> QED BY <2>1, <2>2, <2>3, <2>4 DEF Fits, Answer, ListSessions
<1>3. CASE scan.pc = "asking"
  <2>1. PICK s \in Sessions : Asked = PaneInfo(s)
    BY <1>3 DEF AsksOK, Asked
  <2>2. Asked.ask = "pane" /\ Asked.of = s
    BY <2>1 DEF PaneInfo
  <2>3. Fits(Asked) =
          {a \in Replies : IF ShowsAgent(a) THEN "agent" \in was[s] ELSE was[s] # {"agent"}}
    BY <2>2 DEF Fits
  <2>4. CASE status[s] = "none"
    <3>1. TmuxReply(Asked) = Answer("error", {}, {})
      BY <2>2, <2>4 DEF TmuxReply
    <3>2. Answer("error", {}, {}) \in Replies /\ ~ShowsAgent(Answer("error", {}, {}))
      BY RegistryAssumption DEF Answer, ShowsAgent
    <3>3. was[s] # {"agent"}
      BY <1>1, <2>4
    <3> QED BY <2>3, <3>1, <3>2, <3>3
  <2>5. CASE status[s] = "shell"
    <3>1. TmuxReply(Asked) = Answer("pane", {}, {})
      BY <2>2, <2>5 DEF TmuxReply
    <3>2. Answer("pane", {}, {}) \in Replies /\ ~ShowsAgent(Answer("pane", {}, {}))
      BY RegistryAssumption DEF Answer, ShowsAgent
    <3>3. was[s] # {"agent"}
      BY <1>1, <2>5
    <3> QED BY <2>3, <3>1, <3>2, <3>3
  <2>6. CASE status[s] = "agent"
    <3>1. TmuxReply(Asked) = Answer("pane", {s}, {})
      BY <2>2, <2>6 DEF TmuxReply
    <3>2. Answer("pane", {s}, {}) \in Replies /\ ShowsAgent(Answer("pane", {s}, {}))
      BY RegistryAssumption DEF Answer, ShowsAgent
    <3>3. "agent" \in was[s]
      BY <1>1, <2>6
    <3> QED BY <2>3, <3>1, <3>2, <3>3
  <2> QED BY <1>1, <2>4, <2>5, <2>6 DEF Statuses
<1> QED BY <1>2, <1>3

\* What was so stays so: while the scan lasts, more answers can be explained.
LEMMA FitsGrow ==
  ASSUME RegistryTypeOK, UNCHANGED was \/ \E s \in Sessions, new \in Statuses : Becomes(s, new)
  PROVE  /\ \A r \in Requests \ {ClientCommand} : Fits(r) \subseteq Fits(r)'
         /\ \A s \in Sessions : /\ "agent" \in was[s] => "agent" \in was'[s]
                                /\ was[s] # {"agent"} => was'[s] # {"agent"}
<1>1. \A s \in Sessions : /\ \A x : x \in was[s] => x \in was'[s]
                          /\ was[s] # {"agent"} => was'[s] # {"agent"}
  <2>1. CASE UNCHANGED was
    BY <2>1
  <2>2. CASE \E s \in Sessions, new \in Statuses : Becomes(s, new)
    <3>1. PICK t \in Sessions, new \in Statuses : Becomes(t, new)
      BY <2>2
    <3>2. was' = [was EXCEPT ![t] = IF was[t] = {} THEN {} ELSE was[t] \cup {new}]
      BY <3>1 DEF Becomes
    <3>3. was \in [Sessions -> SUBSET Statuses]
      BY DEF RegistryTypeOK
    <3> QED BY <3>2, <3>3
  <2> QED BY <2>1, <2>2
<1>2. ASSUME NEW r \in Requests \ {ClientCommand}
      PROVE  Fits(r) \subseteq Fits(r)'
  <2>1. CASE r = ListSessions
    <3>1. r.ask = "list"
      BY <2>1 DEF ListSessions
    <3> QED BY <1>1, <3>1 DEF Fits
  <2>2. CASE \E s \in Sessions : r = PaneInfo(s)
    <3>1. r.ask # "list" /\ r.of \in Sessions
      BY <2>2 DEF PaneInfo
    <3> QED BY <1>1, <3>1 DEF Fits, ShowsAgent
  <2> QED BY <1>2, <2>1, <2>2, RegistryAssumption
<1> QED BY <1>1, <1>2

LEMMA FoundStep ==
  ASSUME RegistryTypeOK, AsksOK, AnswerFits, FoundFits, RegistryNext, Calm' => Calm
  PROVE  FoundFits'
<1> SUFFICES ASSUME Calm', scan'.pc \in {"pane", "asking"}, NEW s \in Sessions
             PROVE  IF s \in scan'.todo THEN s \notin scan'.found
                    ELSE IF s \in scan'.found THEN "agent" \in was'[s] ELSE was'[s] # {"agent"}
  BY DEF FoundFits
<1>0. scan \in Scan /\ Calm /\ ControlTypeOK
  BY DEF RegistryTypeOK
<1>1. CASE AskList \/ ListFails \/ Diff \/ ScanDone \/ WatchLoop \/ LoopEnds
  BY <1>0, <1>1 DEF AskList, Ask, ListFails, Diff, ScanDone, WatchLoop, LoopEnds, Scan
<1>2. CASE TakeList
  <2>1. /\ Answered /\ scan.pc = "listing" /\ was' = was
        /\ scan'.todo = Listed(Result) /\ scan'.found = {}
    BY <1>0, <1>2 DEF TakeList, Scan
  <2>2. Result \in Fits(Asked) /\ Asked = ListSessions
    BY <1>0, <2>1 DEF AnswerFits, AsksOK, Asked
  <2>3. Result.kind = "list" /\ \A t \in Sessions \ Result.sessions : "none" \in was[t]
    BY <2>2 DEF Fits, ListSessions
  <2>4. s \in scan'.todo \/ s \notin Result.sessions
    BY <2>1, <2>3 DEF Listed
  <2> QED BY <2>1, <2>3, <2>4
<1>3. CASE \E t \in Sessions : AskPane(t)
  <2>1. scan.pc = "pane" /\ scan'.todo = scan.todo /\ scan'.found = scan.found /\ was' = was
    BY <1>0, <1>3 DEF AskPane, Ask, Scan
  <2> QED BY <1>0, <2>1 DEF FoundFits
<1>4. CASE TakePane
  <2>1. /\ Answered /\ scan.pc = "asking" /\ was' = was /\ scan'.todo = scan.todo \ {scan.cur}
        /\ scan'.found = IF ~AskFailed /\ ShowsAgent(Result)
                           THEN scan.found \cup {scan.cur} ELSE scan.found
    BY <1>0, <1>4 DEF TakePane, Scan
  <2>2. Result \in Fits(Asked) /\ Asked = PaneInfo(scan.cur) /\ scan.cur \in Sessions
    BY <1>0, <2>1 DEF AnswerFits, AsksOK, Asked
  <2>3. /\ Result \in Replies
        /\ IF ShowsAgent(Result) THEN "agent" \in was[scan.cur] ELSE was[scan.cur] # {"agent"}
    BY <2>2 DEF Fits, PaneInfo
  <2>4. ShowsAgent(Result) => ~AskFailed
    BY <2>3, ControlAssumption DEF ShowsAgent, AskFailed
  <2>5. CASE s = scan.cur
    BY <1>0, <2>1, <2>3, <2>4, <2>5 DEF FoundFits
  <2>6. CASE s # scan.cur
    BY <1>0, <2>1, <2>6 DEF FoundFits
  <2> QED BY <2>5, <2>6
<1>5. CASE Stop \/ ReadEvent \/ \E t \in Sessions : SendRemoved(t) \/ SendAdded(t) \/ SendUpdated(t)
  <2>1. UNCHANGED <<was, scan>>
    BY <1>5 DEF Stop, ReadEvent, SendRemoved, SendAdded, SendUpdated, Send, registryVars
  <2> QED BY <1>0, <2>1 DEF FoundFits
<1>6. CASE Outside
  <2>1. scan' = scan
    BY <1>0, <1>6, OutsideFacts
  <2>2. UNCHANGED was \/ \E t \in Sessions, new \in Statuses : Becomes(t, new)
    BY <1>6 DEF Outside, Connection, TmuxGoes, PaneOutput, Attaches
  <2>3. IF s \in scan.todo THEN s \notin scan.found
        ELSE IF s \in scan.found THEN "agent" \in was[s] ELSE was[s] # {"agent"}
    BY <1>0, <2>1 DEF FoundFits
  <2> QED BY <2>1, <2>2, <2>3, FitsGrow
<1> QED BY <1>1, <1>2, <1>3, <1>4, <1>5, <1>6 DEF RegistryNext, RunScan, Outside

\* Where the connection and the scan stay as they are.
LEMMA FitsUnchanged ==
  ASSUME AnswerFits, Calm' => Calm, UNCHANGED <<scan, was, stdin, stdout, reader, responseCh>>,
         callers'[Watcher] = callers[Watcher]
  PROVE  AnswerFits'
<1>1. /\ Asked' = Asked /\ Answered' = Answered /\ Result' = Result
      /\ Waits(Watcher)' = Waits(Watcher)
  BY DEF Asked, Answered, Result, Waits
<1>2. Answers' = Answers /\ InReader' = InReader
  BY DEF Answers, FirstLine, InReader
<1>3. \A r : Fits(r)' = Fits(r)
  BY DEF Fits, ShowsAgent
<1>4. Fits(Asked)' = Fits(Asked)
  BY <1>1 DEF Fits, ShowsAgent
<1>5. ReplyIn(Fits(Asked)) => ReplyIn(Fits(Asked))'
  BY <1>2, <1>4 DEF ReplyIn
<1> QED BY <1>1, <1>4, <1>5 DEF AnswerFits

\* Where an answer on its way, or the scan's history, moves on.
LEMMA FitsMove ==
  ASSUME RegistryTypeOK, AttachOK, AsksOK, AnswerFits, Calm' => Calm,
         UNCHANGED <<callers, scan>>,
         UNCHANGED was \/ \E s \in Sessions, new \in Statuses : Becomes(s, new),
         stdin' \in {stdin, <<>>},
         Moves \/ \E r \in Replies : TmuxAnswers(r) /\ (Waits(Watcher) /\ Calm => r \in Fits(Asked))
  PROVE  AnswerFits'
<1> SUFFICES ASSUME Calm' PROVE /\ Waits(Watcher) => /\ stdin' # <<>> => stdin'[1].request = Asked'
                                                    /\ ReplyIn(Fits(Asked))'
                                /\ scan.pc \in {"listing", "asking"} /\ Answered => Result \in Fits(Asked)'
  BY DEF AnswerFits, Waits, Answered, Result
<1>0. Calm /\ Asked' = Asked /\ ControlTypeOK
  BY DEF Asked, RegistryTypeOK
<1>1. scan.pc \in {"listing", "asking"} => Asked \in Requests \ {ClientCommand}
  BY RegistryAssumption DEF AsksOK, Asked, ListSessions, PaneInfo, ClientCommand
<1>2. ASSUME scan.pc \in {"listing", "asking"} PROVE Fits(Asked) \subseteq Fits(Asked)'
  <2>1. PICK r : r = Asked
    OBVIOUS
  <2>2. r \in Requests \ {ClientCommand}
    BY <1>1, <1>2, <2>1
  <2>3. Fits(r) \subseteq Fits(r)'
    BY <2>2, FitsGrow
  <2>4. Fits(Asked)' = Fits(r)'
    BY <1>0, <2>1 DEF Fits
  <2>5. Fits(Asked) = Fits(r)
    BY <2>1
  <2> QED BY <2>3, <2>4, <2>5
<1>3. ASSUME Waits(Watcher)
      PROVE  ReplyIn(Fits(Asked))'
  <2>1. scan.pc \in {"listing", "asking"}
    BY <1>3 DEF AsksOK, NoCall, Waits
  <2>2. PICK S : S = Fits(Asked)
    OBVIOUS
  <2>3. ReplyIn(S)
    BY <1>0, <1>3, <2>2 DEF AnswerFits
  <2>4. ReplyIn(S)'
    <3>1. CASE Moves
      BY <1>0, <2>3, <3>1, RepliesMove
    <3>2. ASSUME NEW r \in Replies, TmuxAnswers(r), r \in S
          PROVE  ReplyIn(S)'
      BY <1>0, <2>3, <3>2, RepliesAnswered
    <3> QED BY <1>0, <1>3, <2>2, <3>1, <3>2
  <2>5. S \subseteq Fits(Asked)'
    BY <1>2, <2>1, <2>2
  <2> QED BY <2>4, <2>5 DEF ReplyIn
<1>4. Waits(Watcher) => (stdin' # <<>> => stdin'[1].request = Asked')
  BY <1>0 DEF AnswerFits
<1>5. scan.pc \in {"listing", "asking"} /\ Answered => Result \in Fits(Asked)'
  BY <1>0, <1>2 DEF AnswerFits
<1> QED BY <1>3, <1>4, <1>5

\* The scan's own Execute.
LEMMA ExecuteFits ==
  ASSUME ControlInv, AnswerFits, RegistryTypeOK, Execute(Watcher), Calm' => Calm, UNCHANGED <<scan, was>>
  PROVE  AnswerFits'
<1> SUFFICES ASSUME Calm'
             PROVE  /\ Waits(Watcher)' => /\ stdin' # <<>> => stdin'[1].request = Asked'
                                          /\ ReplyIn(Fits(Asked))'
                    /\ Answered' => (Result \in Fits(Asked))'
  BY DEF AnswerFits
<1>0. Watcher \in Callers /\ Calm /\ ControlTypeOK /\ LockOK /\ FlightOK
  BY RegistryAssumption DEF ControlInv, Calm
<1>1. CASE Acquire(Watcher)
  <2>1. ~closing
    BY <1>0, <1>1 DEF Calm, closing
  <2>2. callers'[Watcher].pc = "write"
    BY <1>0, <1>1, <2>1 DEF Acquire, GoesTo, ControlTypeOK
  <2> QED BY <2>2 DEF Waits, Answered
<1>2. CASE Write(Watcher)
  <2>1. closer \in {"open", "closing"} /\ tmux = "running"
    BY <1>0 DEF Calm
  <2>2. execMu = Watcher /\ \A d \in Callers : ~Waits(d)
    BY <1>0, <1>2 DEF Write, LockOK, Waits
  <2>3. NoneInFlight
    BY <1>0, <2>2 DEF FlightOK, Calm, done
  <2>4. /\ callers'[Watcher].pc = "wait" /\ callers'[Watcher].request = callers[Watcher].request
        /\ UNCHANGED <<stdout, reader, responseCh>>
    BY <1>0, <1>2, <2>1 DEF Write, GoesTo, ControlTypeOK
  <2>5. stdin'[1].request = callers[Watcher].request
    <3> DEFINE e == [cmd |-> issued + 1, request |-> callers[Watcher].request]
    <3>1. e.request = callers[Watcher].request
      OBVIOUS
    <3>2. stdin' = Append(<<>>, e)
      BY <1>2, <2>1, <2>3 DEF Write, NoneInFlight
    <3> HIDE DEF e
    <3>3. stdin'[1] = e
      BY <3>2
    <3> QED BY <3>1, <3>3
  <2>6. Answers' = {} /\ ~InReader' /\ responseCh' = <<>>
    BY <2>3, <2>4 DEF NoneInFlight, Answers, FirstLine, InReader
  <2>7. ReplyIn(Fits(Asked))'
    BY <2>6 DEF ReplyIn
  <2> QED BY <2>4, <2>5, <2>7 DEF Answered, Asked
<1>3. CASE Receive(Watcher)
  <2>1. /\ Waits(Watcher) /\ responseCh # <<>> /\ Head(responseCh) = responseCh[1]
    BY <1>0, <1>3, TailFacts DEF Receive, Waits, ControlTypeOK
  <2>2. responseCh[1].reply \in Fits(Asked)
    BY <1>0, <2>1 DEF AnswerFits, ReplyIn
  <2>3. /\ callers'[Watcher].pc = "idle" /\ callers'[Watcher].result = responseCh[1].reply
        /\ callers'[Watcher].request = callers[Watcher].request
    BY <1>0, <1>3, <2>1 DEF Receive, Return, ControlTypeOK
  <2>4. Fits(Asked)' = Fits(Asked)
    BY <2>3 DEF Fits, Asked
  <2>5. Result' = responseCh[1].reply
    BY <2>3 DEF Result
  <2>6. (Result \in Fits(Asked))'
    BY <2>2, <2>4, <2>5
  <2>7. ~Waits(Watcher)'
    BY <2>3 DEF Waits
  <2> QED BY <2>6, <2>7
<1>4. CASE TimeOut(Watcher)
  BY <1>4 DEF TimeOut, Calm
<1>5. CASE SeeDone(Watcher)
  BY <1>0, <1>5 DEF SeeDone, Calm, done
<1> QED BY <1>1, <1>2, <1>3, <1>4, <1>5 DEF Execute

\* While the scan waits, no other goroutine's Execute does anything.
LEMMA OthersWait ==
  ASSUME ControlInv, AnswerFits, NEW c \in Callers \ {Watcher}, Execute(c), Calm' => Calm, UNCHANGED <<scan, was>>
  PROVE  AnswerFits'
<1>0. Watcher \in Callers /\ None \notin Callers /\ ControlTypeOK /\ LockOK
  BY RegistryAssumption, ControlAssumption DEF ControlInv
<1>1. callers'[Watcher] = callers[Watcher]
  BY <1>0, ExecuteKeeps
<1>2. ~Waits(Watcher)
  <2> SUFFICES ASSUME Waits(Watcher) PROVE FALSE
    OBVIOUS
  <2>1. execMu = Watcher
    BY <1>0 DEF LockOK, Waits
  <2>2. callers[c].pc \notin {"write", "wait"}
    BY <1>0, <2>1 DEF LockOK
  <2> QED BY <1>0, <2>1, <2>2 DEF Execute, Acquire, Write, Receive, TimeOut, SeeDone
<1>3. /\ Asked' = Asked /\ Answered' = Answered /\ Result' = Result /\ ~Waits(Watcher)'
  BY <1>1, <1>2 DEF Asked, Answered, Result, Waits
<1>4. Fits(Asked)' = Fits(Asked)
  BY <1>3 DEF Fits
<1> QED BY <1>3, <1>4 DEF AnswerFits

LEMMA FitsStep ==
  ASSUME ControlInv, RegistryTypeOK, AsksOK, WasOK, AnswerFits, RegistryNext, Calm' => Calm
  PROVE  AnswerFits'
<1>0. ControlTypeOK /\ AttachOK /\ Watcher \in Callers /\ scan \in Scan
  BY RegistryAssumption DEF ControlInv, RegistryTypeOK
<1>1. CASE AskList \/ \E s \in Sessions : AskPane(s)
  <2>1. callers'[Watcher].pc = "lock"
    <3>1. PICK r : Call(Watcher, r)
      BY <1>1 DEF AskList, AskPane, Ask
    <3>2. callers \in [Callers -> Caller]
      BY <1>0 DEF ControlTypeOK
    <3> QED BY <1>0, <3>1, <3>2 DEF Call
  <2> QED BY <2>1 DEF AnswerFits, Waits, Answered
<1>2. ASSUME callers'[Watcher] = NoCall, scan'.pc \notin {"listing", "asking"}
      PROVE  AnswerFits'
  <2>1. ~Waits(Watcher)'
    BY <1>2 DEF Waits, NoCall
  <2> QED BY <1>2, <2>1 DEF AnswerFits
<1>3. CASE ListFails \/ TakeList \/ TakePane
  <2>1. scan'.pc \notin {"listing", "asking"} /\ callers'[Watcher] = NoCall
    BY <1>0, <1>3 DEF ListFails, TakeList, TakePane, TakeResult, ControlTypeOK, Scan
  <2> QED BY <1>2, <2>1
<1>4. CASE Diff \/ ScanDone \/ WatchLoop \/ LoopEnds
  <2>1. scan.pc \notin {"listing", "asking"} /\ scan'.pc \notin {"listing", "asking"}
    BY <1>0, <1>4 DEF Diff, ScanDone, WatchLoop, LoopEnds, Scan
  <2>2. UNCHANGED callers
    BY <1>4 DEF Diff, ScanDone, WatchLoop, LoopEnds, TakeNotification, controlVars
  <2> QED BY <1>2, <2>1, <2>2 DEF AsksOK
<1>5. CASE Stop \/ ReadEvent \/ \E s \in Sessions : SendRemoved(s) \/ SendAdded(s) \/ SendUpdated(s)
  <2>1. UNCHANGED <<controlVars, scan, was>>
    BY <1>5 DEF Stop, ReadEvent, SendRemoved, SendAdded, SendUpdated, Send, registryVars
  <2> QED BY <2>1, FitsUnchanged DEF controlVars
<1>6. CASE Connection
  <2>0. UNCHANGED <<scan, was>>
    BY <1>6 DEF Connection, registryVars
  <2>1. ASSUME NEW c \in Callers, Execute(c)
        PROVE  AnswerFits'
    BY <2>0, <2>1, ExecuteFits, OthersWait
  <2>2. ASSUME NEW c \in Callers, ClientCalls(c)
        PROVE  AnswerFits'
    BY <1>0, <2>0, <2>2, FitsUnchanged DEF ClientCalls, Call, ControlTypeOK
  <2>3. CASE ReadLoop
    <3>1. UNCHANGED <<callers, stdin>>
      BY <2>3 DEF ReadLoop, ReadLine, SendResponse, SendNotification, ReadEnds
    <3> QED BY <1>0, <2>0, <2>3, <3>1, FitsMove DEF Moves
  <2>4. CASE Close
    BY <2>4 DEF Close, CloseBegins, CloseStdin, CloseDone, AnswerFits, Calm
  <2>5. CASE stdin # <<>> /\ TmuxAnswers(TmuxReply(Head(stdin).request))
    <3>1. Head(stdin) \in Command /\ Head(stdin) = stdin[1] /\ stdin' = Tail(stdin) /\ UNCHANGED callers
      BY <1>0, <2>5, TailFacts DEF ControlTypeOK, TmuxAnswers
    <3>2. TmuxReply(Head(stdin).request) \in Replies
      BY <3>1, ReplyIsKnown DEF Command
    <3>3. Waits(Watcher) /\ Calm => TmuxReply(Head(stdin).request) \in Fits(Asked)
      <4> SUFFICES ASSUME Waits(Watcher), Calm PROVE TmuxReply(Head(stdin).request) \in Fits(Asked)
        OBVIOUS
      <4>1. Head(stdin).request = Asked
        BY <2>5, <3>1 DEF AnswerFits
      <4>2. scan.pc \in {"listing", "asking"}
        BY DEF AsksOK, NoCall, Waits
      <4> QED BY <4>1, <4>2, ReplyFits
    <3>4. CASE ~Calm
      BY <3>4 DEF AnswerFits
    <3>5. CASE Calm
      <4>1. Len(stdin) <= 1
        BY <3>5 DEF ControlInv, FlightOK, OneInFlight, Calm
      <4>2. stdin' = <<>>
        BY <1>0, <2>5, <3>1, <4>1 DEF ControlTypeOK
      <4> QED BY <1>0, <2>0, <2>5, <3>1, <3>2, <3>3, <4>2, FitsMove
    <3> QED BY <3>4, <3>5
  <2> QED BY <1>6, <2>1, <2>2, <2>3, <2>4, <2>5 DEF Connection
<1>7. CASE TmuxGoes
  BY <1>7 DEF TmuxGoes, TmuxExits, AnswerFits, Calm
<1>8. CASE PaneOutput \/ \E s \in Sessions, new \in Statuses : Becomes(s, new)
  <2>1. /\ UNCHANGED <<callers, scan, stdin>> /\ \E t \in NoteTypes : TmuxNotifies(t)
        /\ UNCHANGED was \/ \E s \in Sessions, new \in Statuses : Becomes(s, new)
    BY <1>8 DEF PaneOutput, Becomes, TmuxNotifies, registryVars, NoteTypes
  <2> QED BY <1>0, <2>1, FitsMove DEF Moves
<1>9. CASE \E s \in Sessions : Attaches(s)
  <2>1. UNCHANGED <<controlVars, scan, was>>
    BY <1>9 DEF Attaches, registryVars
  <2> QED BY <2>1, FitsUnchanged DEF controlVars
<1> QED BY <1>1, <1>3, <1>4, <1>5, <1>6, <1>7, <1>8, <1>9 DEF RegistryNext, RunScan

----------------------------------------------------------------------------
(* The invariant, and what follows. *)

RegistryInv ==
  /\ ControlInv /\ RegistryTypeOK
  /\ ReplyIn(Replies) /\ ResultsOK /\ AsksOK
  /\ EventsInv
  /\ WasOK /\ AnswerFits /\ FoundFits

LEMMA RegistryInvInit ==
  ASSUME RegistryInit
  PROVE  RegistryInv
<1>0. Init /\ Watcher \in Callers
  BY RegistryAssumption DEF RegistryInit
<1>1. ControlInv
  BY <1>0, ControlInvInit
<1>2. ControlTypeOK
  BY <1>1 DEF ControlInv
<1>3. /\ scan = [pc |-> "list", started |-> FALSE, todo |-> {}, cur |-> None,
                 found |-> {}, attached |-> {}]
      /\ pending = Nothing /\ regEvents = <<>> /\ attached = {}
      /\ agents = [s \in Sessions |-> "none"] /\ view = [s \in Sessions |-> "none"]
      /\ was = [s \in Sessions |-> {}]
      /\ status = [s \in Sessions |-> IF s \in InitialAgents THEN "agent" ELSE "none"]
  BY DEF RegistryInit
<1>4. regEvents \in Seq(Event) /\ Len(regEvents) = 0 /\ DOMAIN regEvents = {}
  BY <1>3
<1>5. RegistryTypeOK
  <2>1. scan \in Scan /\ pending \in Pending
    BY <1>3 DEF Scan, Pending, Nothing
  <2> QED BY <1>2, <1>3, <1>4, <2>1, RegistryAssumption
       DEF RegistryTypeOK, Statuses, AgentStates, Existing
<1>6. callers[Watcher] = NoCall /\ \A c \in Callers : callers[c] = NoCall
  BY <1>0 DEF Init
<1>7. ReplyIn(Replies)
  <2>1. stdout = <<AttachResponse>> /\ reader.seen = 0 /\ reader.pc = "read" /\ responseCh = <<>>
    BY <1>0 DEF Init
  <2>2. Answers = {} /\ ~InReader
    BY <2>1 DEF Answers, FirstLine, InReader
  <2> QED BY <2>1, <2>2 DEF ReplyIn
<1>8. ResultsOK /\ AsksOK
  BY <1>3, <1>6 DEF ResultsOK, AsksOK, NoCall
<1>9. EventsInv
  BY <1>3, <1>4 DEF EventsInv, EventsTellTheMap, Knows, LeftToTell, Nothing
<1>10. WasOK /\ FoundFits
  BY <1>3 DEF WasOK, FoundFits
<1>11. AnswerFits
  BY <1>3, <1>6 DEF AnswerFits, Waits, NoCall
<1> QED BY <1>1, <1>5, <1>7, <1>8, <1>9, <1>10, <1>11 DEF RegistryInv

LEMMA RegistryInvStep ==
  ASSUME RegistryInv, RegistryNext
  PROVE  RegistryInv'
<1>0. ControlInv /\ ControlTypeOK /\ RegistryTypeOK /\ AttachOK
  BY DEF RegistryInv, ControlInv
<1>1. [Next]_controlVars
  BY <1>0, StepMaps
<1>2. ControlInv'
  BY <1>0, <1>1, ControlInvStep, ControlInvStutters DEF RegistryInv
<1>3. RegistryTypeOK'
  <2>1. OwnTypes'
    BY <1>0, OwnTypesStep DEF RegistryInv
  <2> QED BY <1>2, <2>1 DEF OwnTypes, RegistryTypeOK, ControlInv
<1>4. ReplyIn(Replies)' /\ ResultsOK'
  <2>1. CASE UNCHANGED controlVars
    <3>1. Answers' = Answers /\ InReader' = InReader
      BY <2>1 DEF Answers, FirstLine, InReader, controlVars
    <3> QED BY <2>1, <3>1 DEF RegistryInv, ReplyIn, ResultsOK, controlVars
  <2>2. CASE Next
    <3>1. Moves \/ \E r \in Replies : TmuxAnswers(r)
      BY <2>2 DEF Next, Moves
    <3> QED BY <1>0, <2>2, <3>1, RepliesMove, RepliesAnswered, ResultsStep DEF RegistryInv
  <2> QED BY <1>1, <2>1, <2>2
<1>5. AsksOK'
  BY <1>0, AsksStep DEF RegistryInv
<1>6. EventsInv'
  BY <1>0, EventsStep DEF RegistryInv
<1>7. WasOK'
  BY <1>0, WasStep DEF RegistryInv
<1>8. Calm' => Calm
  BY <1>1, CalmBefore
<1>9. AnswerFits'
  BY <1>0, <1>8, FitsStep DEF RegistryInv
<1>10. FoundFits'
  BY <1>0, <1>8, FoundStep DEF RegistryInv
<1> QED BY <1>2, <1>3, <1>4, <1>5, <1>6, <1>7, <1>9, <1>10 DEF RegistryInv

\* What the next three theorems rest on.
THEOREM RegistryInvariant == RegistrySpec => []RegistryInv
<1>1. RegistryInit => RegistryInv
  BY RegistryInvInit
<1>2. RegistryInv /\ [RegistryNext]_vars => RegistryInv'
  <2>1. ASSUME RegistryInv, UNCHANGED vars
        PROVE  RegistryInv'
    <3>1. UNCHANGED <<controlVars, tmuxVars, scan, agents, pending, regEvents, view, was>>
      BY <2>1 DEF vars, registryVars
    <3>2. ControlInv'
      BY <2>1, <3>1, ControlInvStutters DEF RegistryInv, controlVars
    <3>3. RegistryTypeOK'
      BY <2>1, <3>1, <3>2 DEF RegistryInv, RegistryTypeOK, ControlInv, Existing, tmuxVars
    <3>4. Answers' = Answers /\ InReader' = InReader
      BY <3>1 DEF Answers, FirstLine, InReader, controlVars
    <3>5. ReplyIn(Replies)' /\ ResultsOK' /\ AsksOK'
      BY <2>1, <3>1, <3>4 DEF RegistryInv, ReplyIn, ResultsOK, AsksOK, controlVars
    <3>6. EventsInv'
      BY <2>1, <3>1 DEF RegistryInv, EventsInv, EventsTellTheMap, Knows, LeftToTell
    <3>7. WasOK' /\ (Calm' => Calm)
      BY <2>1, <3>1 DEF RegistryInv, WasOK, Calm, controlVars, tmuxVars
    <3>8. AnswerFits'
      BY <2>1, <3>1, <3>7, FitsUnchanged DEF RegistryInv, controlVars
    <3>9. FoundFits'
      BY <2>1, <3>1, <3>7 DEF RegistryInv, FoundFits
    <3> QED BY <3>2, <3>3, <3>5, <3>6, <3>7, <3>8, <3>9 DEF RegistryInv
  <2> QED BY <2>1, RegistryInvStep
<1> QED BY <1>1, <1>2, PTL DEF RegistrySpec

\* Types of the registry and its connection; neither channel overflows.
THEOREM RegistryTypes == RegistrySpec => []RegistryTypeOK
<1>1. RegistryInv => RegistryTypeOK
  BY DEF RegistryInv
<1> QED BY <1>1, RegistryInvariant, PTL

\* A reader that applies the events in order ends up with the registry's map,
\* however many sessions there are and whatever goes wrong with the connection:
\* scan's Diff and the loop that sends its events without r.mu.
THEOREM EventsTell == RegistrySpec => []EventsTellTheMap
<1>1. RegistryInv => EventsTellTheMap
  BY DEF RegistryInv, EventsInv
<1> QED BY <1>1, RegistryInvariant, PTL

\* A scan finds nothing that was not there, and misses nothing that was there
\* all the while, though tmux changes and other goroutines call between its
\* queries, as long as nothing has timed out or ended.
THEOREM ScanJustified == RegistrySpec => []ScanIsJustified
<1>1. ASSUME RegistryInv PROVE ScanIsJustified
  BY <1>1 DEF RegistryInv, FoundFits, Calm, ScanIsJustified
<1> QED BY <1>1, RegistryInvariant, PTL
=============================================================================
