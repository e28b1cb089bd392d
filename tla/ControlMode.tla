----------------------------- MODULE ControlMode -----------------------------
(***************************************************************************)
(* internal/tmux/control.go: one tmux control-mode connection, shared by   *)
(* every goroutine that talks to tmux.                                     *)
(*                                                                         *)
(* Execute writes one line to tmux and waits for the next response that    *)
(* readLoop hands over; execMu lets one goroutine at a time do so, and     *)
(* nothing but that order says which response belongs to which command.    *)
(* readLoop reads tmux's output (responses and notifications, in tmux's    *)
(* order) and blocks when the channel it must send to is full.             *)
(*                                                                         *)
(* tmux is external: it answers the lines of its standard input in order.  *)
(* A response is one item of its output (no notification falls between a   *)
(* %begin and its %end), and the response to the attach, command 0, comes  *)
(* before anything else.  Commands are numbered as they are written; what  *)
(* one asks and how tmux answers are left to the parameters.  The notifi-  *)
(* cations readLoop ignores (%window-add, %layout-change, ...) are left    *)
(* out, the two pipes never fill, and Close is called once.                *)
(***************************************************************************)
EXTENDS Naturals, Sequences

CONSTANTS
  Callers,      \* goroutines that call Execute
  Requests,     \* what a command can ask
  Replies,      \* what tmux can answer
  Failed,       \* the result of an Execute that returns an error of its own
  None,
  NotifCap,     \* capacity of cm.notifications (100 in the code)
  SlowTmux      \* whether tmux may take longer than executeTimeout to answer

ASSUME ControlAssumption ==
  /\ None \notin Nat \cup Callers \cup Requests \cup Replies
  /\ Failed \notin Replies \cup {None}
  /\ NotifCap \in Nat \ {0}
  /\ SlowTmux \in BOOLEAN

VARIABLES
  callers,       \* per goroutine: the state of its Execute
  execMu,        \* the goroutine that holds cm.execMu, or None
  issued,        \* commands written so far
  stdin,         \* written and not yet answered by tmux
  stdout,        \* tmux's output, not yet read
  tmux,          \* whether the tmux client process runs
  reader,        \* the readLoop goroutine
  responseCh, notifications,  \* the two channels
  closer,        \* how far Close got
  timedOut       \* history: some Execute has timed out

controlVars == <<callers, execMu, issued, stdin, stdout, tmux, reader, responseCh,
                 notifications, closer, timedOut>>

----------------------------------------------------------------------------
\* cmd: the number of the command last written; answered: the number of the
\* command whose response it returned, None if it returned an error.
Calling == [pc : {"lock", "write", "wait"}, request : Requests, cmd : Nat,
            answered : {None}, result : {None}]
Returned == [pc : {"idle"}, request : Requests \cup {None}, cmd : Nat,
             answered : Nat \cup {None}, result : Replies \cup {Failed, None}]
Caller == Calling \cup Returned

NoCall == [pc |-> "idle", request |-> None, cmd |-> 0, answered |-> None, result |-> None]

Command == [cmd : Nat, request : Requests]

\* The notifications that make the registry scan, and the others.
NoteTypes == {"changed", "output"}

Response == [type : {"response"}, cmd : Nat, reply : Replies \cup {None}]
Notification == [type : NoteTypes, cmd : {0}, reply : {None}]
Line == Response \cup Notification

Note(t) == [type |-> t, cmd |-> 0, reply |-> None]
AttachResponse == [type |-> "response", cmd |-> 0, reply |-> None]

\* seen counts complete responses: cmdsSeen in the code, up to 1.
Reader == [pc : {"read", "send", "ended"}, line : Line, seen : {0, 1}]

closing == closer # "open"
done == closer = "done"

----------------------------------------------------------------------------
Init ==
  /\ callers = [c \in Callers |-> NoCall]
  /\ execMu = None
  /\ issued = 0
  /\ stdin = <<>>
  /\ stdout = <<AttachResponse>>
  /\ tmux = "running"
  /\ reader = [pc |-> "read", line |-> AttachResponse, seen |-> 0]
  /\ responseCh = <<>> /\ notifications = <<>>
  /\ closer = "open"
  /\ timedOut = FALSE

----------------------------------------------------------------------------
(* Execute. *)

Call(c, r) ==
  /\ callers[c].pc = "idle"
  /\ callers' = [callers EXCEPT ![c] = [pc |-> "lock", request |-> r, cmd |-> 0,
                                        answered |-> None, result |-> None]]
  /\ UNCHANGED <<execMu, issued, stdin, stdout, tmux, reader, responseCh,
                 notifications, closer, timedOut>>

\* Execute goes on to pc; cmd numbers the command it has written.
GoesTo(c, pc, cmd) ==
  callers' = [callers EXCEPT ![c] = [pc |-> pc, request |-> callers[c].request, cmd |-> cmd,
                                     answered |-> None, result |-> None]]

\* Execute returns: the deferred Unlock, and what the caller is given.
Return(c, answered, result) ==
  /\ callers' = [callers EXCEPT ![c] = [pc |-> "idle", request |-> callers[c].request,
                   cmd |-> callers[c].cmd, answered |-> answered, result |-> result]]
  /\ execMu' = None

\* Lock, give up if Close has begun, throw away a response nobody took.
Acquire(c) ==
  /\ callers[c].pc = "lock"
  /\ execMu = None
  /\ IF closing
       THEN /\ Return(c, None, Failed)
            /\ UNCHANGED responseCh
       ELSE /\ GoesTo(c, "write", 0)
            /\ execMu' = c
            /\ responseCh' = <<>>
  /\ UNCHANGED <<issued, stdin, stdout, tmux, reader, notifications, closer, timedOut>>

\* Mutant of Write: the early return on an error leaves execMu locked.
WriteKeepsLock(c) ==
  /\ callers[c].pc = "write"
  /\ IF closer \in {"open", "closing"} /\ tmux = "running"
       THEN /\ issued' = issued + 1
            /\ stdin' = Append(stdin, [cmd |-> issued + 1, request |-> callers[c].request])
            /\ GoesTo(c, "wait", issued + 1)
       ELSE /\ callers' = [callers EXCEPT ![c] = [@ EXCEPT !.pc = "idle", !.result = Failed]]
            /\ UNCHANGED <<issued, stdin>>
  /\ UNCHANGED <<execMu, stdout, tmux, reader, responseCh, notifications, closer, timedOut>>

\* The write fails once Close has closed the pipe or tmux is gone.
Write(c) ==
  /\ callers[c].pc = "write"
  /\ IF closer \in {"open", "closing"} /\ tmux = "running"
       THEN /\ issued' = issued + 1
            /\ stdin' = Append(stdin, [cmd |-> issued + 1, request |-> callers[c].request])
            /\ GoesTo(c, "wait", issued + 1)
            /\ UNCHANGED execMu
       ELSE /\ Return(c, None, Failed)
            /\ UNCHANGED <<issued, stdin>>
  /\ UNCHANGED <<stdout, tmux, reader, responseCh, notifications, closer, timedOut>>

Receive(c) ==
  /\ callers[c].pc = "wait"
  /\ responseCh # <<>>
  /\ Return(c, Head(responseCh).cmd, Head(responseCh).reply)
  /\ responseCh' = Tail(responseCh)
  /\ UNCHANGED <<issued, stdin, stdout, tmux, reader, notifications, closer, timedOut>>

\* No response can arrive: readLoop waits for the reader of notifications or has
\* ended, or tmux will not answer any more.
Stalled ==
  \/ reader.pc = "send" /\ reader.line.type # "response" /\ Len(notifications) = NotifCap
  \/ reader.pc = "ended"
  \/ tmux = "gone"

TimeOut(c) ==
  /\ callers[c].pc = "wait"
  /\ SlowTmux \/ Stalled
  /\ Return(c, None, Failed)
  /\ timedOut' = TRUE
  /\ UNCHANGED <<issued, stdin, stdout, tmux, reader, responseCh, notifications, closer>>

\* The goroutine has used what its Execute returned.
TakeResult(c) ==
  /\ callers[c].pc = "idle"
  /\ callers' = [callers EXCEPT ![c] = NoCall]
  /\ UNCHANGED <<execMu, issued, stdin, stdout, tmux, reader, responseCh, notifications,
                 closer, timedOut>>

SeeDone(c) ==
  /\ callers[c].pc = "wait"
  /\ done
  /\ Return(c, None, Failed)
  /\ UNCHANGED <<issued, stdin, stdout, tmux, reader, responseCh, notifications, closer,
                 timedOut>>

Execute(c) == Acquire(c) \/ Write(c) \/ Receive(c) \/ TimeOut(c) \/ SeeDone(c)

----------------------------------------------------------------------------
(* readLoop. *)

\* Mutant of Skipped: the attach's response is taken for a command's.
NoneSkipped(line) == FALSE

\* The first complete response is the attach's: it is skipped.
Skipped(line) == line.type = "response" /\ reader.seen = 0

ReadLine ==
  /\ reader.pc = "read"
  /\ stdout # <<>>
  /\ LET line == Head(stdout)
     IN  reader' = [pc |-> IF Skipped(line) THEN "read" ELSE "send",
                    line |-> IF Skipped(line) THEN reader.line ELSE line,
                    seen |-> IF line.type = "response" THEN 1 ELSE reader.seen]
  /\ stdout' = Tail(stdout)
  /\ UNCHANGED <<callers, execMu, issued, stdin, tmux, responseCh, notifications, closer,
                 timedOut>>

SendResponse ==
  /\ reader.pc = "send" /\ reader.line.type = "response"
  /\ responseCh = <<>>
  /\ responseCh' = <<reader.line>>
  /\ reader' = [reader EXCEPT !.pc = "read", !.line = AttachResponse]
  /\ UNCHANGED <<callers, execMu, issued, stdin, stdout, tmux, notifications, closer,
                 timedOut>>

\* Mutant of SendNotification: a notification is dropped when the channel is full.
SendNotificationOrDrop ==
  /\ reader.pc = "send" /\ reader.line.type # "response"
  /\ notifications' = IF Len(notifications) < NotifCap
                        THEN Append(notifications, reader.line) ELSE notifications
  /\ reader' = [reader EXCEPT !.pc = "read", !.line = AttachResponse]
  /\ UNCHANGED <<callers, execMu, issued, stdin, stdout, tmux, responseCh, closer,
                 timedOut>>

SendNotification ==
  /\ reader.pc = "send" /\ reader.line.type # "response"
  /\ Len(notifications) < NotifCap
  /\ notifications' = Append(notifications, reader.line)
  /\ reader' = [reader EXCEPT !.pc = "read", !.line = AttachResponse]
  /\ UNCHANGED <<callers, execMu, issued, stdin, stdout, tmux, responseCh, closer,
                 timedOut>>

\* A line longer than the scanner's 1 MB: in the response to a command.  (A
\* notification is short, tmux splits what a pane puts out.)
MayBeTooLong(line) == line.cmd > 0

\* End of file, when tmux is gone and everything it wrote has been read; or the
\* scanner's error, and from then on nobody reads what tmux writes.
ReadEnds ==
  /\ reader.pc = "read"
  /\ \/ stdout = <<>> /\ tmux = "gone"
     \/ stdout # <<>> /\ MayBeTooLong(Head(stdout))
  /\ reader' = [reader EXCEPT !.pc = "ended"]
  /\ UNCHANGED <<callers, execMu, issued, stdin, stdout, tmux, responseCh, notifications,
                 closer, timedOut>>

ReadLoop == ReadLine \/ SendResponse \/ SendNotification \/ ReadEnds

----------------------------------------------------------------------------
(* Close, and the reader of Notifications(). *)

CloseBegins ==
  /\ closer = "open"
  /\ closer' = "closing"
  /\ UNCHANGED <<callers, execMu, issued, stdin, stdout, tmux, reader, responseCh,
                 notifications, timedOut>>

CloseStdin ==
  /\ closer = "closing"
  /\ closer' = "stdinClosed"
  /\ UNCHANGED <<callers, execMu, issued, stdin, stdout, tmux, reader, responseCh,
                 notifications, timedOut>>

\* Wait returns: the process is gone and the read end of its output is closed.
CloseDone ==
  /\ closer = "stdinClosed"
  /\ tmux = "gone"
  /\ closer' = "done"
  /\ stdout' = <<>>
  /\ UNCHANGED <<callers, execMu, issued, stdin, tmux, reader, responseCh, notifications,
                 timedOut>>

Close == CloseBegins \/ CloseStdin \/ CloseDone

TakeNotification ==
  /\ notifications # <<>>
  /\ notifications' = Tail(notifications)
  /\ UNCHANGED <<callers, execMu, issued, stdin, stdout, tmux, reader, responseCh, closer,
                 timedOut>>

----------------------------------------------------------------------------
(* tmux. *)

TmuxAnswers(reply) ==
  /\ tmux = "running"
  /\ stdin # <<>>
  /\ stdin' = Tail(stdin)
  /\ stdout' = Append(stdout, [type |-> "response", cmd |-> Head(stdin).cmd,
                               reply |-> reply])
  /\ UNCHANGED <<callers, execMu, issued, tmux, reader, responseCh, notifications, closer,
                 timedOut>>

TmuxNotifies(t) ==
  /\ tmux = "running"
  /\ stdout' = Append(stdout, Note(t))
  /\ UNCHANGED <<callers, execMu, issued, stdin, tmux, reader, responseCh, notifications,
                 closer, timedOut>>

\* The client ends when its input does; the server it talks to may go at any time.
TmuxExits ==
  /\ tmux = "running"
  /\ tmux' = "gone"
  /\ stdin' = <<>>
  /\ UNCHANGED <<callers, execMu, issued, stdout, reader, responseCh, notifications,
                 closer, timedOut>>

----------------------------------------------------------------------------
Next ==
  \/ \E c \in Callers : (\E r \in Requests : Call(c, r)) \/ Execute(c) \/ TakeResult(c)
  \/ ReadLoop \/ Close \/ TakeNotification
  \/ (\E r \in Replies : TmuxAnswers(r)) \/ (\E t \in NoteTypes : TmuxNotifies(t))
  \/ TmuxExits

Spec == Init /\ [][Next]_controlVars

----------------------------------------------------------------------------
(* Properties. *)

ControlTypeOK ==
  /\ callers \in [Callers -> Caller]
  /\ execMu \in Callers \cup {None}
  /\ issued \in Nat
  /\ stdin \in Seq(Command)
  /\ stdout \in Seq(Line)
  /\ tmux \in {"running", "gone"}
  /\ reader \in Reader
  /\ responseCh \in Seq(Response) /\ Len(responseCh) <= 1
  /\ notifications \in Seq(Notification) /\ Len(notifications) <= NotifCap
  /\ closer \in {"open", "closing", "stdinClosed", "done"}
  /\ timedOut \in BOOLEAN

\* An Execute that returns a response returns the one tmux gave to its own
\* command, as long as no Execute has timed out: not the attach's, not one of
\* a goroutine that called before, and nothing after Close.
AnswersMatchUntilTimeout ==
  ~timedOut => \A c \in Callers : callers[c].answered \in {None, callers[c].cmd}

\* control.go:153-155 "Since we serialize commands, we simply match each
\* %begin/%end pair to the single pending Execute() call": refuted once an
\* Execute has timed out, for its late response is the next one's.
AnswersMatch ==
  \A c \in Callers : callers[c].answered \in {None, callers[c].cmd}
=============================================================================
