------------------------------ MODULE AgentPane ------------------------------
(***************************************************************************)
(* internal/agentio and internal/tmux/commands.go: everything that is sent *)
(* into one agent's pane.                                                  *)
(*                                                                         *)
(* Processes: one goroutine per send-prompt and per file upload, which     *)
(* holds the agent's lock of its service (the adapter and the converter    *)
(* each have a Prompter) from its first command to its answer; the read    *)
(* pump of each adapter client ("viewer"), which types keys, resizes the   *)
(* window and, for subscribe-output, runs ForceRedraw, all without a lock. *)
(* One Execute is one step: commands of one connection are carried out in  *)
(* the order they are written, a late one before any that follows it.      *)
(*                                                                         *)
(* The pane is external: text goes into its input box, Enter submits what  *)
(* is in the box, Escape leaves the box alone; a backspace deletes the end *)
(* of it, and a control byte may clear it.                                 *)
(* resize-pane does nothing in a window of one pane (commands.go:231).     *)
(* tmux takes each line of its input for a command, so that a prompt of    *)
(* several lines is none of its commands, and its answers no longer match. *)
(* What is pasted, saved or copied to a clipboard is left out, and so is    *)
(* the upload of an empty file, which pastes nothing.                      *)
(***************************************************************************)
EXTENDS Integers, Sequences, FiniteSets

CONSTANTS
  Services,      \* each with a connection to tmux and locks of its own
  Prompts,       \* send-prompt requests
  Uploads,       \* file uploads
  ServiceOf,     \* the service of each request
  Viewers,       \* clients of Adapter
  Adapter,       \* the service that viewers use
  Chunks,        \* commands that one keyboard input takes (128 bytes each)
  Heights,       \* window heights that viewers ask for
  None,
  Workloads      \* bound: which jobs there are, how many requests of viewers, and
                 \* how many commands may time out or be cut off by Close

Jobs == Prompts \cup Uploads

Workload == [jobs : SUBSET Jobs, inputs : Nat, faults : Nat]

ASSUME PaneAssumption ==
  /\ Prompts \cap Uploads = {} /\ Jobs \cap Viewers = {}
  /\ ServiceOf \in [Jobs -> Services] /\ Adapter \in Services
  /\ None \notin Jobs
  /\ Chunks \in Nat \ {0}
  /\ Heights \subseteq Nat \ {0} /\ Heights # {}
  /\ Workloads \subseteq Workload

VARIABLES
  alive,      \* the agent's session exists
  conn,       \* per service: whether the answers of its connection can be relied on
  locks,      \* prompter.locks[agent] of each service: who holds it
  jobs,       \* the goroutine of each request
  box,        \* the pane: what has been typed into its input box
  entered,    \* the pane: what has been submitted
  erased,     \* history: the requests of whose text a viewer's keys have deleted some
  height,     \* the window
  viewers,    \* what each viewer's read pump is doing
  work,       \* the workload: what is still to be asked for
  faults,     \* commands that timed out or were cut off
  wanted,     \* history: the height last asked for
  disturbed   \* history: a redraw met another, a resize or a fault since

connVars == <<conn, faults>>
paneVars == <<box, entered, erased>>
windowVars == <<height, wanted, disturbed>>
viewerVars == <<viewers, windowVars>>
vars == <<alive, connVars, locks, jobs, paneVars, viewerVars, work>>

----------------------------------------------------------------------------
\* exact: the connection had never failed when the request was answered.
Job == [pc : {"idle", "lock", "text", "escape", "enter", "wake", "woken",
              "save", "info", "load", "paste", "answered"},
        tries : 0..2, outcome : {"none", "ok", "failed"}, exact : BOOLEAN]

\* left: chunks still to be typed; height: the one ForceRedraw has read.
Viewer == [pc : {"idle", "type", "shrink", "restore"}, left : 0..Chunks, height : Nat]

AtRest == [pc |-> "idle", left |-> 0, height |-> 0]

InRedraw == {v \in Viewers : viewers[v].pc \in {"shrink", "restore"}}

Init ==
  /\ alive = TRUE
  /\ conn = [s \in Services |-> "exact"]
  /\ locks = [s \in Services |-> None]
  /\ jobs = [j \in Jobs |-> [pc |-> "idle", tries |-> 0, outcome |-> "none", exact |-> FALSE]]
  /\ box = <<>> /\ entered = <<>> /\ erased = {}
  /\ height \in Heights
  /\ viewers = [v \in Viewers |-> AtRest]
  /\ work \in Workloads /\ faults = 0
  /\ wanted = height
  /\ disturbed = FALSE

----------------------------------------------------------------------------
(* Execute, as ControlMode has it: tmux carries out a command (done) if the *)
(* session exists, and says so (ok).  A command that times out, or that     *)
(* Close cuts off, is carried out as well; after a timeout the answers are  *)
(* those of other commands, and after Close nothing is written.             *)

Does(s) == alive /\ conn[s] # "closed"

Faulty(s) ==
  /\ conn[s] # "closed" /\ faults < work.faults
  /\ faults' = faults + 1
  /\ \E c \in {"late", "closed"} : conn' = [conn EXCEPT ![s] = c]

\* An Execute of service s with the result ok, of a command that tmux carries out
\* if possible.
ExecutesIf(possible, s, ok) ==
  \/ /\ conn[s] # "late" => (ok <=> possible)
     /\ UNCHANGED connVars
  \/ ~ok /\ Faulty(s)

Executes(s, ok) == ExecutesIf(Does(s), s, ok)

\* Adapter.Stop: Close of the connection.
CloseConnection(s) ==
  /\ conn[s] # "closed" /\ faults < work.faults
  /\ conn' = [conn EXCEPT ![s] = "closed"]
  /\ faults' = faults + 1
  /\ UNCHANGED <<alive, locks, jobs, paneVars, viewerVars, work>>

SessionEnds ==
  /\ alive
  /\ alive' = FALSE
  /\ UNCHANGED <<connVars, locks, jobs, paneVars, viewerVars, work>>

\* send-keys -l and paste-buffer.
Typed(s, item) == IF Does(s) THEN box' = Append(box, item) ELSE UNCHANGED box

\* send-keys Enter, and a carriage return among the bytes of a keyboard.
Submitted(s) ==
  /\ IF Does(s) /\ box # <<>>
     THEN entered' = Append(entered, box) /\ box' = <<>>
     ELSE UNCHANGED <<box, entered>>
  /\ UNCHANGED erased

\* Ctrl-U, Ctrl-C and the like, which go to tmux as bytes.
Cleared(s) ==
  /\ IF Does(s)
     THEN box' = <<>> /\ erased' = erased \cup {j \in Jobs : \E k \in DOMAIN box : box[k] = j}
     ELSE UNCHANGED <<box, erased>>
  /\ UNCHANGED entered

\* BSpace takes the end of the last text, or all that was left of it.
Shortened(s) ==
  /\ IF Does(s) /\ box # <<>>
     THEN /\ box' \in {box, SubSeq(box, 1, Len(box) - 1)}
          /\ erased' = erased \cup ({box[Len(box)]} \cap Jobs)
     ELSE UNCHANGED <<box, erased>>
  /\ UNCHANGED entered

----------------------------------------------------------------------------
(* send-prompt and file upload. *)

GoesTo(j, pc) == jobs' = [jobs EXCEPT ![j] = [@ EXCEPT !.pc = pc]]

\* The answer to the client, at the end of the goroutine, and lock.Unlock().
Answers(j, outcome) ==
  /\ jobs' = [jobs EXCEPT ![j] = [pc |-> "answered", tries |-> @.tries, outcome |-> outcome,
                                  exact |-> conn'[ServiceOf[j]] = "exact"]]
  /\ locks' = [s \in Services |-> IF locks[s] = j THEN None ELSE locks[s]]

\* The handler starts the goroutine; the adapter's first asks the registry for
\* the agent, which it may or may not know.
Request(j) ==
  /\ jobs[j].pc = "idle" /\ j \in work.jobs
  /\ UNCHANGED <<alive, connVars, paneVars, viewerVars, work>>
  /\ \/ GoesTo(j, "lock") /\ UNCHANGED locks
     \/ j \in Prompts /\ ServiceOf[j] = Adapter /\ Answers(j, "failed")

\* With the lock, GetAgent: an agent that the registry does not know is an error.
Begins(j) ==
  \/ /\ locks' = [locks EXCEPT ![ServiceOf[j]] = j]
     /\ GoesTo(j, IF j \in Prompts THEN "text" ELSE "save")
  \/ Answers(j, "failed")

\* Mutant of Lock: each request has a lock of its own.
LockAnyway(j) ==
  /\ jobs[j].pc = "lock"
  /\ UNCHANGED <<alive, connVars, paneVars, viewerVars, work>>
  /\ Begins(j)

\* lock.Lock()
Lock(j) ==
  /\ jobs[j].pc = "lock"
  /\ locks[ServiceOf[j]] = None
  /\ UNCHANGED <<alive, connVars, paneVars, viewerVars, work>>
  /\ Begins(j)

\* SendKeysLiteral, if the prompt has several lines: each is a command that tmux
\* refuses, only the first answer is waited for, and an empty line makes tmux
\* leave.  If the answers are late already, the one that comes may say ok, and the
\* prompt goes on with nothing typed.
TypeManyLines(j) ==
  /\ jobs[j].pc = "text"
  /\ IF conn[ServiceOf[j]] = "closed" THEN UNCHANGED conn
     ELSE \E c \in {"late", "closed"} : conn' = [conn EXCEPT ![ServiceOf[j]] = c]
  /\ \/ Answers(j, "failed")
     \/ conn[ServiceOf[j]] = "late" /\ GoesTo(j, "escape") /\ UNCHANGED locks
  /\ UNCHANGED <<alive, faults, paneVars, viewerVars, work>>

\* Mutant of Type: an error is returned without the deferred Unlock.
TypeKeepsLock(j) ==
  /\ jobs[j].pc = "text"
  /\ \E ok \in BOOLEAN :
       /\ Executes(ServiceOf[j], ok)
       /\ IF ok THEN GoesTo(j, "escape")
          ELSE jobs' = [jobs EXCEPT ![j] = [@ EXCEPT !.pc = "answered", !.outcome = "failed"]]
  /\ Typed(ServiceOf[j], j)
  /\ UNCHANGED <<alive, locks, entered, erased, viewerVars, work>>

\* SendKeysLiteral of a prompt of one line
Type(j) ==
  /\ jobs[j].pc = "text"
  /\ \E ok \in BOOLEAN :
       /\ Executes(ServiceOf[j], ok)
       /\ IF ok THEN GoesTo(j, "escape") /\ UNCHANGED locks ELSE Answers(j, "failed")
  /\ Typed(ServiceOf[j], j)
  /\ UNCHANGED <<alive, entered, erased, viewerVars, work>>

\* SendKeysRaw "Escape"; an error leaves the text in the box.
Escape(j) ==
  /\ jobs[j].pc = "escape"
  /\ \E ok \in BOOLEAN :
       /\ Executes(ServiceOf[j], ok)
       /\ IF ok THEN GoesTo(j, "enter") /\ UNCHANGED locks ELSE Answers(j, "failed")
  /\ UNCHANGED <<alive, paneVars, viewerVars, work>>

\* Mutant of Enter: a failure of the last attempt counts as sent.
EnterGivesUp(j) ==
  /\ jobs[j].pc = "enter"
  /\ \E ok \in BOOLEAN :
       /\ Executes(ServiceOf[j], ok)
       /\ IF ok THEN GoesTo(j, "wake") /\ UNCHANGED locks
          ELSE IF jobs[j].tries = 2 THEN Answers(j, "ok")
          ELSE /\ jobs' = [jobs EXCEPT ![j].tries = @ + 1]
               /\ UNCHANGED locks
  /\ Submitted(ServiceOf[j])
  /\ UNCHANGED <<alive, viewerVars, work>>

\* SendKeysRaw "Enter", up to three times, whatever became of the one before.  A
\* session that the registry has as attached is not woken.
Enter(j) ==
  /\ jobs[j].pc = "enter"
  /\ \E ok \in BOOLEAN :
       /\ Executes(ServiceOf[j], ok)
       /\ IF ok THEN Answers(j, "ok") \/ (GoesTo(j, "wake") /\ UNCHANGED locks)
          ELSE IF jobs[j].tries = 2 THEN Answers(j, "failed")
          ELSE /\ jobs' = [jobs EXCEPT ![j].tries = @ + 1]
               /\ UNCHANGED locks
  /\ Submitted(ServiceOf[j])
  /\ UNCHANGED <<alive, viewerVars, work>>

\* ResizePane by -1, whose error is logged only ...
Wake(j) ==
  /\ jobs[j].pc = "wake"
  /\ \E ok \in BOOLEAN : Executes(ServiceOf[j], ok)
  /\ GoesTo(j, "woken")
  /\ UNCHANGED <<alive, locks, paneVars, viewerVars, work>>

\* ... and by +1, likewise.
WakeEnds(j) ==
  /\ jobs[j].pc = "woken"
  /\ \E ok \in BOOLEAN : Executes(ServiceOf[j], ok)
  /\ Answers(j, "ok")
  /\ UNCHANGED <<alive, paneVars, viewerVars, work>>

\* HandleFileUpload: SaveUploadedFile may fail ...
Save(j) ==
  /\ jobs[j].pc = "save"
  /\ UNCHANGED <<alive, connVars, paneVars, viewerVars, work>>
  /\ \/ GoesTo(j, "info") /\ UNCHANGED locks
     \/ Answers(j, "failed")

\* ... GetPaneInfo may too, which does not matter ...
Info(j) ==
  /\ jobs[j].pc = "info"
  /\ \E ok \in BOOLEAN : Executes(ServiceOf[j], ok)
  /\ GoesTo(j, "load")
  /\ UNCHANGED <<alive, locks, paneVars, viewerVars, work>>

\* ... load-buffer needs no session ...
Load(j) ==
  /\ jobs[j].pc = "load"
  /\ \E ok \in BOOLEAN :
       /\ ExecutesIf(conn[ServiceOf[j]] # "closed", ServiceOf[j], ok)
       /\ IF ok THEN GoesTo(j, "paste") /\ UNCHANGED locks ELSE Answers(j, "failed")
  /\ UNCHANGED <<alive, paneVars, viewerVars, work>>

\* ... and paste-buffer types the text; only an error is answered.
Paste(j) ==
  /\ jobs[j].pc = "paste"
  /\ \E ok \in BOOLEAN :
       /\ Executes(ServiceOf[j], ok)
       /\ Answers(j, IF ok THEN "ok" ELSE "failed")
  /\ Typed(ServiceOf[j], j)
  /\ UNCHANGED <<alive, entered, erased, viewerVars, work>>

Sending(j) ==
  \/ TypeManyLines(j) \/ Type(j) \/ Escape(j) \/ Enter(j) \/ Wake(j) \/ WakeEnds(j)
  \/ Save(j) \/ Info(j) \/ Load(j) \/ Paste(j)

----------------------------------------------------------------------------
(* The viewers. *)

Becomes(v, r) == viewers' = [viewers EXCEPT ![v] = r]

Asks(v) ==
  /\ viewers[v].pc = "idle" /\ work.inputs > 0
  /\ work' = [work EXCEPT !.inputs = @ - 1]

\* SendKeysRaw of a special key: BSpace, or one that moves the cursor.
PressKey(v) ==
  /\ Asks(v)
  /\ \E ok \in BOOLEAN : Executes(Adapter, ok)
  /\ Shortened(Adapter) \/ UNCHANGED paneVars
  /\ UNCHANGED <<alive, locks, jobs, viewers, windowVars>>

\* SendKeysBytes starts ...
TypeKeys(v) ==
  /\ Asks(v)
  /\ Becomes(v, [pc |-> "type", left |-> Chunks, height |-> 0])
  /\ UNCHANGED <<alive, connVars, locks, jobs, paneVars, windowVars>>

\* ... and sends chunk after chunk until one fails.  A chunk is text, or ends in a
\* carriage return (Enter has no key name in tmuxKeyNameFromVT), or clears the box.
TypeChunk(v) ==
  /\ viewers[v].pc = "type"
  /\ \E ok \in BOOLEAN :
       /\ Executes(Adapter, ok)
       /\ Becomes(v, IF ok /\ viewers[v].left > 1
                     THEN [viewers[v] EXCEPT !.left = @ - 1] ELSE AtRest)
  /\ \/ Typed(Adapter, v) /\ UNCHANGED <<entered, erased>>
     \/ Submitted(Adapter)
     \/ Cleared(Adapter)
  /\ UNCHANGED <<alive, locks, jobs, windowVars, work>>

\* resize-window
Resized(h) == IF Does(Adapter) THEN height' = h ELSE UNCHANGED height

\* ResizePaneTo
Resize(v, h) ==
  /\ Asks(v)
  /\ \E ok \in BOOLEAN : Executes(Adapter, ok)
  /\ Resized(h)
  /\ wanted' = height'
  /\ disturbed' = (InRedraw # {})
  /\ UNCHANGED <<alive, locks, jobs, paneVars, viewers>>

\* ForceRedraw reads the size: after a timeout it may read what was meant for
\* another command.  Without a size, or with one of a single row, it signals the
\* process instead, which changes nothing here.
ReadSize(v) ==
  /\ Asks(v)
  /\ \E ok \in BOOLEAN, h \in {height} \cup (IF conn[Adapter] = "late" THEN Heights ELSE {}) :
       /\ Executes(Adapter, ok)
       /\ Becomes(v, IF ok /\ h > 1 THEN [pc |-> "shrink", left |-> 0, height |-> h] ELSE AtRest)
  /\ disturbed' = (disturbed \/ InRedraw # {} \/ conn[Adapter] = "late")
  /\ UNCHANGED <<alive, locks, jobs, paneVars, height, wanted>>

Shrink(v) ==
  /\ viewers[v].pc = "shrink"
  /\ \E ok \in BOOLEAN :
       /\ Executes(Adapter, ok)
       /\ Becomes(v, IF ok THEN [viewers[v] EXCEPT !.pc = "restore"] ELSE AtRest)
       /\ disturbed' = (disturbed \/ (~ok /\ Does(Adapter)))
  /\ Resized(viewers[v].height - 1)
  /\ UNCHANGED <<alive, locks, jobs, paneVars, wanted, work>>

\* Mutant of Restore: the height is read again instead of kept.
RestoreCurrent(v) ==
  /\ viewers[v].pc = "restore"
  /\ \E ok \in BOOLEAN : Executes(Adapter, ok)
  /\ Becomes(v, AtRest)
  /\ Resized(height)
  /\ disturbed' = (disturbed \/ ~Does(Adapter))
  /\ UNCHANGED <<alive, locks, jobs, paneVars, wanted, work>>

Restore(v) ==
  /\ viewers[v].pc = "restore"
  /\ \E ok \in BOOLEAN : Executes(Adapter, ok)
  /\ Becomes(v, AtRest)
  /\ Resized(viewers[v].height)
  /\ disturbed' = (disturbed \/ ~Does(Adapter))
  /\ UNCHANGED <<alive, locks, jobs, paneVars, wanted, work>>

View(v) ==
  \/ PressKey(v) \/ TypeKeys(v) \/ TypeChunk(v)
  \/ (\E h \in Heights : Resize(v, h)) \/ ReadSize(v) \/ Shrink(v) \/ Restore(v)

----------------------------------------------------------------------------
PaneNext ==
  \/ \E j \in Jobs : Request(j) \/ Lock(j) \/ Sending(j)
  \/ \E v \in Viewers : View(v)
  \/ \E s \in Services : CloseConnection(s)
  \/ SessionEnds

\* A goroutine that can go on does so, and Go's mutex is fair to a waiter that
\* starves.
PaneFairness ==
  \A j \in Jobs : WF_vars(Sending(j)) /\ SF_vars(Lock(j))

PaneSpec == Init /\ [][PaneNext]_vars
FairPaneSpec == PaneSpec /\ PaneFairness

----------------------------------------------------------------------------
(***************************************************************************)
(* Properties.                                                             *)
(***************************************************************************)
Sends(j) == jobs[j].pc \in {"text", "escape", "enter", "wake", "woken", "save", "info", "load", "paste"}

\* Types; and prompt.go:43 "The caller must hold the per-agent lock": whoever sends
\* holds the lock of its service, and nobody else does.
PaneTypeOK ==
  /\ alive \in BOOLEAN
  /\ conn \in [Services -> {"exact", "late", "closed"}]
  /\ locks \in [Services -> Jobs \cup {None}]
  /\ jobs \in [Jobs -> Job]
  /\ box \in Seq(Jobs \cup Viewers)
  /\ entered \in Seq(Seq(Jobs \cup Viewers))
  /\ erased \subseteq Jobs
  /\ height \in Nat /\ wanted \in Nat
  /\ viewers \in [Viewers -> Viewer]
  /\ work \in Workload /\ faults \in 0..work.faults
  /\ disturbed \in BOOLEAN
  /\ \A j \in Jobs : Sends(j) <=> locks[ServiceOf[j]] = j

\* In text, a prompt that is followed by another one of its service is one
\* whose client has been told that it failed.
Unmixed(text) ==
  \A i, k \in DOMAIN text :
    /\ i < k /\ text[i] \in Prompts /\ text[k] \in Prompts \ {text[i]}
    /\ ServiceOf[text[i]] = ServiceOf[text[k]]
    => jobs[text[i]].outcome = "failed"

\* README.md:318 "per-agent mutex to prevent interleaving": two prompts of one
\* service are submitted together only if the first of them was abandoned half
\* way and reported as failed before the second began.
PromptsDontMix ==
  /\ Unmixed(box)
  /\ \A n \in DOMAIN entered : Unmixed(entered[n])

In(item, text) == \E k \in DOMAIN text : text[k] = item

SubmittedAtMostOnce(item) ==
  \A n, m \in DOMAIN entered : \A k \in DOMAIN entered[n], i \in DOMAIN entered[m] :
    entered[n][k] = item /\ entered[m][i] = item => n = m /\ k = i

\* specs/adapter-api.md:119 "Enter is implied": a prompt whose client is told
\* "ok" has been submitted, no prompt is submitted twice whichever Enter was tried
\* again, and an upload that ended well has been typed; but what a viewer deletes
\* meanwhile is gone.  Once a command of the connection has timed out, "ok" may be
\* the answer to another command.
OkIsEntered ==
  \A j \in Jobs :
    /\ SubmittedAtMostOnce(j)
    /\ jobs[j].outcome = "ok" /\ jobs[j].exact /\ j \notin erased =>
         \/ \E n \in DOMAIN entered : In(j, entered[n])
         \/ j \in Uploads /\ In(j, box)

\* internal/tmux/commands.go:230 "by briefly changing the window size": with no
\* ForceRedraw under way the window has the height last asked for, unless a redraw
\* met another one, a resize or a command that failed.
WindowRestored == InRedraw = {} /\ ~disturbed => height = wanted

\* Every request of a client is answered, and its lock is free for the next:
\* whatever fails on the way, and whoever else holds the lock.
RequestsAreAnswered == \A j \in Jobs : jobs[j].pc # "idle" ~> jobs[j].pc = "answered"
=============================================================================
