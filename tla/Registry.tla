------------------------------- MODULE Registry -------------------------------
(***************************************************************************)
(* internal/agents/registry.go on top of internal/tmux/control.go: which   *)
(* agents there are, found out by scanning tmux whenever it reports a      *)
(* change, and told to the reader of Events().                             *)
(*                                                                         *)
(* A scan is a sequence of Execute calls, so tmux changes between them,    *)
(* notifications pile up behind them, and the goroutines that serve        *)
(* clients call Execute in between.  The scan's four queries of a session  *)
(* (list-panes and three show-environment) are one here, "pane": the       *)
(* environment only decides role, rig and runtime, which are left out, as  *)
(* are sessions that scan skips by name or directory.  Whether an agent    *)
(* process runs in the pane is decided by the answer.  A scan's answers    *)
(* are read as the code parses them, also when they are another command's. *)
(*                                                                         *)
(* tmux is external: creating or ending a session is reported as           *)
(* "sessions-changed", a program that starts or ends in a pane as          *)
(* "window-renamed"; attaching and detaching a client as neither.          *)
(***************************************************************************)
EXTENDS ControlMode, FiniteSets

CONSTANTS
  Sessions,
  Watcher,       \* the goroutine of Start, then of watchLoop
  EventsCap,     \* capacity of r.events (100 in the code)
  InitialAgents, \* sessions that run an agent when the service starts
  TmuxMayDie,    \* whether tmux may go before Close
  MaxChanges     \* bound: changes in tmux

\* What a scan asks and a client's command; any answer tmux can give.
ListSessions == [ask |-> "list", of |-> None]
PaneInfo(s) == [ask |-> "pane", of |-> s]
ClientCommand == [ask |-> "client", of |-> None]
Answer(kind, ss, att) == [kind |-> kind, sessions |-> ss, attached |-> att]

ASSUME RegistryAssumption ==
  /\ Watcher \in Callers
  /\ None \notin Sessions
  /\ InitialAgents \subseteq Sessions
  /\ EventsCap \in Nat \ {0} /\ MaxChanges \in Nat
  /\ TmuxMayDie \in BOOLEAN
  /\ Requests = {ListSessions, ClientCommand} \cup {PaneInfo(s) : s \in Sessions}
  /\ Replies = [kind : {"list", "pane", "ok", "error"},
                sessions : SUBSET Sessions, attached : SUBSET Sessions]

VARIABLES
  status,     \* tmux: what runs in each session
  attached,   \* tmux: the sessions a human is attached to
  changes,    \* counted by the bound
  scan,       \* the goroutine that scans
  agents,     \* r.agents: the flag "attached" of each, "none" if not in the map
  pending,    \* pendingEvents of the scan that is sending
  regEvents,  \* r.events
  view,       \* what a reader of the events knows of each agent
  stopped,    \* r.stopCh is closed
  was         \* history: what each session has been since the scan began; {} between scans

registryVars == <<scan, agents, pending, regEvents>>
tmuxVars == <<status, attached, changes>>
vars == <<controlVars, tmuxVars, registryVars, view, stopped, was>>

----------------------------------------------------------------------------
Statuses == {"none", "shell", "agent"}
AgentStates == {"none", "detached", "attached"}

Event == [type : {"added", "removed", "updated"}, session : Sessions, state : AgentStates]

\* tmux's answers: the sessions and who of them is attached; whether the pane
\* runs an agent; an error; or that of a client's command.
Existing == {s \in Sessions : status[s] # "none"}
TmuxReply(r) ==
  IF r.ask = "list" THEN Answer("list", Existing, attached \cap Existing)
  ELSE IF r.ask # "pane" THEN Answer("ok", {}, {})
  ELSE IF status[r.of] = "none" THEN Answer("error", {}, {})
  ELSE Answer("pane", IF status[r.of] = "agent" THEN {r.of} ELSE {}, {})

\* ListSessions keeps the lines with two fields whose first is a session's
\* name: another command's answer has none.
Listed(reply) == IF reply.kind = "list" THEN reply.sessions ELSE {}
ListedAttached(reply) == IF reply.kind = "list" THEN reply.attached ELSE {}

\* Mutant of ShowsAgent: any pane will do.
ShowsPane(reply) == reply.kind = "pane"

\* GetPaneInfo fails on anything that is not a pane's four fields.
ShowsAgent(reply) == reply.kind = "pane" /\ reply.sessions # {}

----------------------------------------------------------------------------
\* pc: "list" and "pane" are about to ask, "listing" and "asking" wait for the
\* answer.  cur is the session asked about; todo those not asked about yet.
Scan == [pc : {"list", "listing", "pane", "asking", "send", "watch", "failed", "ended"},
         started : BOOLEAN, todo : SUBSET Sessions, cur : Sessions \cup {None},
         found : SUBSET Sessions, attached : SUBSET Sessions]

Pending == [removed : SUBSET Sessions, added : SUBSET Sessions, updated : SUBSET Sessions]
Nothing == [removed |-> {}, added |-> {}, updated |-> {}]

RegistryInit ==
  /\ Init
  /\ status = [s \in Sessions |-> IF s \in InitialAgents THEN "agent" ELSE "none"]
  /\ attached = {}
  /\ changes = 0
  /\ scan = [pc |-> "list", started |-> FALSE, todo |-> {}, cur |-> None,
             found |-> {}, attached |-> {}]
  /\ agents = [s \in Sessions |-> "none"]
  /\ pending = Nothing
  /\ regEvents = <<>>
  /\ view = [s \in Sessions |-> "none"]
  /\ stopped = FALSE
  /\ was = [s \in Sessions |-> {}]

----------------------------------------------------------------------------
(* Registry.scan, by Start first and then by watchLoop. *)

Ask(r, next) ==
  /\ Call(Watcher, r)
  /\ scan' = next

\* The Execute call that scan waits for has returned.
Answered == callers[Watcher].pc = "idle"
Result == callers[Watcher].result
AskFailed == IF Result = Failed THEN TRUE ELSE Result.kind = "error"

AskList ==
  /\ scan.pc = "list"
  /\ Ask(ListSessions, [scan EXCEPT !.pc = "listing"])
  /\ was' = [s \in Sessions |-> {status[s]}]
  /\ UNCHANGED <<tmuxVars, agents, pending, regEvents, view, stopped>>

\* scan returns an error: Start gives up, watchLoop goes on.
ListFails ==
  /\ scan.pc = "listing" /\ Answered /\ AskFailed
  /\ scan' = [scan EXCEPT !.pc = IF scan.started THEN "watch" ELSE "failed"]
  /\ was' = [s \in Sessions |-> {}]
  /\ TakeResult(Watcher)
  /\ UNCHANGED <<tmuxVars, agents, pending, regEvents, view, stopped>>

TakeList ==
  /\ scan.pc = "listing" /\ Answered /\ ~AskFailed
  /\ scan' = [scan EXCEPT !.pc = "pane", !.todo = Listed(Result), !.found = {},
                          !.attached = ListedAttached(Result)]
  /\ TakeResult(Watcher)
  /\ UNCHANGED <<tmuxVars, agents, pending, regEvents, view, stopped, was>>

AskPane(s) ==
  /\ scan.pc = "pane"
  /\ s \in scan.todo
  /\ Ask(PaneInfo(s), [scan EXCEPT !.pc = "asking", !.cur = s])
  /\ UNCHANGED <<tmuxVars, agents, pending, regEvents, view, stopped, was>>

\* A session whose query fails is passed over, as one without an agent is.
TakePane ==
  /\ scan.pc = "asking" /\ Answered
  /\ scan' = [scan EXCEPT !.pc = "pane", !.cur = None, !.todo = @ \ {scan.cur},
                          !.found = IF ~AskFailed /\ ShowsAgent(Result)
                                      THEN @ \cup {scan.cur} ELSE @]
  /\ TakeResult(Watcher)
  /\ UNCHANGED <<tmuxVars, agents, pending, regEvents, view, stopped, was>>

\* Under r.mu: the map becomes what was found, and the differences are noted.
Found(s) ==
  IF s \notin scan.found THEN "none"
  ELSE IF s \in scan.attached THEN "attached" ELSE "detached"

\* Mutant of Diff: removed agents are reported and stay in the map.
DiffKeepsRemoved ==
  /\ scan.pc = "pane" /\ scan.todo = {}
  /\ agents' = [s \in Sessions |-> IF Found(s) = "none" THEN agents[s] ELSE Found(s)]
  /\ pending' = [removed |-> {s \in Sessions : agents[s] # "none" /\ Found(s) = "none"},
                 added |-> {s \in Sessions : agents[s] = "none" /\ Found(s) # "none"},
                 updated |-> {s \in Sessions : "none" \notin {agents[s], Found(s)}
                                                /\ agents[s] # Found(s)}]
  /\ scan' = [scan EXCEPT !.pc = "send", !.found = {}, !.attached = {}]
  /\ was' = [s \in Sessions |-> {}]
  /\ UNCHANGED <<controlVars, tmuxVars, regEvents, view, stopped>>

Diff ==
  /\ scan.pc = "pane" /\ scan.todo = {}
  /\ agents' = [s \in Sessions |-> Found(s)]
  /\ pending' = [removed |-> {s \in Sessions : agents[s] # "none" /\ Found(s) = "none"},
                 added |-> {s \in Sessions : agents[s] = "none" /\ Found(s) # "none"},
                 updated |-> {s \in Sessions : "none" \notin {agents[s], Found(s)}
                                                /\ agents[s] # Found(s)}]
  /\ scan' = [scan EXCEPT !.pc = "send", !.found = {}, !.attached = {}]
  /\ was' = [s \in Sessions |-> {}]
  /\ UNCHANGED <<controlVars, tmuxVars, regEvents, view, stopped>>

\* r.mu is released and the events are sent: the removals, then the rest, each
\* in the order of a map.
\* Mutant of Send: it does not wait for room.
SendUnbounded(type, s, state) ==
  /\ scan.pc = "send"
  /\ regEvents' = Append(regEvents, [type |-> type, session |-> s, state |-> state])
  /\ UNCHANGED <<controlVars, tmuxVars, scan, agents, view, stopped, was>>

Send(type, s, state) ==
  /\ scan.pc = "send"
  /\ Len(regEvents) < EventsCap
  /\ regEvents' = Append(regEvents, [type |-> type, session |-> s, state |-> state])
  /\ UNCHANGED <<controlVars, tmuxVars, scan, agents, view, stopped, was>>

SendRemoved(s) ==
  /\ s \in pending.removed
  /\ pending' = [pending EXCEPT !.removed = @ \ {s}]
  /\ Send("removed", s, "none")

SendAdded(s) ==
  /\ pending.removed = {} /\ s \in pending.added
  /\ pending' = [pending EXCEPT !.added = @ \ {s}]
  /\ Send("added", s, agents[s])

SendUpdated(s) ==
  /\ pending.removed = {} /\ s \in pending.updated
  /\ pending' = [pending EXCEPT !.updated = @ \ {s}]
  /\ Send("updated", s, agents[s])

\* scan returns nil, and so does Start if this was its scan.
ScanDone ==
  /\ scan.pc = "send" /\ pending = Nothing
  /\ scan' = [scan EXCEPT !.pc = "watch", !.started = TRUE]
  /\ UNCHANGED <<controlVars, tmuxVars, agents, pending, regEvents, view, stopped, was>>

RunScan ==
  \/ AskList \/ ListFails \/ TakeList
  \/ (\E s \in Sessions : AskPane(s)) \/ TakePane
  \/ Diff \/ (\E s \in Sessions : SendRemoved(s) \/ SendAdded(s) \/ SendUpdated(s))
  \/ ScanDone

----------------------------------------------------------------------------
(* watchLoop, Stop, and the reader of Events(). *)

\* Notifications other than the two are dropped.
WatchLoop ==
  /\ scan.pc = "watch"
  /\ notifications # <<>>
  /\ scan' = IF Head(notifications).type = "changed" THEN [scan EXCEPT !.pc = "list"]
             ELSE scan
  /\ TakeNotification
  /\ UNCHANGED <<tmuxVars, agents, pending, regEvents, view, stopped, was>>

LoopEnds ==
  /\ scan.pc = "watch" /\ stopped
  /\ scan' = [scan EXCEPT !.pc = "ended"]
  /\ UNCHANGED <<controlVars, tmuxVars, agents, pending, regEvents, view, stopped, was>>

Stop ==
  /\ scan.started /\ ~stopped
  /\ stopped' = TRUE
  /\ UNCHANGED <<controlVars, tmuxVars, registryVars, view, was>>

\* The reader of the events is started when Start has returned.
ReadEvent ==
  /\ scan.started
  /\ regEvents # <<>>
  /\ view' = [view EXCEPT ![Head(regEvents).session] = Head(regEvents).state]
  /\ regEvents' = Tail(regEvents)
  /\ UNCHANGED <<controlVars, tmuxVars, scan, agents, pending, stopped, was>>

----------------------------------------------------------------------------
(* The control-mode connection in this environment. *)

\* Goroutines that serve clients: each makes one call.
ClientCalls(c) ==
  /\ scan.started
  /\ c # Watcher /\ callers[c] = NoCall
  /\ Call(c, ClientCommand)

\* Stop comes before Close, and a Start that fails closes.
Connection ==
  /\ \/ \E c \in Callers : Execute(c) \/ ClientCalls(c)
     \/ ReadLoop
     \/ Close /\ (stopped \/ scan.pc = "failed")
     \/ stdin # <<>> /\ TmuxAnswers(TmuxReply(Head(stdin).request))
  /\ UNCHANGED <<tmuxVars, registryVars, view, stopped, was>>

TmuxGoes ==
  /\ closer = "stdinClosed" \/ TmuxMayDie
  /\ TmuxExits
  /\ UNCHANGED <<tmuxVars, registryVars, view, stopped, was>>

----------------------------------------------------------------------------
(* What happens in tmux. *)

\* A session starts, ends, or starts or ends its agent, or its window is renamed
\* with nothing else changed.
Becomes(s, new) ==
  /\ changes < MaxChanges
  /\ changes' = changes + 1
  /\ status[s] = "none" => new = "shell"
  /\ status' = [status EXCEPT ![s] = new]
  /\ was' = [was EXCEPT ![s] = IF @ = {} THEN {} ELSE @ \cup {new}]
  /\ attached' = attached \ (IF new = "none" THEN {s} ELSE {})
  /\ TmuxNotifies("changed")
  /\ UNCHANGED <<registryVars, view, stopped>>

\* Reported as a notification that readLoop does not pass on.
Attaches(s) ==
  /\ changes < MaxChanges
  /\ changes' = changes + 1
  /\ status[s] # "none"
  /\ tmux = "running"
  /\ attached' = IF s \in attached THEN attached \ {s} ELSE attached \cup {s}
  /\ UNCHANGED <<controlVars, status, registryVars, view, stopped, was>>

\* A notification the registry does not care for.
PaneOutput ==
  /\ changes < MaxChanges
  /\ changes' = changes + 1
  /\ TmuxNotifies("output")
  /\ UNCHANGED <<status, attached, registryVars, view, stopped, was>>

----------------------------------------------------------------------------
RegistryNext ==
  \/ RunScan \/ WatchLoop \/ LoopEnds \/ Stop \/ ReadEvent
  \/ Connection \/ TmuxGoes \/ PaneOutput
  \/ \E s \in Sessions : Attaches(s) \/ \E new \in Statuses : Becomes(s, new)

RegistrySpec == RegistryInit /\ [][RegistryNext]_vars

\* sync.Mutex lets no waiter starve; timers fire; tmux answers; goroutines run.
Lives(A) == A /\ UNCHANGED <<tmuxVars, registryVars, view, stopped, was>>
RegistryFairness ==
  /\ \A c \in Callers :
       /\ SF_vars(Lives(Acquire(c))) /\ WF_vars(Lives(Write(c)))
       /\ WF_vars(Lives(Receive(c))) /\ WF_vars(Lives(TimeOut(c)))
       /\ WF_vars(Lives(SeeDone(c)))
  /\ WF_vars(Lives(ReadLoop))
  /\ WF_vars(Lives(stdin # <<>> /\ TmuxAnswers(TmuxReply(Head(stdin).request))))
  /\ WF_vars(RunScan) /\ WF_vars(WatchLoop) /\ WF_vars(LoopEnds) /\ WF_vars(ReadEvent)

FairRegistrySpec == RegistrySpec /\ RegistryFairness

----------------------------------------------------------------------------
(* Properties. *)

RegistryTypeOK ==
  /\ ControlTypeOK
  /\ status \in [Sessions -> Statuses]
  /\ attached \subseteq Existing
  /\ scan \in Scan
  /\ agents \in [Sessions -> AgentStates]
  /\ pending \in Pending
  /\ regEvents \in Seq(Event) /\ Len(regEvents) <= EventsCap
  /\ view \in [Sessions -> AgentStates]
  /\ was \in [Sessions -> SUBSET Statuses]

\* x is what a reader of the events knows of s when event i is the next one.
Knows(s, i, x) ==
  \/ x = view[s] /\ \A k \in 1..(i - 1) : regEvents[k].session # s
  \/ \E j \in 1..(i - 1) :
       /\ regEvents[j].session = s /\ regEvents[j].state = x
       /\ \A k \in (j + 1)..(i - 1) : regEvents[k].session # s

\* Event e starts from what x says, and says something else.
Takes(e, x) ==
  CASE e.type = "added" -> x = "none" /\ e.state # "none"
    [] e.type = "removed" -> x # "none" /\ e.state = "none"
    [] OTHER -> x # "none" /\ e.state \notin {"none", x}

\* What is still to be sent of s starts from x and ends with the map.
LeftToTell(s, x) ==
  IF s \in pending.removed THEN x # "none" /\ agents[s] = "none"
  ELSE IF s \in pending.added THEN x = "none" /\ agents[s] # "none"
  ELSE IF s \in pending.updated THEN x # "none" /\ agents[s] \notin {"none", x}
  ELSE x = agents[s]

\* A reader that applies the events it is sent ends up with r.agents: what it
\* knows of a session is what the map says, or the events on their way and
\* those still to be sent bring it there, each from where the one before left.
EventsTellTheMap ==
  \A s \in Sessions : \A x \in AgentStates :
    /\ \A i \in DOMAIN regEvents :
         regEvents[i].session = s /\ Knows(s, i, x) => Takes(regEvents[i], x)
    /\ Knows(s, Len(regEvents) + 1, x) => LeftToTell(s, x)

\* As long as nothing has timed out or been closed, what a scan finds was so at
\* some time since it began, and what it misses was not.
ScanIsJustified ==
  (scan.pc = "pane" /\ scan.todo = {} /\ ~timedOut /\ closer = "open" /\ tmux = "running") =>
    \A s \in Sessions : IF s \in scan.found THEN "agent" \in was[s]
                        ELSE was[s] # {"agent"}

\* Every Execute returns, though readLoop is stuck behind a full channel or has ended,
\* a Close is under way, or another goroutine waits for execMu.
ExecuteReturns ==
  \A c \in Callers : callers[c].pc # "idle" ~> callers[c].pc = "idle"

\* Once tmux stops changing, the readers of the events know which agents there
\* are, unless a command timed out, tmux or readLoop ended or the service stopped.
ReadersCatchUp ==
  <>[](\/ timedOut \/ tmux = "gone" \/ reader.pc = "ended" \/ stopped \/ scan.pc = "failed"
       \/ \A s \in Sessions : view[s] # "none" <=> status[s] = "agent")
=============================================================================
