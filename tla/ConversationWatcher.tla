------------------------- MODULE ConversationWatcher -------------------------
(***************************************************************************)
(* internal/conv/watcher.go: which conversation of which agent is tailed.  *)
(*                                                                         *)
(* Processes: the registry (environment: agents come and go), the agents   *)
(* (environment: conversation files are made and written), the watchLoop   *)
(* goroutine, one goroutine per directory watcher and any number of        *)
(* discoverAndTail goroutines.  w.mu protects the streams and              *)
(* activeByAgent maps; what a goroutine does under one hold of it is one   *)
(* step, what it does between holds (the directory scan, the blocking send *)
(* of a lifecycle event) are steps of their own.  The reader of the events *)
(* channel is Consume here and the Broadcast goroutine in ConverterServer. *)
(*                                                                         *)
(* A conversation file is its conversation ID (runtime, agent name and     *)
(* file stem, so a file belongs to one agent).  Every startConversation-   *)
(* Stream makes a new stream object with a new buffer: objects are         *)
(* numbered, because replaced ones live on in the hands of other           *)
(* goroutines.  Runtime and parser lookups always succeed here, and        *)
(* NewTailer may fail on the files in Unreadable only.                     *)
(***************************************************************************)
EXTENDS Integers, Sequences, FiniteSets

CONSTANTS
  Agents,
  Files,          \* conversation IDs
  Owner,          \* the agent a file belongs to
  Subagents,      \* the files whose name starts with "agent-"
  None,           \* "no agent", "no conversation"
  EventsCap,      \* capacity of w.events (256 in the code)
  Workers,        \* bound: slots for discoverAndTail goroutines
  InitialAgents,  \* agents the registry found before watcher.Start
  InitialFiles,   \* files on disk at that time, all of one age
  MaxAdds,        \* bound: agents added later
  MaxRemoves,     \* bound: agents removed
  MaxWrites,      \* bound: writes to files that exist
  Unreadable      \* files on which NewTailer may fail

ASSUME WatcherAssumption ==
  /\ IsFiniteSet(Agents) /\ IsFiniteSet(Files)
  /\ Owner \in [Files -> Agents]
  /\ Subagents \subseteq Files
  /\ None \notin Agents \cup Files
  /\ EventsCap \in Nat \ {0}
  /\ InitialAgents \subseteq Agents
  /\ InitialFiles \subseteq Files
  /\ MaxAdds \in Nat /\ MaxRemoves \in Nat /\ MaxWrites \in Nat
  /\ Unreadable \subseteq Files

VARIABLES
  present,    \* agents in the registry (what GetAgents returns)
  regEvents,  \* registry.Events(): [type, agent]
  adds, removes, writes, \* counted by the bounds
  disk,       \* per conversation file: when it was last written, 0 for not made yet
  dirWatch,   \* per agent: Create events its directory watcher holds, -1 for none
  streams,    \* w.streams: file -> stream object, 0 for none
  active,     \* w.activeByAgent: agent -> file, or None
  pool,       \* every stream object made: [conv, running, pumping]
  events,     \* w.events
  loop,       \* the watchLoop goroutine
  workers     \* the discoverAndTail goroutines

watcherVars == <<present, regEvents, adds, removes, writes, disk, dirWatch, streams,
                 active, pool, events, loop, workers>>

EventTypes == {"agent-added", "agent-removed", "conversation-started",
               "conversation-switched"}

LifecycleEvent == [type : EventTypes, agent : Agents, old : Files \cup {None},
                   new : Files \cup {None}]

\* running: the tailer is not stopped; pumping: pumpFileStream was started;
\* late: history, its event was sent after that of a later main stream of the
\* same agent.
Stream == [conv : Files, running : BOOLEAN, pumping : BOOLEAN, late : BOOLEAN]

\* pc of a discovery goroutine: where in discoverAndTail it is.  main, subs:
\* files still to be streamed; held: Create events that the directory watcher
\* it has made, and not yet put into w.dirWatchers, holds; obj: the stream
\* object made for the main file; old: the conversation it replaced.
Worker == [pc : {"idle", "scan", "watch", "swap", "retry", "install", "emit"},
           agent : Agents \cup {None}, main : Files \cup {None},
           subs : SUBSET Files, held : Nat, obj : Nat, old : Files \cup {None}]

\* A discovery for agent a that holds no main file.
Job(pc, a, subs) == [pc |-> pc, agent |-> a, main |-> None, subs |-> subs,
                     held |-> 0, obj |-> 0, old |-> None]

Idle == Job("idle", None, {})

Loop == [pc : {"start", "loop", "cancel", "removed"},
         todo : SUBSET Agents, agent : Agents \cup {None}, obj : Nat]

Lifecycle(type, a) == [type |-> type, agent |-> a, old |-> None, new |-> None]

RoomForEvent == Len(events) < EventsCap

IsMain(f) == f \notin Subagents

MainFilesOf(a) == {f \in Files : Owner[f] = a /\ IsMain(f)}

OnDisk == {f \in Files : disk[f] # 0}

\* The pool with the tailers of the objects in dead stopped.
Stopped(dead) ==
  [i \in DOMAIN pool |-> IF i \in dead THEN [pool[i] EXCEPT !.running = FALSE]
                         ELSE pool[i]]

\* Discovery sorts by modification time: f comes first among a's main files.
Newest(a, f) ==
  /\ f \in MainFilesOf(a) \cap OnDisk
  /\ \A g \in MainFilesOf(a) \cap OnDisk : disk[g] <= disk[f]

----------------------------------------------------------------------------
Init ==
  /\ present = InitialAgents
  /\ \E order \in [1..Cardinality(InitialAgents) -> InitialAgents] :
       /\ {order[i] : i \in DOMAIN order} = InitialAgents
       /\ regEvents = [i \in DOMAIN order |-> [type |-> "added", agent |-> order[i]]]
  /\ adds = 0 /\ removes = 0 /\ writes = 0
  /\ disk = [f \in Files |-> IF f \in InitialFiles THEN 1 ELSE 0]
  /\ dirWatch = [a \in Agents |-> -1]
  /\ streams = [f \in Files |-> 0]
  /\ active = [a \in Agents |-> None]
  /\ pool = <<>>
  /\ events = <<>>
  /\ loop = [pc |-> "start", todo |-> InitialAgents, agent |-> None, obj |-> 0]
  /\ workers = [w \in Workers |-> Idle]

----------------------------------------------------------------------------
(* The environment. *)

\* Registry.scan finds a new agent; it is in the map before the event is sent.
AgentAdded(a) ==
  /\ adds < MaxAdds
  /\ a \notin present
  /\ adds' = adds + 1
  /\ present' = present \cup {a}
  /\ regEvents' = Append(regEvents, [type |-> "added", agent |-> a])
  /\ UNCHANGED <<removes, writes, disk, dirWatch, streams, active, pool, events,
                 loop, workers>>

AgentRemoved(a) ==
  /\ removes < MaxRemoves
  /\ a \in present
  /\ removes' = removes + 1
  /\ present' = present \ {a}
  /\ regEvents' = Append(regEvents, [type |-> "removed", agent |-> a])
  /\ UNCHANGED <<adds, writes, disk, dirWatch, streams, active, pool, events,
                 loop, workers>>

\* A time of writing later than those of all files.
Now == Cardinality(OnDisk) + writes + 2

\* An agent starts a conversation, a main one before its subagents': fsnotify
\* tells every directory watcher there is, the one on record and those that a
\* discovery has just made.
CreateFile(f) ==
  /\ f \notin OnDisk
  /\ f \in Subagents => MainFilesOf(Owner[f]) \cap OnDisk # {}
  /\ disk' = [disk EXCEPT ![f] = Now]
  /\ dirWatch' = [dirWatch EXCEPT ![Owner[f]] = IF @ = -1 THEN -1 ELSE @ + 1]
  /\ workers' = [w \in Workers |->
                   IF workers[w].pc = "swap" /\ workers[w].agent = Owner[f]
                   THEN [workers[w] EXCEPT !.held = @ + 1] ELSE workers[w]]
  /\ UNCHANGED <<present, regEvents, adds, removes, writes, streams, active,
                 pool, events, loop>>

\* An agent writes to a conversation it had left (a session taken up again):
\* the file is now the newest, and no Create event says so.  To write to the
\* newest changes no order.
WriteFile(f) ==
  /\ writes < MaxWrites
  /\ f \in OnDisk
  /\ \E g \in OnDisk \ {f} : Owner[g] = Owner[f] /\ disk[f] <= disk[g]
  /\ writes' = writes + 1
  /\ disk' = [disk EXCEPT ![f] = Now]
  /\ UNCHANGED <<present, regEvents, adds, removes, dirWatch, streams, active,
                 pool, events, loop, workers>>

\* The reader of the events channel.
Consume ==
  /\ events # <<>>
  /\ events' = Tail(events)
  /\ UNCHANGED <<present, regEvents, adds, removes, writes, disk, dirWatch,
                 streams, active, pool, loop, workers>>

----------------------------------------------------------------------------
(* watchLoop *)

\* go w.discoverAndTail(agent, disc), in a free slot
Spawn(a) ==
  \E w \in Workers :
    /\ workers[w].pc = "idle"
    /\ w = CHOOSE v \in Workers : workers[v].pc = "idle"
    /\ workers' = [workers EXCEPT ![w] = Job("scan", a, {})]

\* Start: emit and startWatching for an agent of GetAgents.  Its "added" event
\* is still in the registry's channel and comes again through watchLoop.
StartAgent(a) ==
  /\ loop.pc = "start"
  /\ a \in loop.todo
  /\ RoomForEvent
  /\ events' = Append(events, Lifecycle("agent-added", a))
  /\ Spawn(a)
  /\ loop' = [loop EXCEPT !.todo = @ \ {a}]
  /\ UNCHANGED <<present, regEvents, adds, removes, writes, disk, dirWatch,
                 streams, active, pool>>

StartDone ==
  /\ loop.pc = "start"
  /\ loop.todo = {}
  /\ loop' = [loop EXCEPT !.pc = "loop"]
  /\ UNCHANGED <<present, regEvents, adds, removes, writes, disk, dirWatch,
                 streams, active, pool, events, workers>>

LoopAdded ==
  /\ loop.pc = "loop"
  /\ regEvents # <<>>
  /\ Head(regEvents).type = "added"
  /\ RoomForEvent
  /\ events' = Append(events, Lifecycle("agent-added", Head(regEvents).agent))
  /\ Spawn(Head(regEvents).agent)
  /\ regEvents' = Tail(regEvents)
  /\ UNCHANGED <<present, adds, removes, writes, disk, dirWatch, streams,
                 active, pool, loop>>

\* stopWatching up to the first unlock.  An agent without an active
\* conversation returns early: its directory watcher is left in place.
LoopRemoved ==
  /\ loop.pc = "loop"
  /\ regEvents # <<>>
  /\ Head(regEvents).type = "removed"
  /\ LET a == Head(regEvents).agent
         f == active[a] IN
       IF f = None
       THEN /\ loop' = [loop EXCEPT !.pc = "removed", !.agent = a]
            /\ UNCHANGED <<active, streams>>
       ELSE /\ active' = [active EXCEPT ![a] = None]
            /\ streams' = [streams EXCEPT ![f] = 0]
            /\ loop' = [loop EXCEPT !.pc = "cancel", !.agent = a, !.obj = streams[f]]
  /\ regEvents' = Tail(regEvents)
  /\ UNCHANGED <<present, adds, removes, writes, disk, dirWatch, pool, events,
                 workers>>

\* The rest of stopWatching: stop the tailer, close the directory watcher.
LoopCancel ==
  /\ loop.pc = "cancel"
  /\ pool' = Stopped({loop.obj})
  /\ dirWatch' = [dirWatch EXCEPT ![loop.agent] = -1]
  /\ loop' = [loop EXCEPT !.pc = "removed", !.obj = 0]
  /\ UNCHANGED <<present, regEvents, adds, removes, writes, disk, streams,
                 active, events, workers>>

LoopEmitRemoved ==
  /\ loop.pc = "removed"
  /\ RoomForEvent
  /\ events' = Append(events, Lifecycle("agent-removed", loop.agent))
  /\ loop' = [loop EXCEPT !.pc = "loop", !.agent = None]
  /\ UNCHANGED <<present, regEvents, adds, removes, writes, disk, dirWatch,
                 streams, active, pool, workers>>

----------------------------------------------------------------------------
(* watchDirectoryLoop *)

\* A Create event: re-discover, if the registry still knows the agent.
DirEvent(a) ==
  /\ dirWatch[a] > 0
  /\ dirWatch' = [dirWatch EXCEPT ![a] = @ - 1]
  /\ IF a \in present THEN Spawn(a) ELSE UNCHANGED workers
  /\ UNCHANGED <<present, regEvents, adds, removes, writes, disk, streams,
                 active, pool, events, loop>>

----------------------------------------------------------------------------
(* discoverAndTail *)

\* FindConversations: the newest main file, if any, and the subagent files
Scan(w) ==
  /\ workers[w].pc = "scan"
  /\ LET a == workers[w].agent IN
       \E m \in Files \cup {None} :
         /\ IF MainFilesOf(a) \cap OnDisk = {} THEN m = None ELSE Newest(a, m)
         /\ workers' = [workers EXCEPT ![w].pc = "watch", ![w].main = m,
                         ![w].subs = {f \in Subagents \cap OnDisk : Owner[f] = a}]
  /\ UNCHANGED <<present, regEvents, adds, removes, writes, disk, dirWatch,
                 streams, active, pool, events, loop>>

\* watchDirectories up to the lock: a new watcher gets the Create events from
\* now on, and the one on record still does.
Watch(w) ==
  /\ workers[w].pc = "watch"
  /\ workers' = [workers EXCEPT ![w].pc = "swap"]
  /\ UNCHANGED <<present, regEvents, adds, removes, writes, disk, dirWatch,
                 streams, active, pool, events, loop>>

\* Nothing to stream was found.
FoundNothing(w) == workers[w].main = None /\ workers[w].subs = {}

\* Mutant of Swap: no retry when the agent has no conversation file yet.
SwapGivesUp(w) ==
  /\ workers[w].pc = "swap"
  /\ dirWatch' = [dirWatch EXCEPT ![workers[w].agent] = workers[w].held]
  /\ workers' = [workers EXCEPT ![w] =
                   IF FoundNothing(w) THEN Idle ELSE [@ EXCEPT !.pc = "install", !.held = 0]]
  /\ UNCHANGED <<present, regEvents, adds, removes, writes, disk, streams,
                 active, pool, events, loop>>

\* The rest of it: the new watcher takes the place of the old one, which is
\* closed with the events it still holds.  No files: try again later.
Swap(w) ==
  /\ workers[w].pc = "swap"
  /\ dirWatch' = [dirWatch EXCEPT ![workers[w].agent] = workers[w].held]
  /\ workers' = [workers EXCEPT ![w].pc = IF FoundNothing(w) THEN "retry" ELSE "install",
                                ![w].held = 0]
  /\ UNCHANGED <<present, regEvents, adds, removes, writes, disk, streams,
                 active, pool, events, loop>>

\* retryDiscovery: five seconds later
Retry(w) ==
  /\ workers[w].pc = "retry"
  /\ workers' = [workers EXCEPT ![w].pc = "scan"]
  /\ UNCHANGED <<present, regEvents, adds, removes, writes, disk, dirWatch,
                 streams, active, pool, events, loop>>

\* What is left of a discovery with these subagent files to go.
Rest(w, subs) ==
  IF subs = {} THEN Idle ELSE Job("install", workers[w].agent, subs)

\* The pool with a new object for f, the objects in dead being cancelled.
NewStream(f, dead) ==
  Append(Stopped(dead),
         [conv |-> f, running |-> TRUE, pumping |-> ~IsMain(f), late |-> FALSE])

\* Mutant of InstallMain: the stream of the conversation it takes over from is
\* cancelled but stays in the map.
InstallMainKeepsOld(w) ==
  /\ workers[w].pc = "install"
  /\ workers[w].main # None
  /\ LET f == workers[w].main
         a == workers[w].agent
         old == IF active[a] = f THEN None ELSE active[a]
     IN
       /\ pool' = NewStream(f, {streams[f]} \cup
                                 (IF old = None THEN {} ELSE {streams[old]}))
       /\ streams' = [streams EXCEPT ![f] = Len(pool) + 1]
       /\ active' = [active EXCEPT ![a] = f]
       /\ workers' = [workers EXCEPT ![w].pc = "emit", ![w].obj = Len(pool) + 1,
                                     ![w].old = old]
  /\ UNCHANGED <<present, regEvents, adds, removes, writes, disk, dirWatch,
                 events, loop>>

\* startConversationStream of the main file, the part under w.mu: the stream
\* it had and that of the conversation it takes over from are cancelled.
InstallMain(w) ==
  /\ workers[w].pc = "install"
  /\ workers[w].main # None
  /\ LET f == workers[w].main
         a == workers[w].agent
         old == IF active[a] = f THEN None ELSE active[a]
     IN
       /\ pool' = NewStream(f, {streams[f]} \cup
                                 (IF old = None THEN {} ELSE {streams[old]}))
       /\ streams' = [g \in Files |->
                        IF g = f THEN Len(pool) + 1
                        ELSE IF g = old THEN 0 ELSE streams[g]]
       /\ active' = [active EXCEPT ![a] = f]
       /\ workers' = [workers EXCEPT ![w].pc = "emit", ![w].obj = Len(pool) + 1,
                                     ![w].old = old]
  /\ UNCHANGED <<present, regEvents, adds, removes, writes, disk, dirWatch,
                 events, loop>>

\* Mutant of InstallSub: an existing stream is replaced without being stopped.
InstallSubLeaks(w, f) ==
  /\ workers[w].pc = "install"
  /\ workers[w].main = None
  /\ f \in workers[w].subs
  /\ pool' = NewStream(f, {})
  /\ streams' = [streams EXCEPT ![f] = Len(pool) + 1]
  /\ workers' = [workers EXCEPT ![w] = Rest(w, workers[w].subs \ {f})]
  /\ UNCHANGED <<present, regEvents, adds, removes, writes, disk, dirWatch,
                 active, events, loop>>

\* startConversationStream of a subagent's file: no event, pumped at once.
InstallSub(w, f) ==
  /\ workers[w].pc = "install"
  /\ workers[w].main = None
  /\ f \in workers[w].subs
  /\ pool' = NewStream(f, {streams[f]})
  /\ streams' = [streams EXCEPT ![f] = Len(pool) + 1]
  /\ workers' = [workers EXCEPT ![w] = Rest(w, workers[w].subs \ {f})]
  /\ UNCHANGED <<present, regEvents, adds, removes, writes, disk, dirWatch,
                 active, events, loop>>

\* NewTailer returned an error: this file is not streamed, the others are.
TailerFails(w) ==
  /\ workers[w].pc = "install"
  /\ \/ /\ workers[w].main \in Unreadable
        /\ workers' = [workers EXCEPT ![w] = Rest(w, workers[w].subs)]
     \/ /\ workers[w].main = None
        /\ \E f \in workers[w].subs \cap Unreadable :
             workers' = [workers EXCEPT ![w] = Rest(w, workers[w].subs \ {f})]
  /\ UNCHANGED <<present, regEvents, adds, removes, writes, disk, dirWatch,
                 streams, active, pool, events, loop>>

\* The event of a main stream made after object i, of the same agent, was sent.
Overtaken(i) ==
  \E j \in DOMAIN pool : /\ j > i /\ pool[j].pumping /\ IsMain(pool[j].conv)
                         /\ Owner[pool[j].conv] = Owner[pool[i].conv]

\* Object i, with its event sent and go w.pumpFileStream.
Announced(i) == [conv |-> pool[i].conv, running |-> pool[i].running,
                 pumping |-> TRUE, late |-> Overtaken(i)]

\* Mutant of Emit: the send does not wait for room in the channel.
EmitUnbounded(w) ==
  /\ workers[w].pc = "emit"
  /\ LET k == workers[w] IN
       /\ events' = Append(events,
            [type |-> IF k.old = None THEN "conversation-started"
                      ELSE "conversation-switched",
             agent |-> k.agent, old |-> k.old, new |-> k.main])
       /\ pool' = [pool EXCEPT ![k.obj] = Announced(k.obj)]
       /\ workers' = [workers EXCEPT ![w] = Rest(w, k.subs)]
  /\ UNCHANGED <<present, regEvents, adds, removes, writes, disk, dirWatch,
                 streams, active, loop>>

\* The blocking emitEvent of the main file's event, then go w.pumpFileStream.
\* w.mu is not held: another discovery may install and emit in between.
Emit(w) ==
  /\ workers[w].pc = "emit"
  /\ RoomForEvent
  /\ LET k == workers[w] IN
       /\ events' = Append(events,
            [type |-> IF k.old = None THEN "conversation-started"
                      ELSE "conversation-switched",
             agent |-> k.agent, old |-> k.old, new |-> k.main])
       /\ pool' = [pool EXCEPT ![k.obj] = Announced(k.obj)]
       /\ workers' = [workers EXCEPT ![w] = Rest(w, k.subs)]
  /\ UNCHANGED <<present, regEvents, adds, removes, writes, disk, dirWatch,
                 streams, active, loop>>

----------------------------------------------------------------------------
Environment ==
  \/ \E a \in Agents : AgentAdded(a) \/ AgentRemoved(a)
  \/ \E f \in Files : CreateFile(f) \/ WriteFile(f)

WatchLoop ==
  \/ \E a \in Agents : StartAgent(a)
  \/ StartDone \/ LoopAdded \/ LoopRemoved \/ LoopCancel \/ LoopEmitRemoved

Discovery(w) ==
  \/ Scan(w) \/ Watch(w) \/ Swap(w) \/ Retry(w)
  \/ InstallMain(w) \/ (\E f \in Files : InstallSub(w, f)) \/ TailerFails(w)
  \/ Emit(w)

WatcherNext ==
  \/ Environment
  \/ WatchLoop
  \/ \E a \in Agents : DirEvent(a)
  \/ \E w \in Workers : Discovery(w)

Next == WatcherNext \/ Consume

Spec == Init /\ [][Next]_watcherVars

\* Every goroutine that can run runs; the environment may stop at any time.
Fairness ==
  /\ WF_watcherVars(WatchLoop)
  /\ \A a \in Agents : WF_watcherVars(DirEvent(a))
  /\ \A w \in Workers : WF_watcherVars(Discovery(w))

FairSpec == Spec /\ Fairness /\ WF_watcherVars(Consume)

----------------------------------------------------------------------------
(***************************************************************************)
(* Properties.                                                             *)
(***************************************************************************)
\* Types, and the capacity of the events channel.
TypeOK ==
  /\ present \subseteq Agents
  /\ regEvents \in Seq([type : {"added", "removed"}, agent : Agents])
  /\ writes \in Nat
  /\ disk \in [Files -> Nat]
  /\ dirWatch \in [Agents -> Int]
  /\ streams \in [Files -> 0..Len(pool)]
  /\ active \in [Agents -> Files \cup {None}]
  /\ pool \in Seq(Stream)
  /\ events \in Seq(LifecycleEvent)
  /\ Len(events) <= EventsCap
  /\ loop \in Loop
  /\ workers \in [Workers -> Worker]

\* The two maps agree: the main conversation an agent streams is the one
\* activeByAgent names, and an agent without an active one streams none.
MainStreamIsActive ==
  \A a \in Agents :
    {f \in MainFilesOf(a) : streams[f] # 0} =
      IF active[a] = None THEN {} ELSE {active[a]}

\* specs/tmux-converter.md:925 "Cleans up replaced streams on re-discovery":
\* a tailer that runs belongs to the stream on record for its conversation,
\* or watchLoop is about to stop it.
NoOrphanTailer ==
  \A i \in DOMAIN pool :
    pool[i].running => streams[pool[i].conv] = i \/ loop.obj = i

\* No goroutine of the watcher has anything left to do for agent a.
Quiet(a) ==
  /\ \A w \in Workers : workers[w].agent # a
  /\ \A i \in DOMAIN regEvents : regEvents[i].agent # a
  /\ loop.agent # a /\ a \notin loop.todo
  /\ dirWatch[a] <= 0

\* specs/tmux-converter.md:562 "Late file appearance (agent starts before
\* conversation file) -> eventually discovers and streams": whatever the order
\* of scans, retries and Create events.
LateFileIsStreamed ==
  \A a \in Agents :
    (/\ a \in present /\ MainFilesOf(a) \cap OnDisk # {}
     /\ MainFilesOf(a) \cap Unreadable = {})
      ~> (active[a] # None \/ a \notin present)

\* specs/tmux-converter.md:563 "Agent removed -> tailers stopped, resources
\* cleaned up, no goroutine leaks": refuted.
RemovedAgentIsStopped ==
  \A a \in Agents \ present : Quiet(a) =>
    /\ dirWatch[a] = -1
    /\ \A i \in DOMAIN pool : Owner[pool[i].conv] = a => ~pool[i].running
=============================================================================
