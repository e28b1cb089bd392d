---------------------- MODULE ConversationWatcher_proofs ---------------------
(***************************************************************************)
(* Proofs about ConversationWatcher, for all sets of agents and files, any *)
(* number of discoveries at once and every capacity of the events channel. *)
(*                                                                         *)
(* WatcherInv is the inductive invariant.  MainStreamIsActive and          *)
(* NoOrphanTailer are not inductive alone: a stream object must be the one *)
(* of the conversation it is filed under (StreamsMatch), a discovery must  *)
(* hold files of its own agent (WorkersOK), and the object that watchLoop  *)
(* is about to stop is set only between the two halves of stopWatching     *)
(* (LoopOK).                                                               *)
(***************************************************************************)
EXTENDS ConversationWatcher, SequenceTheorems, FiniteSetTheorems, TLAPS

\* The stream on record for a conversation was made for that conversation.
StreamsMatch == \A f \in Files : streams[f] # 0 => pool[streams[f]].conv = f

ActiveIsMain == \A a \in Agents : active[a] \in MainFilesOf(a) \cup {None}

LoopOK ==
  /\ loop.pc \in {"cancel", "removed"} => loop.agent \in Agents
  /\ loop.pc # "cancel" => loop.obj = 0

\* A discovery works for one agent, on its main files and on subagent files.
WorkerOK(k, n) ==
  /\ k.pc # "idle" => k.agent \in Agents
  /\ k.main # None => k.main \in MainFilesOf(k.agent)
  /\ k.subs \subseteq Subagents
  /\ k.pc = "emit" => k.main # None /\ k.obj \in 1..n

WorkersOK == \A w \in Workers : WorkerOK(workers[w], Len(pool))

WatcherInv ==
  /\ TypeOK
  /\ StreamsMatch
  /\ ActiveIsMain
  /\ LoopOK
  /\ WorkersOK
  /\ MainStreamIsActive
  /\ NoOrphanTailer

----------------------------------------------------------------------------
\* A lifecycle event put on the events channel when there is room for it.
LEMMA EmitFacts ==
  ASSUME events \in Seq(LifecycleEvent), RoomForEvent, NEW e \in LifecycleEvent
  PROVE  Append(events, e) \in Seq(LifecycleEvent) /\ Len(Append(events, e)) <= EventsCap
BY WatcherAssumption DEF RoomForEvent

\* The registry event that watchLoop takes is about an agent.
LEMMA RegistryFacts ==
  ASSUME TypeOK, regEvents # <<>>
  PROVE  /\ Head(regEvents).agent \in Agents
         /\ Tail(regEvents) \in Seq([type : {"added", "removed"}, agent : Agents])
<1> DEFINE RegEvent == [type : {"added", "removed"}, agent : Agents]
<1>1. regEvents \in Seq(RegEvent)
  BY DEF TypeOK
<1>2. \A e \in RegEvent : e.agent \in Agents
  OBVIOUS
<1> HIDE DEF RegEvent
<1>3. Head(regEvents) \in RegEvent /\ Tail(regEvents) \in Seq(RegEvent)
  BY <1>1
<1> QED BY <1>2, <1>3 DEF RegEvent

\* The stream on record for a conversation is an object of the pool.
LEMMA StreamFacts ==
  ASSUME TypeOK, StreamsMatch, NEW g \in Files, streams[g] # 0
  PROVE  streams[g] \in 1..Len(pool) /\ pool[streams[g]].conv = g
<1>1. streams[g] \in 0..Len(pool) /\ Len(pool) \in Nat
  BY DEF TypeOK
<1> QED BY <1>1 DEF StreamsMatch

\* The conversation of a stream object.
LEMMA PoolFacts ==
  ASSUME TypeOK, NEW i \in 1..Len(pool)
  PROVE  pool[i] \in Stream /\ pool[i].conv \in Files /\ i \in DOMAIN pool
<1>1. pool[i] \in Stream /\ i \in DOMAIN pool
  BY DEF TypeOK
<1> QED BY <1>1 DEF Stream

\* A discovery that is spawned works for the agent given and holds no file.
LEMMA SpawnFacts ==
  ASSUME WatcherInv, NEW a \in Agents, Spawn(a)
  PROVE  /\ workers' \in [Workers -> Worker]
         /\ \A w \in Workers : WorkerOK(workers'[w], Len(pool))
<1> USE DEF WatcherInv, TypeOK, WorkersOK
<1>1. PICK w \in Workers : workers' = [workers EXCEPT ![w] =
                                         Job("scan", a, {})]
  BY DEF Spawn
<1> DEFINE k == Job("scan", a, {})
<1>2. k \in Worker
  BY DEF Job, Worker
<1>3. WorkerOK(k, Len(pool))
  BY DEF Job, WorkerOK
<1> QED BY <1>1, <1>2, <1>3

\* What remains of a discovery holds no main file, and subagent files only.
LEMMA RestFacts ==
  ASSUME WatcherInv, NEW w \in Workers, workers[w].pc # "idle",
         NEW s \in SUBSET workers[w].subs, NEW n \in Nat
  PROVE  Rest(w, s) \in Worker /\ WorkerOK(Rest(w, s), n)
<1>1. workers[w] \in Worker /\ WorkerOK(workers[w], Len(pool))
  BY DEF WatcherInv, TypeOK, WorkersOK
<1>2. s \in SUBSET Files /\ s \subseteq Subagents /\ workers[w].agent \in Agents
  BY <1>1 DEF Worker, WorkerOK
<1> QED BY <1>2 DEF Rest, Idle, Job, Worker, WorkerOK

\* Stopping tailers changes nothing else about the stream objects.
LEMMA StoppedFacts ==
  ASSUME pool \in Seq(Stream), NEW dead
  PROVE  /\ Stopped(dead) \in Seq(Stream)
         /\ Len(Stopped(dead)) = Len(pool)
         /\ DOMAIN Stopped(dead) = 1..Len(pool)
         /\ \A i \in 1..Len(pool) :
              /\ Stopped(dead)[i].conv = pool[i].conv
              /\ Stopped(dead)[i].pumping = pool[i].pumping /\ Stopped(dead)[i].late = pool[i].late
              /\ Stopped(dead)[i].running => pool[i].running /\ i \notin dead
<1>1. DOMAIN pool = 1..Len(pool) /\ Len(pool) \in Nat
  OBVIOUS
<1>2. \A i \in 1..Len(pool) : pool[i] \in Stream
  OBVIOUS
<1>3. \A i \in 1..Len(pool) :
        /\ [pool[i] EXCEPT !.running = FALSE] \in Stream
        /\ [pool[i] EXCEPT !.running = FALSE].conv = pool[i].conv
        /\ [pool[i] EXCEPT !.running = FALSE].pumping = pool[i].pumping
        /\ [pool[i] EXCEPT !.running = FALSE].late = pool[i].late
        /\ ~[pool[i] EXCEPT !.running = FALSE].running
  BY <1>2 DEF Stream
<1>4. Stopped(dead) \in Seq(Stream) /\ Len(Stopped(dead)) = Len(pool)
  BY <1>1, <1>2, <1>3 DEF Stopped
<1>5. \A i \in 1..Len(pool) :
        Stopped(dead)[i] = IF i \in dead THEN [pool[i] EXCEPT !.running = FALSE] ELSE pool[i]
  BY <1>1 DEF Stopped
<1>6. \A i \in 1..Len(pool) :
        /\ Stopped(dead)[i].conv = pool[i].conv
        /\ Stopped(dead)[i].pumping = pool[i].pumping /\ Stopped(dead)[i].late = pool[i].late
        /\ Stopped(dead)[i].running => pool[i].running /\ i \notin dead
  BY <1>3, <1>5
<1>7. DOMAIN Stopped(dead) = 1..Len(pool)
  BY <1>1 DEF Stopped
<1> QED BY <1>4, <1>6, <1>7

\* The pool grows by the new object; objects are cancelled, never revived.
LEMMA NewStreamFacts ==
  ASSUME pool \in Seq(Stream), NEW f \in Files, NEW dead
  PROVE  /\ NewStream(f, dead) \in Seq(Stream)
         /\ Len(NewStream(f, dead)) = Len(pool) + 1
         /\ DOMAIN NewStream(f, dead) = 1..Len(pool) + 1
         /\ NewStream(f, dead)[Len(pool) + 1].conv = f
         /\ ~NewStream(f, dead)[Len(pool) + 1].late
         /\ \A i \in 1..Len(pool) :
              /\ NewStream(f, dead)[i].conv = pool[i].conv
              /\ NewStream(f, dead)[i].pumping = pool[i].pumping
              /\ NewStream(f, dead)[i].late = pool[i].late
              /\ NewStream(f, dead)[i].running => pool[i].running /\ i \notin dead
<1> DEFINE n == [conv |-> f, running |-> TRUE, pumping |-> ~IsMain(f), late |-> FALSE]
<1>1. n \in Stream /\ n.conv = f /\ ~n.late
  BY DEF Stream, IsMain
<1> HIDE DEF n
<1>2. Stopped(dead) \in Seq(Stream) /\ Len(Stopped(dead)) = Len(pool)
  BY StoppedFacts
<1>3. /\ Append(Stopped(dead), n) \in Seq(Stream)
      /\ Len(Append(Stopped(dead), n)) = Len(pool) + 1
      /\ DOMAIN Append(Stopped(dead), n) = 1..Len(pool) + 1
      /\ Append(Stopped(dead), n)[Len(pool) + 1] = n
      /\ \A i \in 1..Len(pool) : Append(Stopped(dead), n)[i] = Stopped(dead)[i]
  BY <1>1, <1>2
<1>4. NewStream(f, dead) = Append(Stopped(dead), n)
  BY DEF NewStream, n
<1> QED BY <1>1, <1>3, <1>4, StoppedFacts

\* A stream whose event is sent stays what it is.
LEMMA AnnouncedFacts ==
  ASSUME NEW i, pool[i] \in Stream
  PROVE  /\ Announced(i) \in Stream
         /\ Announced(i).conv = pool[i].conv /\ Announced(i).running = pool[i].running
         /\ Announced(i).pumping /\ Announced(i).late = Overtaken(i)
<1>1. Overtaken(i) \in BOOLEAN
  BY DEF Overtaken
<1>2. pool[i].conv \in Files /\ pool[i].running \in BOOLEAN
  BY DEF Stream
<1> QED BY <1>1, <1>2 DEF Announced, Stream

----------------------------------------------------------------------------
\* The invariant holds when Start is called.
LEMMA InitWatcherInv == Init => WatcherInv
<1> SUFFICES ASSUME Init PROVE WatcherInv
  OBVIOUS
<1> USE WatcherAssumption DEF Init
<1>1. regEvents \in Seq([type : {"added", "removed"}, agent : Agents])
  <2>1. PICK order \in [1..Cardinality(InitialAgents) -> InitialAgents] :
          regEvents = [i \in DOMAIN order |-> [type |-> "added", agent |-> order[i]]]
    OBVIOUS
  <2>2. Cardinality(InitialAgents) \in Nat
    BY FS_Subset, FS_CardinalityType
  <2>3. \A i \in DOMAIN order :
          [type |-> "added", agent |-> order[i]] \in [type : {"added", "removed"}, agent : Agents]
    OBVIOUS
  <2>4. DOMAIN order = 1..Cardinality(InitialAgents)
    OBVIOUS
  <2> DEFINE RegEvent == [type : {"added", "removed"}, agent : Agents]
  <2> HIDE DEF Init
  <2>5. regEvents \in [1..Cardinality(InitialAgents) -> RegEvent]
    BY <2>1, <2>3, <2>4
  <2> HIDE DEF RegEvent
  <2>6. regEvents \in Seq(RegEvent)
    BY <2>2, <2>5
  <2> QED BY <2>6 DEF RegEvent
<1>2. TypeOK
  <2>1. /\ present \subseteq Agents
        /\ writes \in Nat
        /\ disk \in [Files -> Nat]
        /\ dirWatch \in [Agents -> Int]
        /\ streams \in [Files -> 0..Len(pool)]
        /\ active \in [Agents -> Files \cup {None}]
        /\ pool \in Seq(Stream)
        /\ events \in Seq(LifecycleEvent) /\ Len(events) <= EventsCap
    OBVIOUS
  <2>2. loop \in Loop
    BY DEF Loop
  <2>3. workers \in [Workers -> Worker]
    BY DEF Idle, Job, Worker
  <2> QED BY <1>1, <2>1, <2>2, <2>3 DEF TypeOK
<1>3. StreamsMatch /\ ActiveIsMain /\ LoopOK
  BY DEF StreamsMatch, ActiveIsMain, LoopOK
<1>4. WorkersOK
  BY DEF WorkersOK, WorkerOK, Idle, Job
<1>5. MainStreamIsActive
  BY DEF MainStreamIsActive, MainFilesOf
<1>6. NoOrphanTailer
  BY DEF NoOrphanTailer
<1> QED BY <1>2, <1>3, <1>4, <1>5, <1>6 DEF WatcherInv

\* The environment and the reader of events touch no stream, and of a discovery
\* only what its directory watcher holds.
LEMMA EnvironmentInv ==
  ASSUME WatcherInv, Environment \/ Consume
  PROVE  WatcherInv'
<1> USE DEF WatcherInv
<1>1. UNCHANGED <<streams, active, pool, loop>>
  BY DEF Environment, Consume, AgentAdded, AgentRemoved, CreateFile, WriteFile
<1>0. workers' \in [Workers -> Worker] /\ WorkersOK'
  <2>1. workers \in [Workers -> Worker] /\ \A w \in Workers : WorkerOK(workers[w], Len(pool))
    BY DEF TypeOK, WorkersOK
  <2>2. CASE UNCHANGED workers
    BY <1>1, <2>1, <2>2 DEF WorkersOK
  <2>3. ASSUME NEW f \in Files, CreateFile(f)
        PROVE  workers' \in [Workers -> Worker] /\ WorkersOK'
    <3> DEFINE more(w) == [workers[w] EXCEPT !.held = @ + 1]
               new(w) == IF workers[w].pc = "swap" /\ workers[w].agent = Owner[f]
                         THEN more(w) ELSE workers[w]
    <3>1. workers' = [w \in Workers |-> new(w)]
      BY <2>3 DEF CreateFile
    <3>2. ASSUME NEW w \in Workers
          PROVE  new(w) \in Worker /\ WorkerOK(new(w), Len(pool))
      <4>1. workers[w] \in Worker /\ WorkerOK(workers[w], Len(pool))
        BY <2>1
      <4>2. more(w) \in Worker /\ WorkerOK(more(w), Len(pool))
        BY <4>1 DEF Worker, WorkerOK
      <4> HIDE DEF more
      <4> QED BY <4>1, <4>2
    <3> HIDE DEF new
    <3> QED BY <1>1, <3>1, <3>2 DEF WorkersOK
  <2> QED BY <2>2, <2>3 DEF Environment, Consume, AgentAdded, AgentRemoved, WriteFile
<1>2. TypeOK'
  <2> DEFINE RegEvent == [type : {"added", "removed"}, agent : Agents]
  <2>1. CASE \E a \in Agents : AgentAdded(a)
    <3>1. PICK a \in Agents : AgentAdded(a)
      BY <2>1
    <3>2. [type |-> "added", agent |-> a] \in RegEvent
      OBVIOUS
    <3> QED BY <3>1, <3>2 DEF AgentAdded, TypeOK
  <2>2. CASE \E a \in Agents : AgentRemoved(a)
    <3>1. PICK a \in Agents : AgentRemoved(a)
      BY <2>2
    <3>2. [type |-> "removed", agent |-> a] \in RegEvent
      OBVIOUS
    <3> QED BY <3>1, <3>2 DEF AgentRemoved, TypeOK
  <2>0. Now \in Nat
    <3>1. Cardinality(OnDisk) \in Nat
      BY WatcherAssumption, FS_Subset, FS_CardinalityType DEF OnDisk
    <3> QED BY <3>1 DEF TypeOK, Now
  <2>3. CASE \E f \in Files : CreateFile(f)
    <3>2. disk' \in [Files -> Nat]
      <4>1. PICK f \in Files : disk' = [disk EXCEPT ![f] = Now]
        BY <2>3 DEF CreateFile
      <4> QED BY <2>0, <4>1 DEF TypeOK
    <3>3. dirWatch' \in [Agents -> Int]
      <4>1. PICK f \in Files : dirWatch' =
              [dirWatch EXCEPT ![Owner[f]] = IF @ = -1 THEN -1 ELSE @ + 1]
        BY <2>3 DEF CreateFile
      <4>2. \A a \in Agents : dirWatch[a] \in Int /\ dirWatch[a] + 1 \in Int
        BY DEF TypeOK
      <4> QED BY <4>1, <4>2 DEF TypeOK
    <3>4. UNCHANGED <<present, regEvents, writes, streams, active, pool, events, loop>>
      BY <2>3 DEF CreateFile
    <3> QED BY <1>0, <3>2, <3>3, <3>4 DEF TypeOK
  <2>5. CASE \E f \in Files : WriteFile(f)
    <3>1. PICK f \in Files : WriteFile(f)
      BY <2>5
    <3>2. disk' \in [Files -> Nat] /\ writes' \in Nat
      BY <2>0, <3>1 DEF TypeOK, WriteFile
    <3>3. UNCHANGED <<present, regEvents, dirWatch, streams, active, pool, events, loop, workers>>
      BY <3>1 DEF WriteFile
    <3> QED BY <3>2, <3>3 DEF TypeOK
  <2>4. CASE Consume
    <3>1. Tail(events) \in Seq(LifecycleEvent) /\ Len(Tail(events)) = Len(events) - 1
      BY <2>4 DEF TypeOK, Consume
    <3>2. events' \in Seq(LifecycleEvent) /\ Len(events') <= EventsCap
      BY <2>4, <3>1, WatcherAssumption DEF Consume, TypeOK
    <3> QED BY <2>4, <3>2 DEF Consume, TypeOK
  <2> QED BY <2>1, <2>2, <2>3, <2>4, <2>5 DEF Environment
<1>3. (StreamsMatch /\ ActiveIsMain /\ LoopOK)'
  BY <1>1 DEF StreamsMatch, ActiveIsMain, LoopOK
<1>5. MainStreamIsActive'
  BY <1>1 DEF MainStreamIsActive
<1>6. NoOrphanTailer'
  BY <1>1 DEF NoOrphanTailer
<1> QED BY <1>0, <1>2, <1>3, <1>5, <1>6

\* Start and watchLoop, between registry events: a discovery is spawned, or
\* nothing but the loop's own state and its events changes.
LEMMA LoopSpawnInv ==
  ASSUME WatcherInv, \/ \E a \in Agents : StartAgent(a) \/ DirEvent(a)
                     \/ StartDone \/ LoopAdded \/ LoopEmitRemoved
  PROVE  WatcherInv'
<1> USE DEF WatcherInv
<1>1. UNCHANGED <<streams, active, pool>> /\ UNCHANGED loop.obj
  BY DEF StartAgent, DirEvent, StartDone, LoopAdded, LoopEmitRemoved, TypeOK, Loop
<1>2. workers' \in [Workers -> Worker] /\ WorkersOK'
  <2>1. CASE \E a \in Agents : Spawn(a)
    BY <2>1, <1>1, SpawnFacts DEF WorkersOK
  <2>2. CASE UNCHANGED workers
    BY <2>2, <1>1 DEF WorkersOK, TypeOK
  <2>3. LoopAdded => \E a \in Agents : Spawn(a)
    <3>1. LoopAdded => Head(regEvents).agent \in Agents
      BY RegistryFacts DEF LoopAdded
    <3> QED BY <3>1 DEF LoopAdded
  <2> QED BY <2>1, <2>2, <2>3 DEF StartAgent, DirEvent, StartDone, LoopEmitRemoved
<1>3. events' \in Seq(LifecycleEvent) /\ Len(events') <= EventsCap
  <2>1. \A a \in Agents : /\ Lifecycle("agent-added", a) \in LifecycleEvent
                          /\ Lifecycle("agent-removed", a) \in LifecycleEvent
    BY DEF Lifecycle, LifecycleEvent, EventTypes
  <2>2. CASE \E a \in Agents : StartAgent(a)
    BY <2>1, <2>2, EmitFacts DEF StartAgent, TypeOK
  <2>3. CASE LoopAdded
    <3>1. Head(regEvents).agent \in Agents
      BY <2>3, RegistryFacts DEF LoopAdded
    <3> QED BY <2>1, <2>3, <3>1, EmitFacts DEF LoopAdded, TypeOK
  <2>4. CASE LoopEmitRemoved
    <3>1. loop.agent \in Agents
      BY <2>4 DEF LoopEmitRemoved, LoopOK
    <3> QED BY <2>1, <2>4, <3>1, EmitFacts DEF LoopEmitRemoved, TypeOK
  <2>5. CASE UNCHANGED events
    BY <2>5 DEF TypeOK
  <2> QED BY <2>2, <2>3, <2>4, <2>5 DEF DirEvent, StartDone
<1>4. /\ regEvents' \in Seq([type : {"added", "removed"}, agent : Agents])
      /\ dirWatch' \in [Agents -> Int]
      /\ present' \subseteq Agents /\ disk' \in [Files -> Nat] /\ writes' \in Nat
  <2>1. LoopAdded => Tail(regEvents) \in Seq([type : {"added", "removed"}, agent : Agents])
    BY RegistryFacts DEF LoopAdded
  <2>2. /\ regEvents \in Seq([type : {"added", "removed"}, agent : Agents])
        /\ dirWatch \in [Agents -> Int] /\ present \subseteq Agents /\ disk \in [Files -> Nat]
        /\ writes \in Nat
    BY DEF TypeOK
  <2>3. CASE \E a \in Agents : DirEvent(a)
    <3>1. dirWatch' \in [Agents -> Int]
      BY <2>2, <2>3 DEF DirEvent
    <3> QED BY <2>2, <2>3, <3>1 DEF DirEvent
  <2>4. CASE (\E a \in Agents : StartAgent(a)) \/ StartDone \/ LoopEmitRemoved
    BY <2>2, <2>4 DEF StartAgent, StartDone, LoopEmitRemoved
  <2>5. CASE LoopAdded
    BY <2>1, <2>2, <2>5 DEF LoopAdded
  <2> QED BY <2>3, <2>4, <2>5
<1>5. loop' \in Loop /\ LoopOK'
  BY DEF StartAgent, DirEvent, StartDone, LoopAdded, LoopEmitRemoved, TypeOK, Loop, LoopOK
<1>6. TypeOK'
  BY <1>1, <1>2, <1>3, <1>4, <1>5 DEF TypeOK
<1>7. (StreamsMatch /\ ActiveIsMain /\ MainStreamIsActive)'
  BY <1>1 DEF StreamsMatch, ActiveIsMain, MainStreamIsActive
<1>8. NoOrphanTailer'
  BY <1>1 DEF NoOrphanTailer
<1> QED BY <1>2, <1>5, <1>6, <1>7, <1>8

\* The first half of stopWatching takes the agent's active stream off both
\* maps and into watchLoop's hands.
LEMMA LoopRemovedInv == WatcherInv /\ LoopRemoved => WatcherInv'
<1> SUFFICES ASSUME WatcherInv, LoopRemoved PROVE WatcherInv'
  OBVIOUS
<1> USE DEF WatcherInv
<1> DEFINE a == Head(regEvents).agent
           f == active[a]
<1>1. /\ a \in Agents /\ f \in MainFilesOf(a) \cup {None}
      /\ Tail(regEvents) \in Seq([type : {"added", "removed"}, agent : Agents])
  BY RegistryFacts DEF LoopRemoved, ActiveIsMain
<1>2. UNCHANGED <<pool, workers, present, writes, disk, dirWatch, events>> /\ regEvents' = Tail(regEvents)
  BY DEF LoopRemoved
<1>3. WorkersOK'
  BY <1>2 DEF WorkersOK
<1>4. loop.pc = "loop" /\ loop.obj = 0
  BY DEF LoopRemoved, LoopOK
<1>5. CASE f = None
  <2>1. loop' = [loop EXCEPT !.pc = "removed", !.agent = a] /\ UNCHANGED <<active, streams>>
    BY <1>5 DEF LoopRemoved
  <2>2. loop' \in Loop /\ LoopOK' /\ loop'.obj = loop.obj
    BY <1>1, <1>4, <2>1 DEF Loop, LoopOK, TypeOK
  <2>3. TypeOK'
    BY <1>1, <1>2, <2>1, <2>2 DEF TypeOK
  <2>4. (StreamsMatch /\ ActiveIsMain /\ MainStreamIsActive)'
    BY <1>2, <2>1 DEF StreamsMatch, ActiveIsMain, MainStreamIsActive
  <2>5. NoOrphanTailer'
    BY <1>2, <2>1, <2>2 DEF NoOrphanTailer
  <2> QED BY <1>3, <2>2, <2>3, <2>4, <2>5
<1>6. CASE f # None
  <2>1. /\ active' = [active EXCEPT ![a] = None]
        /\ streams' = [streams EXCEPT ![f] = 0]
        /\ loop' = [loop EXCEPT !.pc = "cancel", !.agent = a, !.obj = streams[f]]
    BY <1>6 DEF LoopRemoved
  <2>2. f \in Files /\ f \in MainFilesOf(a) /\ Owner[f] = a /\ streams[f] \in 0..Len(pool)
    BY <1>1, <1>6 DEF MainFilesOf, TypeOK
  <2>3. loop' \in Loop /\ LoopOK' /\ loop'.obj = streams[f]
    <3>1. loop \in Loop /\ streams[f] \in Nat
      BY <2>2 DEF TypeOK
    <3> HIDE DEF f, a
    <3>2. loop' \in Loop /\ loop'.pc = "cancel" /\ loop'.agent = a /\ loop'.obj = streams[f]
      BY <1>1, <2>1, <3>1 DEF Loop
    <3> QED BY <1>1, <3>2 DEF LoopOK
  <2>4. TypeOK'
    BY <1>1, <1>2, <2>1, <2>2, <2>3 DEF TypeOK
  <2>5. StreamsMatch'
    BY <1>2, <2>1 DEF StreamsMatch, TypeOK
  <2>6. ActiveIsMain'
    BY <2>1 DEF ActiveIsMain, TypeOK
  <2>7. MainStreamIsActive'
    <3> SUFFICES ASSUME NEW b \in Agents
                 PROVE {g \in MainFilesOf(b) : streams'[g] # 0} =
                         IF active'[b] = None THEN {} ELSE {active'[b]}
      BY DEF MainStreamIsActive
    <3>1. {g \in MainFilesOf(b) : streams[g] # 0} = IF active[b] = None THEN {} ELSE {active[b]}
      BY DEF MainStreamIsActive
    <3>2. \A g \in MainFilesOf(b) : g \in Files /\ Owner[g] = b
      BY DEF MainFilesOf
    <3>3. CASE b = a
      <4>1. \A g \in MainFilesOf(b) : streams'[g] = 0
        BY <1>6, <2>1, <2>2, <3>1, <3>2, <3>3 DEF TypeOK
      <4> QED BY <2>1, <3>3, <4>1 DEF TypeOK
    <3>4. CASE b # a
      <4>1. \A g \in MainFilesOf(b) : streams'[g] = streams[g]
        BY <2>1, <2>2, <3>2, <3>4 DEF TypeOK
      <4> QED BY <2>1, <3>1, <3>4, <4>1 DEF TypeOK
    <3> QED BY <3>3, <3>4
  <2>8. NoOrphanTailer'
    <3> SUFFICES ASSUME NEW i \in DOMAIN pool, pool[i].running
                 PROVE  streams'[pool[i].conv] = i \/ loop'.obj = i
      BY <1>2 DEF NoOrphanTailer
    <3>1. DOMAIN pool = 1..Len(pool) /\ pool[i] \in Stream
      BY DEF TypeOK
    <3>2. streams[pool[i].conv] = i
      BY <1>4, <3>1 DEF NoOrphanTailer
    <3>3. pool[i].conv \in Files
      BY <3>1 DEF Stream
    <3> QED BY <2>1, <2>3, <3>2, <3>3 DEF TypeOK
  <2> QED BY <1>3, <2>3, <2>4, <2>5, <2>6, <2>7, <2>8
<1> QED BY <1>5, <1>6

\* The second half stops the object that the first half took.
LEMMA LoopCancelInv == WatcherInv /\ LoopCancel => WatcherInv'
<1> SUFFICES ASSUME WatcherInv, LoopCancel PROVE WatcherInv'
  OBVIOUS
<1> USE DEF WatcherInv
<1>1. /\ pool' = Stopped({loop.obj}) /\ loop.pc = "cancel"
      /\ loop' = [loop EXCEPT !.pc = "removed", !.obj = 0]
      /\ dirWatch' = [dirWatch EXCEPT ![loop.agent] = -1]
      /\ UNCHANGED <<present, regEvents, writes, disk, streams, active, events, workers>>
  BY DEF LoopCancel
<1>2. /\ pool' \in Seq(Stream) /\ Len(pool') = Len(pool) /\ DOMAIN pool' = 1..Len(pool)
      /\ \A i \in 1..Len(pool) : /\ pool'[i].conv = pool[i].conv
                                 /\ pool'[i].running => pool[i].running /\ i # loop.obj
  BY <1>1, StoppedFacts DEF TypeOK
<1>3. loop' \in Loop /\ LoopOK' /\ loop'.obj = 0
  BY <1>1 DEF Loop, LoopOK, TypeOK
<1>4. dirWatch' \in [Agents -> Int]
  <2>1. dirWatch \in [Agents -> Int] /\ -1 \in Int
    BY DEF TypeOK
  <2> QED BY <1>1, <2>1
<1>5. TypeOK'
  BY <1>1, <1>2, <1>3, <1>4 DEF TypeOK
<1>6. StreamsMatch'
  <2> SUFFICES ASSUME NEW g \in Files, streams[g] # 0
               PROVE  pool'[streams[g]].conv = g
    BY <1>1 DEF StreamsMatch
  <2> QED BY <1>2, StreamFacts
<1>7. (ActiveIsMain /\ MainStreamIsActive)'
  BY <1>1 DEF ActiveIsMain, MainStreamIsActive
<1>8. WorkersOK'
  BY <1>1, <1>2 DEF WorkersOK
<1>9. NoOrphanTailer'
  <2>1. DOMAIN pool = 1..Len(pool)
    BY DEF TypeOK
  <2> QED BY <1>1, <1>2, <2>1 DEF NoOrphanTailer
<1> QED BY <1>3, <1>5, <1>6, <1>7, <1>8, <1>9

\* One worker moves, to a state that is right for it, and nothing else does.
LEMMA WorkerStepInv ==
  ASSUME WatcherInv, NEW w \in Workers, NEW k \in Worker, WorkerOK(k, Len(pool)),
         workers' = [workers EXCEPT ![w] = k], dirWatch' \in [Agents -> Int],
         UNCHANGED <<present, regEvents, writes, disk, streams, active, pool, events, loop>>
  PROVE  WatcherInv'
<1> USE DEF WatcherInv
<1>1. TypeOK'
  BY DEF TypeOK
<1>2. (StreamsMatch /\ ActiveIsMain /\ LoopOK /\ MainStreamIsActive)'
  BY DEF StreamsMatch, ActiveIsMain, LoopOK, MainStreamIsActive
<1>3. WorkersOK'
  BY DEF WorkersOK, TypeOK
<1>4. NoOrphanTailer'
  BY DEF NoOrphanTailer
<1> QED BY <1>1, <1>2, <1>3, <1>4

\* The steps of a discovery before it touches the maps, and a failed tailer.
LEMMA DiscoverInv ==
  ASSUME WatcherInv, NEW w \in Workers,
         Scan(w) \/ Watch(w) \/ Swap(w) \/ Retry(w) \/ TailerFails(w)
  PROVE  WatcherInv'
<1>1. /\ workers[w] \in Worker /\ WorkerOK(workers[w], Len(pool)) /\ Len(pool) \in Nat
      /\ workers[w].pc # "idle" /\ workers[w].agent \in Agents
      /\ dirWatch \in [Agents -> Int] /\ workers \in [Workers -> Worker]
  <2>1. /\ workers \in [Workers -> Worker] /\ Len(pool) \in Nat
        /\ dirWatch \in [Agents -> Int] /\ WorkerOK(workers[w], Len(pool))
    BY DEF WatcherInv, TypeOK, WorkersOK
  <2>2. workers[w].pc # "idle"
    BY DEF Scan, Watch, Swap, Retry, TailerFails
  <2>3. workers[w].agent \in Agents
    BY <2>1, <2>2 DEF WorkerOK
  <2> QED BY <2>1, <2>2, <2>3
<1>2. CASE Scan(w)
  <2> DEFINE a == workers[w].agent
             s == {f \in Subagents \cap OnDisk : Owner[f] = a}
  <2>1. PICK m \in Files \cup {None} :
          /\ IF MainFilesOf(a) \cap OnDisk = {} THEN m = None ELSE Newest(a, m)
          /\ workers' = [workers EXCEPT ![w].pc = "watch", ![w].main = m, ![w].subs = s]
    BY <1>2 DEF Scan
  <2> DEFINE k == [workers[w] EXCEPT !.pc = "watch", !.main = m, !.subs = s]
  <2>2. m # None => m \in MainFilesOf(a)
    BY <2>1 DEF Newest
  <2>3. s \in SUBSET Files /\ s \subseteq Subagents
    BY WatcherAssumption
  <2>4. k \in Worker /\ WorkerOK(k, Len(pool))
    BY <1>1, <2>2, <2>3 DEF Worker, WorkerOK
  <2>5. workers' = [workers EXCEPT ![w] = k]
    BY <1>1, <2>1
  <2> HIDE DEF k
  <2> QED BY <1>1, <1>2, <2>4, <2>5, WorkerStepInv DEF Scan
<1>3. CASE Watch(w)
  <2> DEFINE k == [workers[w] EXCEPT !.pc = "swap"]
  <2>1. k \in Worker /\ WorkerOK(k, Len(pool))
    BY <1>1 DEF Worker, WorkerOK
  <2>2. workers' = [workers EXCEPT ![w] = k]
    BY <1>1, <1>3 DEF Watch
  <2> HIDE DEF k
  <2> QED BY <1>1, <1>3, <2>1, <2>2, WorkerStepInv DEF Watch
<1>6. CASE Swap(w)
  <2> DEFINE k == [workers[w] EXCEPT !.pc = IF FoundNothing(w) THEN "retry" ELSE "install",
                                     !.held = 0]
  <2>1. k \in Worker /\ WorkerOK(k, Len(pool))
    BY <1>1 DEF Worker, WorkerOK
  <2>2. workers' = [workers EXCEPT ![w] = k]
    BY <1>1, <1>6 DEF Swap
  <2>3. dirWatch' \in [Agents -> Int]
    <3>1. workers[w].held \in Int
      BY <1>1 DEF Worker
    <3>2. dirWatch' = [dirWatch EXCEPT ![workers[w].agent] = workers[w].held]
      BY <1>6 DEF Swap
    <3> QED BY <1>1, <3>1, <3>2
  <2> HIDE DEF k
  <2> QED BY <1>6, <2>1, <2>2, <2>3, WorkerStepInv DEF Swap
<1>4. CASE Retry(w)
  <2> DEFINE k == [workers[w] EXCEPT !.pc = "scan"]
  <2>1. k \in Worker /\ WorkerOK(k, Len(pool))
    BY <1>1 DEF Worker, WorkerOK
  <2>2. workers' = [workers EXCEPT ![w] = k]
    BY <1>1, <1>4 DEF Retry
  <2> HIDE DEF k
  <2> QED BY <1>1, <1>4, <2>1, <2>2, WorkerStepInv DEF Retry
<1>5. CASE TailerFails(w)
  <2>1. PICK s \in SUBSET workers[w].subs : workers' = [workers EXCEPT ![w] = Rest(w, s)]
    BY <1>5 DEF TailerFails
  <2>2. Rest(w, s) \in Worker /\ WorkerOK(Rest(w, s), Len(pool))
    BY <1>1, RestFacts
  <2> QED BY <1>1, <1>5, <2>1, <2>2, WorkerStepInv DEF TailerFails
<1> QED BY <1>2, <1>3, <1>4, <1>5, <1>6

\* A longer pool takes nothing away from the other discoveries.
LEMMA OthersOK ==
  ASSUME WatcherInv, NEW w \in Workers, NEW k \in Worker, NEW n \in Nat,
         Len(pool) <= n, WorkerOK(k, n), workers' = [workers EXCEPT ![w] = k]
  PROVE  /\ workers' \in [Workers -> Worker]
         /\ \A v \in Workers : WorkerOK(workers'[v], n)
<1>1. workers \in [Workers -> Worker] /\ Len(pool) \in Nat
  BY DEF WatcherInv, TypeOK
<1>2. \A v \in Workers : WorkerOK(workers[v], n)
  BY <1>1 DEF WatcherInv, WorkersOK, WorkerOK, Worker
<1> QED BY <1>1, <1>2

\* The new stream is filed under its conversation and the agent's previous
\* main conversation, if another, is off the map and stopped.
LEMMA InstallMainInv ==
  ASSUME WatcherInv, NEW w \in Workers, InstallMain(w)
  PROVE  WatcherInv'
<1> USE DEF WatcherInv
<1> DEFINE f == workers[w].main
           a == workers[w].agent
           old == IF active[a] = f THEN None ELSE active[a]
           dead == {streams[f]} \cup (IF old = None THEN {} ELSE {streams[old]})
           n == Len(pool) + 1
           k == [workers[w] EXCEPT !.pc = "emit", !.obj = n, !.old = old]
<1>1. /\ workers \in [Workers -> Worker] /\ workers[w] \in Worker
      /\ WorkerOK(workers[w], Len(pool)) /\ workers[w].pc = "install"
      /\ a \in Agents /\ f \in MainFilesOf(a) /\ f \in Files /\ Owner[f] = a /\ f # None
      /\ active \in [Agents -> Files \cup {None}] /\ streams \in [Files -> 0..Len(pool)]
      /\ Len(pool) \in Nat /\ pool \in Seq(Stream) /\ DOMAIN pool = 1..Len(pool)
  BY DEF InstallMain, TypeOK, WorkersOK, WorkerOK, MainFilesOf
<1>2. /\ pool' = NewStream(f, dead)
      /\ streams' = [g \in Files |-> IF g = f THEN n ELSE IF g = old THEN 0 ELSE streams[g]]
      /\ active' = [active EXCEPT ![a] = f]
      /\ workers' = [workers EXCEPT ![w] = k]
      /\ UNCHANGED <<present, regEvents, writes, disk, dirWatch, events, loop>>
  BY <1>1 DEF InstallMain
<1>3. /\ pool' \in Seq(Stream) /\ Len(pool') = n /\ DOMAIN pool' = 1..n /\ pool'[n].conv = f
      /\ \A i \in 1..Len(pool) : /\ pool'[i].conv = pool[i].conv
                                 /\ pool'[i].running => pool[i].running /\ i \notin dead
  <2> HIDE DEF dead, f
  <2>1. /\ NewStream(f, dead) \in Seq(Stream) /\ Len(NewStream(f, dead)) = Len(pool) + 1
        /\ DOMAIN NewStream(f, dead) = 1..Len(pool) + 1
        /\ NewStream(f, dead)[Len(pool) + 1].conv = f
        /\ \A i \in 1..Len(pool) :
             /\ NewStream(f, dead)[i].conv = pool[i].conv
             /\ NewStream(f, dead)[i].running => pool[i].running /\ i \notin dead
    BY <1>1, NewStreamFacts
  <2> QED BY <1>2, <2>1
<1>4. old \in MainFilesOf(a) \cup {None} /\ old # f /\ old \in Files \cup {None}
  BY <1>1, WatcherAssumption DEF ActiveIsMain
<1>5. workers' \in [Workers -> Worker] /\ WorkersOK'
  <2>1. n \in Nat /\ Len(pool) <= n /\ n \in 1..n
    BY <1>1
  <2>2. k \in Worker
    BY <1>1, <1>4, <2>1 DEF Worker
  <2>3. WorkerOK(k, n)
    BY <1>1, <2>1 DEF WorkerOK, Worker
  <2> HIDE DEF k, n
  <2> QED BY <1>2, <1>3, <2>1, <2>2, <2>3, OthersOK DEF WorkersOK
<1>6. streams' \in [Files -> 0..n] /\ active' \in [Agents -> Files \cup {None}]
  BY <1>1, <1>2
<1>7. TypeOK'
  <2> HIDE DEF n
  <2> QED BY <1>2, <1>3, <1>5, <1>6 DEF TypeOK
<1> HIDE DEF old, dead, k
<1>8. StreamsMatch'
  <2> SUFFICES ASSUME NEW g \in Files, streams'[g] # 0
               PROVE  pool'[streams'[g]].conv = g
    BY DEF StreamsMatch
  <2>1. CASE g = f
    BY <1>2, <1>3, <2>1
  <2>2. CASE g # f
    <3>1. streams'[g] = streams[g] /\ streams[g] # 0
      BY <1>2, <2>2
    <3>2. streams[g] \in 1..Len(pool) /\ pool[streams[g]].conv = g
      BY <3>1, StreamFacts
    <3> QED BY <1>3, <3>1, <3>2
  <2> QED BY <2>1, <2>2
<1>9. ActiveIsMain' /\ LoopOK'
  BY <1>1, <1>2 DEF ActiveIsMain, LoopOK
<1>10. MainStreamIsActive'
  <2> SUFFICES ASSUME NEW b \in Agents
               PROVE {g \in MainFilesOf(b) : streams'[g] # 0} =
                       IF active'[b] = None THEN {} ELSE {active'[b]}
    BY DEF MainStreamIsActive
  <2>1. {g \in MainFilesOf(b) : streams[g] # 0} = IF active[b] = None THEN {} ELSE {active[b]}
    BY DEF MainStreamIsActive
  <2>2. \A g \in MainFilesOf(b) : g \in Files /\ Owner[g] = b /\ g # None
    BY WatcherAssumption DEF MainFilesOf
  <2>3. CASE b = a
    <3>1. streams'[f] = n /\ n # 0 /\ active'[b] = f
      BY <1>1, <1>2, <2>3
    <3>2. \A g \in MainFilesOf(b) : g # f => streams'[g] = 0
      BY <1>1, <1>2, <2>1, <2>2, <2>3 DEF old
    <3> HIDE DEF n, f
    <3> QED BY <1>1, <2>3, <3>1, <3>2
  <2>4. CASE b # a
    <3>1. \A g \in MainFilesOf(b) : streams'[g] = streams[g]
      BY <1>1, <1>2, <1>4, <2>2, <2>4 DEF MainFilesOf
    <3>2. active'[b] = active[b]
      BY <1>1, <1>2, <2>4
    <3> QED BY <2>1, <3>1, <3>2
  <2> QED BY <2>3, <2>4
<1>11. NoOrphanTailer'
  <2> SUFFICES ASSUME NEW i \in 1..n, pool'[i].running
               PROVE  streams'[pool'[i].conv] = i \/ loop'.obj = i
    BY <1>3 DEF NoOrphanTailer
  <2>1. CASE i = n
    BY <1>1, <1>2, <1>3, <2>1
  <2>2. CASE i # n
    <3>1. i \in 1..Len(pool)
      BY <1>1, <2>2
    <3>2. pool[i].running /\ i \notin dead /\ pool'[i].conv = pool[i].conv /\ pool[i].conv \in Files
      BY <1>3, <3>1, PoolFacts
    <3>3. streams[pool[i].conv] = i \/ loop.obj = i
      BY <1>1, <3>1, <3>2 DEF NoOrphanTailer
    <3>4. streams[pool[i].conv] = i => pool[i].conv # f /\ pool[i].conv # old
      BY <3>2, WatcherAssumption DEF dead
    <3> QED BY <1>2, <3>2, <3>3, <3>4
  <2> QED BY <2>1, <2>2
<1> QED BY <1>5, <1>7, <1>8, <1>9, <1>10, <1>11

\* A subagent's stream takes the place of the one filed under its file.
LEMMA InstallSubInv ==
  ASSUME WatcherInv, NEW w \in Workers, NEW f \in Files, InstallSub(w, f)
  PROVE  WatcherInv'
<1> USE DEF WatcherInv
<1> DEFINE n == Len(pool) + 1
           k == Rest(w, workers[w].subs \ {f})
<1>1. /\ workers[w] \in Worker /\ workers[w].pc # "idle"
      /\ f \in Subagents /\ f \in Files /\ streams \in [Files -> 0..Len(pool)]
      /\ Len(pool) \in Nat /\ pool \in Seq(Stream) /\ DOMAIN pool = 1..Len(pool)
  BY DEF InstallSub, TypeOK, WorkersOK, WorkerOK
<1>2. /\ pool' = NewStream(f, {streams[f]})
      /\ streams' = [streams EXCEPT ![f] = n]
      /\ workers' = [workers EXCEPT ![w] = k]
      /\ UNCHANGED <<present, regEvents, writes, disk, dirWatch, active, events, loop>>
  BY DEF InstallSub
<1>3. /\ pool' \in Seq(Stream) /\ Len(pool') = n /\ DOMAIN pool' = 1..n /\ pool'[n].conv = f
      /\ \A i \in 1..Len(pool) : /\ pool'[i].conv = pool[i].conv
                                 /\ pool'[i].running => pool[i].running /\ i # streams[f]
  BY <1>1, <1>2, NewStreamFacts
<1>4. workers' \in [Workers -> Worker] /\ WorkersOK'
  <2>1. n \in Nat /\ Len(pool) <= n
    BY <1>1
  <2> HIDE DEF n
  <2>2. k \in Worker /\ WorkerOK(k, n)
    BY <1>1, <2>1, RestFacts
  <2> HIDE DEF k
  <2> QED BY <1>2, <1>3, <2>1, <2>2, OthersOK DEF WorkersOK
<1>5. streams' \in [Files -> 0..n]
  BY <1>1, <1>2
<1>6. TypeOK'
  <2> HIDE DEF n
  <2> QED BY <1>2, <1>3, <1>4, <1>5 DEF TypeOK
<1>7. StreamsMatch'
  <2> SUFFICES ASSUME NEW g \in Files, streams'[g] # 0
               PROVE  pool'[streams'[g]].conv = g
    BY DEF StreamsMatch
  <2>1. CASE g = f
    BY <1>1, <1>2, <1>3, <2>1
  <2>2. CASE g # f
    <3>1. streams'[g] = streams[g] /\ streams[g] # 0
      BY <1>1, <1>2, <2>2
    <3>2. streams[g] \in 1..Len(pool) /\ pool[streams[g]].conv = g
      BY <3>1, StreamFacts
    <3> QED BY <1>3, <3>1, <3>2
  <2> QED BY <2>1, <2>2
<1>8. ActiveIsMain' /\ LoopOK'
  BY <1>2 DEF ActiveIsMain, LoopOK
<1>9. MainStreamIsActive'
  <2>1. \A a \in Agents : \A g \in MainFilesOf(a) : streams'[g] = streams[g]
    BY <1>1, <1>2 DEF MainFilesOf, IsMain
  <2> QED BY <1>2, <2>1 DEF MainStreamIsActive
<1>10. NoOrphanTailer'
  <2> SUFFICES ASSUME NEW i \in 1..n, pool'[i].running
               PROVE  streams'[pool'[i].conv] = i \/ loop'.obj = i
    BY <1>3 DEF NoOrphanTailer
  <2>1. CASE i = n
    BY <1>1, <1>2, <1>3, <2>1
  <2>2. CASE i # n
    <3>1. i \in 1..Len(pool)
      BY <1>1, <2>2
    <3>2. pool[i].running /\ i # streams[f] /\ pool'[i].conv = pool[i].conv /\ pool[i].conv \in Files
      BY <1>3, <3>1, PoolFacts
    <3>3. streams[pool[i].conv] = i \/ loop.obj = i
      BY <1>1, <3>1, <3>2 DEF NoOrphanTailer
    <3> QED BY <1>1, <1>2, <3>2, <3>3
  <2> QED BY <2>1, <2>2
<1> QED BY <1>4, <1>6, <1>7, <1>8, <1>9, <1>10

\* The lifecycle event goes out and the new stream is pumped.
LEMMA EmitInv ==
  ASSUME WatcherInv, NEW w \in Workers, Emit(w)
  PROVE  WatcherInv'
<1> USE DEF WatcherInv
<1> DEFINE k == workers[w]
           e == [type |-> IF k.old = None THEN "conversation-started"
                          ELSE "conversation-switched",
                 agent |-> k.agent, old |-> k.old, new |-> k.main]
<1>1. /\ k \in Worker /\ k.pc = "emit" /\ k.agent \in Agents /\ k.obj \in 1..Len(pool)
      /\ k.main \in Files /\ Len(pool) \in Nat /\ pool \in Seq(Stream)
      /\ DOMAIN pool = 1..Len(pool) /\ pool[k.obj] \in Stream
  BY DEF Emit, TypeOK, WorkersOK, WorkerOK, MainFilesOf
<1>2. /\ events' = Append(events, e) /\ RoomForEvent
      /\ pool' = [pool EXCEPT ![k.obj] = Announced(k.obj)]
      /\ workers' = [workers EXCEPT ![w] = Rest(w, k.subs)]
      /\ UNCHANGED <<present, regEvents, writes, disk, dirWatch, streams, active, loop>>
  BY DEF Emit
<1>3. e \in LifecycleEvent
  BY <1>1 DEF LifecycleEvent, EventTypes, Worker
<1>4. events' \in Seq(LifecycleEvent) /\ Len(events') <= EventsCap
  <2> HIDE DEF e
  <2> QED BY <1>2, <1>3, EmitFacts DEF TypeOK
<1>5. /\ pool' \in Seq(Stream) /\ Len(pool') = Len(pool) /\ DOMAIN pool' = 1..Len(pool)
      /\ \A i \in 1..Len(pool) : /\ pool'[i].conv = pool[i].conv
                                 /\ pool'[i].running = pool[i].running
  <2>1. /\ Announced(k.obj) \in Stream /\ Announced(k.obj).conv = pool[k.obj].conv
        /\ Announced(k.obj).running = pool[k.obj].running
    BY <1>1, AnnouncedFacts
  <2> HIDE DEF k
  <2> QED BY <1>1, <1>2, <2>1
<1>6. workers' \in [Workers -> Worker] /\ WorkersOK'
  <2>1. Rest(w, k.subs) \in Worker /\ WorkerOK(Rest(w, k.subs), Len(pool))
    BY <1>1, RestFacts
  <2>2. /\ workers' \in [Workers -> Worker]
        /\ \A v \in Workers : WorkerOK(workers'[v], Len(pool))
    <3> DEFINE r == Rest(w, k.subs)
    <3>1. /\ r \in Worker /\ WorkerOK(r, Len(pool)) /\ workers' = [workers EXCEPT ![w] = r]
          /\ Len(pool) \in Nat /\ Len(pool) <= Len(pool)
      BY <1>1, <1>2, <2>1
    <3> HIDE DEF r, k
    <3> QED BY <3>1, OthersOK
  <2> QED BY <1>5, <2>2 DEF WorkersOK
<1>7. TypeOK'
  BY <1>2, <1>4, <1>5, <1>6 DEF TypeOK
<1>8. StreamsMatch'
  BY <1>2, <1>5 DEF StreamsMatch, TypeOK
<1>9. (ActiveIsMain /\ LoopOK /\ MainStreamIsActive)'
  BY <1>2 DEF ActiveIsMain, LoopOK, MainStreamIsActive
<1>10. NoOrphanTailer'
  BY <1>1, <1>2, <1>5 DEF NoOrphanTailer
<1> QED BY <1>6, <1>7, <1>8, <1>9, <1>10

----------------------------------------------------------------------------
\* Every step of every goroutine preserves the invariant.
LEMMA NextWatcherInv == WatcherInv /\ [Next]_watcherVars => WatcherInv'
<1> SUFFICES ASSUME WatcherInv, [Next]_watcherVars PROVE WatcherInv'
  OBVIOUS
<1>1. CASE Environment \/ Consume
  BY <1>1, EnvironmentInv
<1>2. CASE WatchLoop \/ \E a \in Agents : DirEvent(a)
  BY <1>2, LoopSpawnInv, LoopRemovedInv, LoopCancelInv DEF WatchLoop
<1>3. CASE \E w \in Workers : Discovery(w)
  BY <1>3, DiscoverInv, InstallMainInv, InstallSubInv, EmitInv DEF Discovery
<1>4. CASE UNCHANGED watcherVars
  BY <1>4 DEF watcherVars, WatcherInv, TypeOK, StreamsMatch, ActiveIsMain, LoopOK,
              WorkersOK, MainStreamIsActive, NoOrphanTailer
<1> QED BY <1>1, <1>2, <1>3, <1>4 DEF Next, WatcherNext

\* The inductive invariant, under every interleaving of the goroutines.
THEOREM WatcherInvariant == Spec => []WatcherInv
BY InitWatcherInv, NextWatcherInv, PTL DEF Spec

\* Types, and the bound of the events channel: emitEvent never exceeds it.
THEOREM WatcherTypes == Spec => []TypeOK
<1>1. WatcherInv => TypeOK
  BY DEF WatcherInv
<1> QED BY <1>1, WatcherInvariant, PTL

\* w.streams and w.activeByAgent agree, however discoveries and removals
\* interleave.
THEOREM MapsAgree == Spec => []MainStreamIsActive
<1>1. WatcherInv => MainStreamIsActive
  BY DEF WatcherInv
<1> QED BY <1>1, WatcherInvariant, PTL

\* A replaced stream never keeps a running tailer.
THEOREM ReplacedTailersStop == Spec => []NoOrphanTailer
<1>1. WatcherInv => NoOrphanTailer
  BY DEF WatcherInv
<1> QED BY <1>1, WatcherInvariant, PTL
=============================================================================
