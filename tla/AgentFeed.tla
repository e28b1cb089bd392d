------------------------------ MODULE AgentFeed ------------------------------
(***************************************************************************)
(* The agents that a client of the adapter believes in: internal/wsadapter, *)
(* the registry's map and its events, and adapter.forwardEvents.            *)
(*                                                                         *)
(* Processes: the registry's scan, which changes the map and then sends an  *)
(* event for each change; forwardEvents, which broadcasts event after event *)
(* and holds Server.mu meanwhile; of each client the read pump, which       *)
(* handles one request after the other, and the write pump.  A client       *)
(* replaces what it knows by a list and changes it by an event.             *)
(*                                                                         *)
(* How a scan finds the agents is Registry's business.  Other messages, of  *)
(* which a client may have many, are left out: what they do here is fill    *)
(* the client's queue, and it is small.                                     *)
(***************************************************************************)
EXTENDS Integers, Sequences, FiniteSets

CONSTANTS
  Agents,
  Clients,
  Slow,         \* clients whose connection may stop taking messages
  EventsCap,    \* capacity of Registry.events (100)
  SendCap,      \* capacity of Client.send (256)
  Nobody,
  MaxScans,     \* bound: scans that find a change
  MaxRequests   \* bound: requests of each client

ASSUME FeedAssumption ==
  /\ Slow \subseteq Clients /\ Nobody \notin Clients
  /\ EventsCap \in Nat \ {0} /\ SendCap \in Nat \ {0}
  /\ MaxScans \in Nat /\ MaxRequests \in [Clients -> Nat]

VARIABLES
  agents,      \* Registry.agents: "none" for those not in the map
  scans,       \* history: numbers the scans
  pending,     \* pendingEvents of the scan that is sending
  events,      \* Registry.events
  cast,        \* forwardEvents: the event, who is still to be asked, who gets it
  members,     \* Server.clients
  agentSub,    \* Client.agentSub
  pump,        \* ReadPump: what it is doing, and the list GetAgents returned
  send,        \* Client.send
  asked,       \* counted by the bound
  view,        \* what the client knows
  dropped,     \* history: a message was dropped since the last list was made
  overtaken    \* history: and a newer event than that list was sent before it

registryVars == <<agents, scans, pending, events>>
clientVars == <<agentSub, pump, asked>>
outVars == <<send, dropped, overtaken>>
vars == <<registryVars, cast, members, clientVars, outVars, view>>

----------------------------------------------------------------------------
States == {"none", "detached", "attached"}
AgentMap == [Agents -> States]
NoAgents == [a \in Agents |-> "none"]

\* RegistryEvent, and the message made of it: state is "none" for "removed".
Event == [kind : {"event"}, agent : Agents, state : States, scan : Nat]
List == [kind : {"list"}, agents : AgentMap, scan : Nat]
Done == [kind |-> "ok"]
Message == Event \cup List \cup {Done}

NoList == [kind |-> "list", agents |-> NoAgents, scan |-> 0]
NoCast == [msgs |-> <<>>, todo |-> {}, to |-> Nobody]

Pump == [pc : {"idle", "subscribe", "get", "list", "unsubscribe", "reply", "send"}, list : List]

Init ==
  /\ agents = NoAgents /\ scans = 0 /\ pending = {} /\ events = <<>>
  /\ cast = NoCast
  /\ members = {}
  /\ agentSub = [c \in Clients |-> FALSE]
  /\ pump = [c \in Clients |-> [pc |-> "idle", list |-> NoList]]
  /\ send = [c \in Clients |-> <<>>]
  /\ asked = [c \in Clients |-> 0]
  /\ view = [c \in Clients |-> NoAgents]
  /\ dropped = [c \in Clients |-> FALSE] /\ overtaken = [c \in Clients |-> FALSE]

----------------------------------------------------------------------------
(* The registry. *)

\* The end of a scan that finds something changed, under Registry.mu.
Scan ==
  /\ pending = {}
  /\ scans < MaxScans
  /\ \E found \in AgentMap \ {agents} :
       /\ agents' = found
       /\ pending' = {[kind |-> "event", agent |-> a, state |-> found[a], scan |-> scans + 1] :
                        a \in {b \in Agents : found[b] # agents[b]}}
  /\ scans' = scans + 1
  /\ UNCHANGED <<events, cast, members, clientVars, outVars, view>>

\* Without the lock: the removals, then the others in the order of a map.
SendEvent ==
  /\ Len(events) < EventsCap
  /\ \E e \in pending :
       /\ e.state # "none" => \A d \in pending : d.state # "none"
       /\ pending' = pending \ {e}
       /\ events' = Append(events, e)
  /\ UNCHANGED <<agents, scans, cast, members, clientVars, outVars, view>>

----------------------------------------------------------------------------
(* SendText: a message for which there is no room is dropped. *)

\* Mutant of Queue: it is never full.
QueueAnyway(c, m) ==
  /\ send' = [send EXCEPT ![c] = Append(@, m)]
  /\ UNCHANGED dropped

Queue(c, m) ==
  IF Len(send[c]) < SendCap
  THEN send' = [send EXCEPT ![c] = Append(@, m)] /\ UNCHANGED dropped
  ELSE dropped' = [dropped EXCEPT ![c] = TRUE] /\ UNCHANGED send

\* Server.mu is unlocked when nobody is left.
Casting(msgs, todo, to) ==
  cast' = IF todo = {} /\ to = Nobody THEN NoCast ELSE [msgs |-> msgs, todo |-> todo, to |-> to]

\* forwardEvents takes an event and BroadcastToAgentSubscribers locks Server.mu ...
TakeEvent ==
  /\ cast.msgs = <<>>
  /\ events # <<>>
  /\ Casting(<<Head(events)>>, members, Nobody)
  /\ events' = Tail(events)
  /\ UNCHANGED <<agents, scans, pending, members, clientVars, outVars, view>>

\* ... reads the flag of one client after the other ...
AskClient(c) ==
  /\ c \in cast.todo /\ cast.to = Nobody
  /\ Casting(cast.msgs, cast.todo \ {c}, IF agentSub[c] THEN c ELSE Nobody)
  /\ UNCHANGED <<registryVars, members, clientVars, outVars, view>>

\* A newer event than the list that c's read pump has and has not sent yet.
Overtakes(c, e) == pump[c].pc = "send" /\ e.scan > pump[c].list.scan

\* Mutant of SendToClient: it waits until the client's queue has room.
SendToClientWaits(c) ==
  /\ cast.to = c
  /\ Len(send[c]) < SendCap
  /\ Queue(c, cast.msgs[1])
  /\ overtaken' = [overtaken EXCEPT ![c] = @ \/ Overtakes(c, cast.msgs[1])]
  /\ Casting(cast.msgs, cast.todo, Nobody)
  /\ UNCHANGED <<registryVars, members, clientVars, view>>

\* ... and sends to it.
SendToClient(c) ==
  /\ cast.to = c
  /\ Queue(c, cast.msgs[1])
  /\ overtaken' = [overtaken EXCEPT ![c] = @ \/ Overtakes(c, cast.msgs[1])]
  /\ Casting(cast.msgs, cast.todo, Nobody)
  /\ UNCHANGED <<registryVars, members, clientVars, view>>

Forward == TakeEvent \/ \E c \in Clients : AskClient(c) \/ SendToClient(c)

----------------------------------------------------------------------------
(* A client. *)

Goes(c, pc) == pump' = [pump EXCEPT ![c] = [pc |-> pc, list |-> @.list]]

\* ServeHTTP; a client comes once.
Connect(c) ==
  /\ c \notin members /\ asked[c] = 0
  /\ cast.msgs = <<>>
  /\ members' = members \cup {c}
  /\ UNCHANGED <<registryVars, cast, clientVars, outVars, view>>

\* RemoveClient takes the client from the map before Close resets its flag: when its
\* ReadPump has returned, or in CloseAll, which waits for no handler: but whatever
\* one still does, nothing reaches the client, and what did is forgotten (bound: one
\* that has not asked for anything stays).
Disconnect(c) ==
  /\ c \in members /\ asked[c] > 0
  /\ cast.msgs = <<>>
  /\ members' = members \ {c}
  /\ agentSub' = [agentSub EXCEPT ![c] = FALSE]
  /\ pump' = [pump EXCEPT ![c] = [pc |-> "idle", list |-> NoList]]
  /\ send' = [send EXCEPT ![c] = <<>>]
  /\ view' = [view EXCEPT ![c] = NoAgents]
  /\ asked' = [asked EXCEPT ![c] = MaxRequests[c]]
  /\ dropped' = [dropped EXCEPT ![c] = FALSE]
  /\ overtaken' = [overtaken EXCEPT ![c] = FALSE]
  /\ UNCHANGED <<registryVars, cast>>

Request(c, request) ==
  /\ c \in members /\ pump[c].pc = "idle"
  /\ asked[c] < MaxRequests[c]
  /\ asked' = [asked EXCEPT ![c] = @ + 1]
  /\ Goes(c, request)
  /\ UNCHANGED <<registryVars, cast, members, agentSub, outVars, view>>

SetsFlag(c, pc) ==
  /\ agentSub' = [agentSub EXCEPT ![c] = TRUE]
  /\ Goes(c, pc)
  /\ UNCHANGED <<registryVars, cast, members, asked, outVars, view>>

\* GetAgents
GetsList(c, pc) ==
  /\ pump' = [pump EXCEPT ![c] =
                [pc |-> pc, list |-> [kind |-> "list", agents |-> agents, scan |-> scans]]]
  /\ dropped' = [dropped EXCEPT ![c] = FALSE]
  /\ overtaken' = [overtaken EXCEPT ![c] = FALSE]
  /\ UNCHANGED <<registryVars, cast, members, agentSub, asked, send, view>>

\* Mutant of SubscribeAgents: the list is made before the flag is set.
SubscribeAfterList(c) ==
  \/ pump[c].pc = "subscribe" /\ GetsList(c, "get")
  \/ pump[c].pc = "get" /\ SetsFlag(c, "send")

\* handleSubscribeAgents, up to its response.
SubscribeAgents(c) ==
  \/ pump[c].pc = "subscribe" /\ SetsFlag(c, "get")
  \/ pump[c].pc = "get" /\ GetsList(c, "send")

\* handleListAgents, up to its response.
ListAgents(c) == pump[c].pc = "list" /\ GetsList(c, "send")

\* The response of either.
SendList(c) ==
  /\ pump[c].pc = "send"
  /\ Queue(c, pump[c].list)
  /\ pump' = [pump EXCEPT ![c] = [pc |-> "idle", list |-> NoList]]
  /\ UNCHANGED <<registryVars, cast, members, agentSub, asked, overtaken, view>>

\* handleUnsubscribeAgents
UnsubscribeAgents(c) ==
  \/ /\ pump[c].pc = "unsubscribe"
     /\ agentSub' = [agentSub EXCEPT ![c] = FALSE]
     /\ Goes(c, "reply")
     /\ UNCHANGED <<registryVars, cast, members, asked, outVars, view>>
  \/ /\ pump[c].pc = "reply"
     /\ Queue(c, Done)
     /\ Goes(c, "idle")
     /\ UNCHANGED <<registryVars, cast, members, agentSub, asked, overtaken, view>>

Handle(c) == SubscribeAgents(c) \/ ListAgents(c) \/ SendList(c) \/ UnsubscribeAgents(c)

\* A list tells of every agent, an event of its own.
Tells(m, a) == m.kind = "list" \/ (m.kind = "event" /\ m.agent = a)
Told(m, a) == IF m.kind = "list" THEN m.agents[a] ELSE m.state

\* What a client makes of a message.
After(known, m) == [a \in Agents |-> IF Tells(m, a) THEN Told(m, a) ELSE known[a]]

WritePump(c) ==
  /\ c \in members
  /\ send[c] # <<>>
  /\ view' = [view EXCEPT ![c] = After(@, Head(send[c]))]
  /\ send' = [send EXCEPT ![c] = Tail(@)]
  /\ UNCHANGED <<registryVars, cast, members, clientVars, dropped, overtaken>>

----------------------------------------------------------------------------
FeedNext ==
  \/ Scan \/ SendEvent \/ Forward
  \/ \E c \in Clients :
       \/ Connect(c) \/ Disconnect(c)
       \/ \E request \in {"subscribe", "list", "unsubscribe"} : Request(c, request)
       \/ Handle(c) \/ WritePump(c)

\* Goroutines that can go on do so; what a slow client's connection does is up to it.
FeedFairness ==
  /\ WF_vars(SendEvent) /\ WF_vars(Forward)
  /\ \A c \in Clients : WF_vars(Handle(c))
  /\ \A c \in Clients \ Slow : WF_vars(WritePump(c))

FeedSpec == Init /\ [][FeedNext]_vars
FairFeedSpec == FeedSpec /\ FeedFairness

----------------------------------------------------------------------------
(***************************************************************************)
(* Properties.                                                             *)
(***************************************************************************)
\* Types; and the queues have their capacities.
FeedTypeOK ==
  /\ agents \in AgentMap /\ scans \in Nat
  /\ pending \subseteq Event
  /\ events \in Seq(Event) /\ Len(events) <= EventsCap
  /\ cast.msgs \in Seq(Event) /\ Len(cast.msgs) <= 1
  /\ cast.todo \subseteq members /\ cast.to \in members \cup {Nobody}
  /\ members \subseteq Clients
  /\ agentSub \in [Clients -> BOOLEAN]
  /\ pump \in [Clients -> Pump]
  /\ send \in [Clients -> Seq(Message)]
  /\ \A c \in Clients : Len(send[c]) <= SendCap
  /\ asked \in [Clients -> Nat]
  /\ view \in [Clients -> AgentMap]
  /\ dropped \in [Clients -> BOOLEAN] /\ overtaken \in [Clients -> BOOLEAN]

\* The client has subscribed and its list has been made.
Follows(c) == c \in members /\ agentSub[c] /\ pump[c].pc \notin {"subscribe", "get", "unsubscribe"}

\* Nothing of what it is owed was dropped, or sent in the wrong order.
Served(c) == Follows(c) /\ ~dropped[c] /\ ~overtaken[c]

\* What is on its way to a client before the events that are pending, in the order of
\* its arrival.
OnItsWay(c) ==
  send[c]
    \o (IF pump[c].pc = "send" THEN <<pump[c].list>> ELSE <<>>)
    \o (IF c \in cast.todo \cup {cast.to} THEN cast.msgs ELSE <<>>)
    \o events

\* No message of ms tells of a; the last one that does tells value; and one who knows
\* known of a, and then receives ms, ends up with value.
Silent(ms, a) == \A i \in DOMAIN ms : ~Tells(ms[i], a)
EndsWith(ms, a, value) ==
  \A i \in DOMAIN ms :
     Tells(ms[i], a) /\ (\A j \in DOMAIN ms : j > i => ~Tells(ms[j], a)) => Told(ms[i], a) = value
Learns(known, ms, a, value) == EndsWith(ms, a, value) /\ (Silent(ms, a) => known = value)

\* specs/adapter-api.md:174 "responds with the current agent list, then pushes
\* agent-added / agent-removed events as agents come and go": whatever scans,
\* broadcasts and requests are under way, what a subscriber has been sent and will
\* be sent makes it know the registry's agents.  Excepted is a client that a message
\* was dropped for, or one that was sent an event before the older list.
NoChangeIsMissed ==
  \A c \in Clients : Served(c) =>
    \A a \in Agents :
       LET last == {e \in pending : e.agent = a} IN
       /\ \A e \in last : e.state = agents[a]
       /\ last = {} => Learns(view[c][a], OnItsWay(c), a, agents[a])

\* Each subscriber whose connection takes messages ends up with the registry's
\* agents, even if that of another one does not.
FollowersCatchUp ==
  \A c \in Clients \ Slow : <>[](Served(c) => view[c] = agents)
=============================================================================
