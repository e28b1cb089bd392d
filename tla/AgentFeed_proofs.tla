--------------------------- MODULE AgentFeed_proofs ---------------------------
(***************************************************************************)
(* Proofs about AgentFeed, for any agents and clients, any capacity of the *)
(* queues and any number of scans and requests: its types, and that what   *)
(* is on its way to a subscriber makes it know the registry's agents.      *)
(*                                                                         *)
(* The second is not inductive.  The messages on their way come from two   *)
(* goroutines: the list from the client's read pump, the events from the   *)
(* scan over Registry.events and the broadcast.  The inductive invariant   *)
(* says of each stage what it holds if the later ones hold nothing of an   *)
(* agent:                                                                  *)
(*   - the last event of an agent on its way to anybody tells the state it *)
(*     has in the map (PendingIsNew, ChainEndsRight);                      *)
(*   - a list that is made and not yet sent either is right of an agent,   *)
(*     or a newer event of that agent is on its way to the client: and one *)
(*     that is sent before the list is what overtaken records              *)
(*     (ListIsRightOrFollowed; ListIsOfScan);                              *)
(*   - once no event of an agent is on its way any more, the client's own  *)
(*     queue ends in the agent's state (QueueEndsRight).                   *)
(***************************************************************************)
EXTENDS AgentFeed, SequenceTheorems, TLAPS

----------------------------------------------------------------------------
(* What sequences of messages tell. *)

\* A message more.
LEMMA AppendTells ==
  ASSUME NEW S, NEW ms \in Seq(S), NEW m \in S, NEW a, NEW value
  PROVE  /\ Silent(Append(ms, m), a) <=> Silent(ms, a) /\ ~Tells(m, a)
         /\ Tells(m, a) /\ Told(m, a) = value => EndsWith(Append(ms, m), a, value)
         /\ ~Tells(m, a) /\ EndsWith(ms, a, value) => EndsWith(Append(ms, m), a, value)
<1> DEFINE new == Append(ms, m)
<1>1. /\ Len(ms) \in Nat /\ DOMAIN ms = 1 .. Len(ms)
      /\ Len(new) = Len(ms) + 1 /\ DOMAIN new = 1 .. Len(ms) + 1
      /\ \A i \in 1 .. Len(ms) : new[i] = ms[i]
      /\ new[Len(ms) + 1] = m
  OBVIOUS
<1> HIDE DEF new
<1>2. Silent(new, a) <=> Silent(ms, a) /\ ~Tells(m, a)
  <2>1. ASSUME Silent(new, a)  PROVE Silent(ms, a) /\ ~Tells(m, a)
    <3>1. \A i \in 1 .. Len(ms) + 1 : ~Tells(new[i], a)
      BY <2>1, <1>1 DEF Silent
    <3>2. \A i \in 1 .. Len(ms) : i \in 1 .. Len(ms) + 1
      BY <1>1
    <3>3. Len(ms) + 1 \in 1 .. Len(ms) + 1
      BY <1>1
    <3>4. ~Tells(m, a)
      BY <3>1, <3>3, <1>1, Zenon
    <3>5. \A i \in 1 .. Len(ms) : ~Tells(ms[i], a)
      BY <3>1, <3>2, <1>1, Zenon
    <3> QED BY <3>4, <3>5, <1>1 DEF Silent
  <2>2. ASSUME Silent(ms, a), ~Tells(m, a)  PROVE Silent(new, a)
    <3>1. ASSUME NEW i \in 1 .. Len(ms) + 1  PROVE ~Tells(new[i], a)
      <4>1. CASE i = Len(ms) + 1
        BY <4>1, <2>2, <1>1, Zenon
      <4>2. CASE i \in 1 .. Len(ms)
        BY <4>2, <2>2, <1>1, Zenon DEF Silent
      <4> QED BY <4>1, <4>2, <1>1
    <3> QED BY <3>1, <1>1 DEF Silent
  <2> QED BY <2>1, <2>2
<1>3. ASSUME Tells(m, a), Told(m, a) = value  PROVE EndsWith(new, a, value)
  <2> SUFFICES ASSUME NEW i \in 1 .. Len(ms) + 1,
                      \A j \in 1 .. Len(ms) + 1 : j > i => ~Tells(new[j], a)
               PROVE  Told(new[i], a) = value
    BY <1>1 DEF EndsWith
  <2>1. ~(Len(ms) + 1 > i)
    <3>1. Tells(new[Len(ms) + 1], a)
      BY <1>3, <1>1, Zenon
    <3>2. Len(ms) + 1 \in 1 .. Len(ms) + 1
      BY <1>1
    <3> QED BY <3>1, <3>2
  <2>2. i = Len(ms) + 1
    BY <2>1, <1>1
  <2> QED BY <2>2, <1>3, <1>1, Zenon
<1>4. ASSUME ~Tells(m, a), EndsWith(ms, a, value)  PROVE EndsWith(new, a, value)
  <2> SUFFICES ASSUME NEW i \in 1 .. Len(ms) + 1, Tells(new[i], a),
                      \A j \in 1 .. Len(ms) + 1 : j > i => ~Tells(new[j], a)
               PROVE  Told(new[i], a) = value
    BY <1>1 DEF EndsWith
  <2>1. i # Len(ms) + 1
    BY <1>4, <1>1, Zenon
  <2>2. i \in 1 .. Len(ms)
    BY <2>1, <1>1
  <2>3. \A j \in 1 .. Len(ms) : j \in 1 .. Len(ms) + 1
    BY <1>1
  <2>4. \A j \in 1 .. Len(ms) : j > i => ~Tells(ms[j], a)
    BY <2>3, <1>1, Zenon
  <2>5. Tells(ms[i], a) /\ new[i] = ms[i]
    BY <2>2, <1>1, Zenon
  <2>6. Told(ms[i], a) = value
    BY <2>2, <2>4, <2>5, <1>4, <1>1, Zenon DEF EndsWith
  <2> QED BY <2>5, <2>6, Zenon
<1> QED BY <1>2, <1>3, <1>4 DEF new

\* The first message is taken.
LEMMA TailTells ==
  ASSUME NEW S, NEW ms \in Seq(S), ms # <<>>, NEW a, NEW value
  PROVE  /\ Silent(ms, a) <=> ~Tells(Head(ms), a) /\ Silent(Tail(ms), a)
         /\ EndsWith(ms, a, value) => EndsWith(Tail(ms), a, value)
         /\ EndsWith(ms, a, value) /\ Silent(Tail(ms), a) /\ Tells(Head(ms), a)
              => Told(Head(ms), a) = value
<1> DEFINE rest == Tail(ms)
           m == Head(ms)
<1>1. /\ Len(ms) \in Nat /\ Len(ms) >= 1 /\ DOMAIN ms = 1 .. Len(ms)
      /\ Len(rest) = Len(ms) - 1 /\ DOMAIN rest = 1 .. Len(ms) - 1
      /\ ms[1] = m
  OBVIOUS
<1>2. \A i \in 1 .. Len(ms) - 1 : rest[i] = ms[i + 1]
  BY <1>1
<1> HIDE DEF rest, m
<1>3. \A i \in 1 .. Len(ms) : i = 1 \/ (i - 1 \in 1 .. Len(ms) - 1 /\ (i - 1) + 1 = i)
  BY <1>1
<1>4. \A i \in 1 .. Len(ms) - 1 : i + 1 \in 1 .. Len(ms)
  BY <1>1
<1>5. 1 \in 1 .. Len(ms)
  BY <1>1
<1>6. \A i \in 1 .. Len(ms) : i = 1 \/ (i - 1 \in 1 .. Len(ms) - 1 /\ rest[i - 1] = ms[i])
  BY <1>2, <1>3
<1>7. Silent(ms, a) <=> ~Tells(m, a) /\ Silent(rest, a)
  <2>1. ASSUME Silent(ms, a)  PROVE ~Tells(m, a) /\ Silent(rest, a)
    BY <2>1, <1>1, <1>2, <1>4, <1>5, Zenon DEF Silent
  <2>2. ASSUME ~Tells(m, a), Silent(rest, a)  PROVE Silent(ms, a)
    BY <2>2, <1>1, <1>6, Zenon DEF Silent
  <2> QED BY <2>1, <2>2
<1>8. ASSUME EndsWith(ms, a, value)  PROVE EndsWith(rest, a, value)
  <2> SUFFICES ASSUME NEW i \in 1 .. Len(ms) - 1, Tells(rest[i], a),
                      \A j \in 1 .. Len(ms) - 1 : j > i => ~Tells(rest[j], a)
               PROVE  Told(rest[i], a) = value
    BY <1>1 DEF EndsWith
  <2>1. ASSUME NEW j \in 1 .. Len(ms), j > i + 1  PROVE ~Tells(ms[j], a)
    <3>1. j - 1 \in 1 .. Len(ms) - 1 /\ j - 1 > i /\ rest[j - 1] = ms[j]
      BY <2>1, <1>1, <1>6
    <3>2. ~Tells(rest[j - 1], a)
      BY <3>1
    <3> QED BY <3>1, <3>2
  <2>2. i + 1 \in 1 .. Len(ms) /\ rest[i] = ms[i + 1]
    BY <1>2, <1>4
  <2>3. Told(ms[i + 1], a) = value
    BY <2>1, <2>2, <1>8, <1>1 DEF EndsWith
  <2> QED BY <2>2, <2>3
<1>9. ASSUME EndsWith(ms, a, value), Silent(rest, a), Tells(m, a)
      PROVE  Told(m, a) = value
  <2>1. ASSUME NEW j \in 1 .. Len(ms), j > 1  PROVE ~Tells(ms[j], a)
    <3>1. j - 1 \in 1 .. Len(ms) - 1 /\ rest[j - 1] = ms[j]
      BY <2>1, <1>1, <1>6
    <3> QED BY <3>1, <1>9, <1>1, Zenon DEF Silent
  <2>2. Tells(ms[1], a)
    BY <1>9, <1>1, Zenon
  <2>3. Told(ms[1], a) = value
    BY <2>1, <2>2, <1>5, <1>9, <1>1, Zenon DEF EndsWith
  <2> QED BY <2>3, <1>1, Zenon
<1> QED BY <1>7, <1>8, <1>9 DEF rest, m

\* Messages after messages.
LEMMA ConcatLearns ==
  ASSUME NEW S, NEW s \in Seq(S), NEW t \in Seq(S), NEW a, NEW known, NEW value,
         EndsWith(t, a, value),
         Silent(t, a) => Learns(known, s, a, value)
  PROVE  Learns(known, s \o t, a, value)
<1> DEFINE st == s \o t
           n == Len(s)
<1>1. /\ n \in Nat /\ Len(t) \in Nat
      /\ DOMAIN s = 1 .. n /\ DOMAIN t = 1 .. Len(t) /\ DOMAIN st = 1 .. n + Len(t)
  OBVIOUS
<1>2. /\ \A i \in 1 .. n : st[i] = s[i]
      /\ \A i \in 1 .. Len(t) : st[n + i] = t[i]
  OBVIOUS
<1> HIDE DEF st, n
<1>3. \A i \in 1 .. n + Len(t) :
        i \in 1 .. n \/ (i > n /\ i - n \in 1 .. Len(t) /\ n + (i - n) = i)
  BY <1>1
<1>4. /\ \A i \in 1 .. n : i \in 1 .. n + Len(t)
      /\ \A i \in 1 .. Len(t) : n + i \in 1 .. n + Len(t)
  BY <1>1
<1>5. ASSUME NEW i \in 1 .. Len(t), Tells(t[i], a),
             \A j \in 1 .. n + Len(t) : j > n + i => ~Tells(st[j], a)
      PROVE  Told(t[i], a) = value
  <2>1. ASSUME NEW j \in 1 .. Len(t), j > i  PROVE ~Tells(t[j], a)
    <3>1. n + j \in 1 .. n + Len(t) /\ n + j > n + i /\ st[n + j] = t[j]
      BY <2>1, <1>1, <1>2, <1>4
    <3> QED BY <3>1, <1>5
  <2> QED BY <2>1, <1>5, <1>1, Zenon DEF EndsWith
<1>6. ASSUME NEW i \in 1 .. n, Tells(s[i], a),
             \A j \in 1 .. n + Len(t) : j > i => ~Tells(st[j], a)
      PROVE  Told(s[i], a) = value
  <2>1. ASSUME NEW j \in 1 .. Len(t)  PROVE ~Tells(t[j], a)
    <3>1. n + j \in 1 .. n + Len(t) /\ n + j > i /\ st[n + j] = t[j]
      BY <1>1, <1>2, <1>4
    <3> QED BY <3>1, <1>6
  <2>2. Silent(t, a)
    BY <2>1, <1>1 DEF Silent
  <2>3. ASSUME NEW j \in 1 .. n, j > i  PROVE ~Tells(s[j], a)
    <3>1. j \in 1 .. n + Len(t) /\ st[j] = s[j]
      BY <1>2, <1>4
    <3> QED BY <3>1, <2>3, <1>6
  <2> QED BY <2>2, <2>3, <1>6, <1>1, Zenon DEF Learns, EndsWith
<1>7. EndsWith(st, a, value)
  <2> SUFFICES ASSUME NEW i \in 1 .. n + Len(t), Tells(st[i], a),
                      \A j \in 1 .. n + Len(t) : j > i => ~Tells(st[j], a)
               PROVE  Told(st[i], a) = value
    BY <1>1 DEF EndsWith
  <2>1. CASE i \in 1 .. n
    <3>1. st[i] = s[i]
      BY <2>1, <1>2
    <3> QED BY <2>1, <3>1, <1>6, Zenon
  <2>2. CASE i - n \in 1 .. Len(t) /\ n + (i - n) = i
    <3>1. PICK k \in 1 .. Len(t) : n + k = i
      BY <2>2
    <3>2. st[i] = t[k]
      BY <3>1, <1>2
    <3>3. \A j \in 1 .. n + Len(t) : j > n + k => ~Tells(st[j], a)
      BY <3>1
    <3>4. Told(t[k], a) = value
      BY <3>2, <3>3, <1>5, Zenon
    <3> QED BY <3>2, <3>4, Zenon
  <2> QED BY <2>1, <2>2, <1>3
<1>8. ASSUME Silent(st, a)  PROVE known = value
  <2>1. \A i \in 1 .. n + Len(t) : ~Tells(st[i], a)
    BY <1>8, <1>1, Zenon DEF Silent
  <2>2. \A i \in 1 .. Len(t) : ~Tells(t[i], a)
    BY <2>1, <1>2, <1>4, Zenon
  <2>3. \A i \in 1 .. n : ~Tells(s[i], a)
    BY <2>1, <1>2, <1>4, Zenon
  <2> QED BY <2>2, <2>3, <1>1, Zenon DEF Silent, Learns
<1> QED BY <1>7, <1>8 DEF Learns, st

----------------------------------------------------------------------------
(* The invariant. *)

\* Nothing is pending of a; the event that is being broadcast will be sent to c, or
\* has still to be asked about.
Nothing(a) == \A e \in pending : e.agent # a
Awaited(c) == c \in cast.todo \cup {cast.to}
Newer(ms, a, n) == \E i \in DOMAIN ms : ms[i].agent = a /\ ms[i].scan > n

\* A newer event of a than scan n is on its way to c.
Comes(c, a, n) ==
  \/ \E e \in pending : e.agent = a /\ e.scan > n
  \/ Newer(events, a, n)
  \/ Awaited(c) /\ Newer(cast.msgs, a, n)

\* Without an event nobody is asked.
CastOK == cast.msgs = <<>> => cast.todo = {} /\ cast.to = Nobody

PendingIsNew == \A e \in pending : e.state = agents[e.agent] /\ e.scan = scans

ChainEndsRight ==
  \A a \in Agents : Nothing(a) =>
    /\ EndsWith(events, a, agents[a])
    /\ Silent(events, a) => EndsWith(cast.msgs, a, agents[a])

\* A client that is not connected has no flag and no request.
GoneIsIdle(c) == c \notin members => ~agentSub[c] /\ pump[c].pc = "idle"

ListIsOfScan(c) == pump[c].list.scan <= scans

ListIsRightOrFollowed(c) ==
  Served(c) /\ pump[c].pc = "send" =>
    \A a \in Agents :
      pump[c].list.agents[a] = agents[a] \/ Comes(c, a, pump[c].list.scan)

QueueEndsRight(c) ==
  Served(c) /\ pump[c].pc # "send" =>
    \A a \in Agents :
      Nothing(a) /\ Silent(events, a) /\ (Awaited(c) => Silent(cast.msgs, a))
        => Learns(view[c][a], send[c], a, agents[a])

ClientOK(c) ==
  GoneIsIdle(c) /\ ListIsOfScan(c) /\ ListIsRightOrFollowed(c) /\ QueueEndsRight(c)

FeedInv ==
  /\ FeedTypeOK
  /\ CastOK
  /\ PendingIsNew
  /\ ChainEndsRight
  /\ \A c \in Clients : ClientOK(c)

----------------------------------------------------------------------------
(* Types. *)

\* What Casting leaves.
LEMMA CastingFacts ==
  ASSUME NEW msgs, NEW todo, NEW to, Casting(msgs, todo, to)
  PROVE  /\ cast'.todo = todo /\ cast'.to = to
         /\ todo = {} /\ to = Nobody => cast'.msgs = <<>>
         /\ ~(todo = {} /\ to = Nobody) => cast'.msgs = msgs
  BY DEF Casting, NoCast

\* What Queue leaves of the queue it sends to.
LEMMA QueueFacts ==
  ASSUME FeedTypeOK, NEW c \in Clients, NEW m \in Message, Queue(c, m)
  PROVE  /\ send' \in [Clients -> Seq(Message)]
         /\ \A d \in Clients : Len(send'[d]) <= SendCap
         /\ dropped' \in [Clients -> BOOLEAN]
         /\ \A d \in Clients \ {c} : send'[d] = send[d] /\ dropped'[d] = dropped[d]
         /\ \/ send'[c] = Append(send[c], m) /\ dropped'[c] = dropped[c]
            \/ send'[c] = send[c] /\ dropped'[c]
<1>1. /\ send \in [Clients -> Seq(Message)] /\ dropped \in [Clients -> BOOLEAN]
      /\ \A d \in Clients : Len(send[d]) <= SendCap
      /\ SendCap \in Nat
  BY FeedAssumption DEF FeedTypeOK
<1>2. CASE Len(send[c]) < SendCap
  <2>1. send' = [send EXCEPT ![c] = Append(send[c], m)] /\ dropped' = dropped
    BY <1>2 DEF Queue
  <2>2. /\ Append(send[c], m) \in Seq(Message)
        /\ Len(Append(send[c], m)) = Len(send[c]) + 1 /\ Len(send[c]) \in Nat
    BY <1>1
  <2>3. send' \in [Clients -> Seq(Message)]
    BY <1>1, <2>1, <2>2
  <2>4. \A d \in Clients : send'[d] = IF d = c THEN Append(send[c], m) ELSE send[d]
    BY <1>1, <2>1
  <2>5. Len(Append(send[c], m)) <= SendCap
    BY <1>1, <1>2, <2>2
  <2>6. \A d \in Clients : Len(send'[d]) <= SendCap
    BY <1>1, <2>4, <2>5
  <2> QED BY <1>1, <2>1, <2>3, <2>4, <2>6
<1>3. CASE ~(Len(send[c]) < SendCap)
  <2>1. send' = send /\ dropped' = [dropped EXCEPT ![c] = TRUE]
    BY <1>3 DEF Queue
  <2> QED BY <1>1, <2>1
<1> QED BY <1>2, <1>3

LEMMA NoMessages == \A S : <<>> \in Seq(S) /\ Len(<<>>) = 0
  OBVIOUS

LEMMA ListType == NoList \in List
  BY DEF NoList, List, AgentMap, NoAgents, States

\* A message changes what a client knows of the agents.
LEMMA AfterType ==
  ASSUME NEW known \in AgentMap, NEW m \in Message
  PROVE  After(known, m) \in AgentMap
<1> SUFFICES ASSUME NEW a \in Agents, Tells(m, a)  PROVE Told(m, a) \in States
  BY DEF After, AgentMap
<1>1. CASE m \in List
  BY <1>1 DEF List, Told, AgentMap
<1>2. CASE m \in Event
  BY <1>2 DEF Event, Told
<1>3. CASE m = Done
  BY <1>3 DEF Done, Tells
<1> QED BY <1>1, <1>2, <1>3 DEF Message

\* Each step keeps the types, and that a broadcast has its event.
LEMMA TypeStep ==
  ASSUME FeedTypeOK, CastOK, [FeedNext]_vars
  PROVE  FeedTypeOK' /\ CastOK'
<1> USE DEF FeedTypeOK, CastOK
<1>1. CASE Scan
  <2>1. PICK found \in AgentMap \ {agents} :
          /\ agents' = found
          /\ pending' = {[kind |-> "event", agent |-> a, state |-> found[a], scan |-> scans + 1] :
                           a \in {b \in Agents : found[b] # agents[b]}}
    BY <1>1 DEF Scan
  <2>2. pending' \subseteq Event
    BY <2>1 DEF Event, AgentMap
  <2>3. /\ scans' = scans + 1
        /\ UNCHANGED <<events, cast, members, clientVars, outVars, view>>
    BY <1>1 DEF Scan
  <2> QED BY <2>1, <2>2, <2>3 DEF clientVars, outVars
<1>2. CASE SendEvent
  <2>1. PICK e \in pending : pending' = pending \ {e} /\ events' = Append(events, e)
    BY <1>2 DEF SendEvent
  <2>2. /\ Len(events) < EventsCap
        /\ UNCHANGED <<agents, scans, cast, members, clientVars, outVars, view>>
    BY <1>2 DEF SendEvent
  <2>3. events' \in Seq(Event) /\ Len(events') = Len(events) + 1 /\ Len(events) \in Nat
    BY <2>1
  <2>4. Len(events') <= EventsCap
    BY <2>2, <2>3, FeedAssumption
  <2> QED BY <2>1, <2>2, <2>3, <2>4 DEF clientVars, outVars
<1>3. CASE TakeEvent
  <2>1. /\ events # <<>> /\ events' = Tail(events)
        /\ Casting(<<Head(events)>>, members, Nobody)
        /\ UNCHANGED <<agents, scans, pending, members, clientVars, outVars, view>>
    BY <1>3 DEF TakeEvent
  <2>2. /\ events' \in Seq(Event) /\ Len(events') = Len(events) - 1 /\ Len(events) \in Nat
        /\ <<Head(events)>> \in Seq(Event) /\ Len(<<Head(events)>>) = 1
        /\ <<Head(events)>> # <<>>
    BY <2>1
  <2>3. /\ cast'.todo = members /\ cast'.to = Nobody
        /\ (cast'.msgs = <<>> /\ members = {}) \/ cast'.msgs = <<Head(events)>>
    BY <2>1, CastingFacts
  <2>4. cast'.msgs \in Seq(Event) /\ Len(cast'.msgs) <= 1 /\ CastOK'
    <3>1. CASE cast'.msgs = <<>>
      <4>1. cast'.msgs \in Seq(Event) /\ Len(cast'.msgs) = 0
        BY <3>1, NoMessages, Zenon
      <4>2. CastOK'
        BY <2>2, <2>3
      <4> QED BY <4>1, <4>2
    <3>2. CASE cast'.msgs # <<>>
      <4>1. cast'.msgs = <<Head(events)>>
        BY <3>2, <2>3
      <4>2. cast'.msgs \in Seq(Event) /\ Len(cast'.msgs) = 1
        BY <4>1, <2>2, Zenon
      <4> QED BY <4>2, <3>2
    <3> QED BY <3>1, <3>2
  <2>5. Len(events') <= EventsCap
    BY <2>2, FeedAssumption
  <2> QED BY <2>1, <2>2, <2>3, <2>4, <2>5 DEF clientVars, outVars
<1>4. ASSUME NEW c \in Clients, AskClient(c)  PROVE FeedTypeOK' /\ CastOK'
  <2> DEFINE to == IF agentSub[c] THEN c ELSE Nobody
  <2>1. /\ c \in cast.todo
        /\ Casting(cast.msgs, cast.todo \ {c}, to)
        /\ UNCHANGED <<registryVars, members, clientVars, outVars, view>>
    BY <1>4 DEF AskClient
  <2>2. to \in members \cup {Nobody}
    BY <2>1
  <2> HIDE DEF to
  <2>3. /\ cast'.todo = cast.todo \ {c} /\ cast'.to = to
        /\ \/ cast'.msgs = <<>> /\ cast'.todo = {} /\ cast'.to = Nobody
           \/ cast'.msgs = cast.msgs
    BY <2>1, CastingFacts
  <2>4. cast.msgs # <<>>
    BY <2>1
  <2>5. cast'.msgs \in Seq(Event) /\ Len(cast'.msgs) <= 1 /\ CastOK'
    <3>1. CASE cast'.msgs = <<>>
      <4>1. cast'.msgs \in Seq(Event) /\ Len(cast'.msgs) = 0
        BY <3>1, NoMessages, Zenon
      <4>2. CastOK'
        BY <2>3, <2>4
      <4> QED BY <4>1, <4>2
    <3>2. CASE cast'.msgs # <<>>
      <4>1. cast'.msgs \in Seq(Event) /\ Len(cast'.msgs) <= 1
        BY <3>2, <2>3, <2>4
      <4> QED BY <4>1, <3>2
    <3> QED BY <3>1, <3>2
  <2> QED BY <2>1, <2>2, <2>3, <2>5 DEF registryVars, clientVars, outVars
<1>5. ASSUME NEW c \in Clients, SendToClient(c)  PROVE FeedTypeOK' /\ CastOK'
  <2>1. /\ cast.to = c
        /\ Queue(c, cast.msgs[1])
        /\ overtaken' = [overtaken EXCEPT ![c] = overtaken[c] \/ Overtakes(c, cast.msgs[1])]
        /\ Casting(cast.msgs, cast.todo, Nobody)
        /\ UNCHANGED <<registryVars, members, clientVars, view>>
    BY <1>5 DEF SendToClient
  <2>2. cast.msgs # <<>>
    BY <2>1, FeedAssumption
  <2>3. cast.msgs[1] \in Message
    BY <2>2 DEF Message
  <2>4. /\ send' \in [Clients -> Seq(Message)]
        /\ \A d \in Clients : Len(send'[d]) <= SendCap
        /\ dropped' \in [Clients -> BOOLEAN]
    BY <2>1, <2>3, QueueFacts
  <2>5. overtaken' \in [Clients -> BOOLEAN]
    <3>1. Overtakes(c, cast.msgs[1]) \in BOOLEAN
      BY DEF Overtakes
    <3> QED BY <2>1, <3>1, Zenon
  <2>6. /\ cast'.todo = cast.todo /\ cast'.to = Nobody
        /\ \/ cast'.msgs = <<>> /\ cast'.todo = {}
           \/ cast'.msgs = cast.msgs
    BY <2>1, CastingFacts
  <2>7. cast'.msgs \in Seq(Event) /\ Len(cast'.msgs) <= 1 /\ CastOK'
    <3>1. CASE cast'.msgs = <<>>
      <4>1. cast'.msgs \in Seq(Event) /\ Len(cast'.msgs) = 0
        BY <3>1, NoMessages, Zenon
      <4>2. CastOK'
        BY <2>2, <2>6
      <4> QED BY <4>1, <4>2
    <3>2. CASE cast'.msgs # <<>>
      <4>1. cast'.msgs \in Seq(Event) /\ Len(cast'.msgs) <= 1
        BY <3>2, <2>2, <2>6
      <4> QED BY <4>1, <3>2
    <3> QED BY <3>1, <3>2
  <2> QED BY <2>1, <2>4, <2>5, <2>6, <2>7 DEF registryVars, clientVars
<1>6. ASSUME NEW c \in Clients, Connect(c)  PROVE FeedTypeOK' /\ CastOK'
  BY <1>6 DEF Connect, registryVars, clientVars, outVars
<1>7. ASSUME NEW c \in Clients, Disconnect(c)  PROVE FeedTypeOK' /\ CastOK'
  <2>1. /\ cast.msgs = <<>> /\ members' = members \ {c}
        /\ agentSub' = [agentSub EXCEPT ![c] = FALSE]
        /\ asked' = [asked EXCEPT ![c] = MaxRequests[c]]
        /\ dropped' = [dropped EXCEPT ![c] = FALSE]
        /\ overtaken' = [overtaken EXCEPT ![c] = FALSE]
        /\ UNCHANGED <<registryVars, cast>>
    BY <1>7 DEF Disconnect
  <2>2. pump' \in [Clients -> Pump]
    <3>1. pump' = [pump EXCEPT ![c] = [pc |-> "idle", list |-> NoList]]
      BY <1>7 DEF Disconnect
    <3>2. [pc |-> "idle", list |-> NoList] \in Pump
      BY ListType DEF Pump
    <3> QED BY <3>1, <3>2
  <2>3. send' \in [Clients -> Seq(Message)] /\ \A d \in Clients : Len(send'[d]) <= SendCap
    <3>1. send' = [send EXCEPT ![c] = <<>>]
      BY <1>7 DEF Disconnect
    <3>2. \A d \in Clients : send'[d] = IF d = c THEN <<>> ELSE send[d]
      BY <3>1
    <3>3. <<>> \in Seq(Message) /\ Len(<<>>) = 0
      OBVIOUS
    <3>4. \A d \in Clients : Len(send'[d]) <= SendCap
      BY <3>2, <3>3, FeedAssumption
    <3> QED BY <3>1, <3>3, <3>4
  <2>4. view' \in [Clients -> AgentMap]
    <3>1. view' = [view EXCEPT ![c] = NoAgents]
      BY <1>7 DEF Disconnect
    <3> QED BY <3>1 DEF NoAgents, AgentMap, States
  <2>5. asked' \in [Clients -> Nat]
    BY <2>1, FeedAssumption
  <2>6. cast.todo = {} /\ cast.to = Nobody
    BY <2>1
  <2> QED BY <2>1, <2>2, <2>3, <2>4, <2>5, <2>6 DEF registryVars
<1>8. ASSUME NEW c \in Clients, NEW pc \in {"idle", "subscribe", "get", "list", "unsubscribe", "reply", "send"},
             Goes(c, pc)
      PROVE  pump' \in [Clients -> Pump]
  <2>1. pump' = [pump EXCEPT ![c] = [pc |-> pc, list |-> pump[c].list]]
    BY <1>8 DEF Goes
  <2>2. [pc |-> pc, list |-> pump[c].list] \in Pump
    BY DEF Pump
  <2> QED BY <2>1, <2>2
<1>9. ASSUME NEW c \in Clients, NEW request \in {"subscribe", "list", "unsubscribe"},
             Request(c, request)
      PROVE  FeedTypeOK' /\ CastOK'
  <2>1. /\ asked' = [asked EXCEPT ![c] = asked[c] + 1]
        /\ Goes(c, request)
        /\ UNCHANGED <<registryVars, cast, members, agentSub, outVars, view>>
    BY <1>9 DEF Request
  <2>2. pump' \in [Clients -> Pump]
    BY <2>1, <1>8
  <2>3. asked' \in [Clients -> Nat]
    BY <2>1
  <2> QED BY <2>1, <2>2, <2>3 DEF registryVars, outVars
<1>10. ASSUME NEW c \in Clients, SetsFlag(c, "get")  PROVE FeedTypeOK' /\ CastOK'
  <2>1. /\ agentSub' = [agentSub EXCEPT ![c] = TRUE]
        /\ Goes(c, "get")
        /\ UNCHANGED <<registryVars, cast, members, asked, outVars, view>>
    BY <1>10 DEF SetsFlag
  <2>2. pump' \in [Clients -> Pump]
    BY <2>1, <1>8
  <2> QED BY <2>1, <2>2 DEF registryVars, outVars
<1>11. ASSUME NEW c \in Clients, GetsList(c, "send")  PROVE FeedTypeOK' /\ CastOK'
  <2>1. /\ pump' = [pump EXCEPT ![c] =
                      [pc |-> "send", list |-> [kind |-> "list", agents |-> agents, scan |-> scans]]]
        /\ dropped' = [dropped EXCEPT ![c] = FALSE]
        /\ overtaken' = [overtaken EXCEPT ![c] = FALSE]
        /\ UNCHANGED <<registryVars, cast, members, agentSub, asked, send, view>>
    BY <1>11 DEF GetsList
  <2>2. [pc |-> "send", list |-> [kind |-> "list", agents |-> agents, scan |-> scans]] \in Pump
    BY DEF Pump, List
  <2>3. pump' \in [Clients -> Pump]
    BY <2>1, <2>2
  <2> QED BY <2>1, <2>3 DEF registryVars
<1>12. ASSUME NEW c \in Clients, SendList(c)  PROVE FeedTypeOK' /\ CastOK'
  <2>1. /\ Queue(c, pump[c].list)
        /\ pump' = [pump EXCEPT ![c] = [pc |-> "idle", list |-> NoList]]
        /\ UNCHANGED <<registryVars, cast, members, agentSub, asked, overtaken, view>>
    BY <1>12 DEF SendList
  <2>2. pump[c].list \in Message
    BY DEF Pump, Message
  <2>3. [pc |-> "idle", list |-> NoList] \in Pump
    BY ListType DEF Pump
  <2>4. pump' \in [Clients -> Pump]
    BY <2>1, <2>3
  <2>5. /\ send' \in [Clients -> Seq(Message)]
        /\ \A d \in Clients : Len(send'[d]) <= SendCap
        /\ dropped' \in [Clients -> BOOLEAN]
    BY <2>1, <2>2, QueueFacts
  <2> QED BY <2>1, <2>4, <2>5 DEF registryVars
<1>13. ASSUME NEW c \in Clients, UnsubscribeAgents(c)  PROVE FeedTypeOK' /\ CastOK'
  <2>1. CASE /\ agentSub' = [agentSub EXCEPT ![c] = FALSE]
             /\ Goes(c, "reply")
             /\ UNCHANGED <<registryVars, cast, members, asked, outVars, view>>
    <3>1. pump' \in [Clients -> Pump]
      BY <2>1, <1>8
    <3> QED BY <2>1, <3>1 DEF registryVars, outVars
  <2>2. CASE /\ Queue(c, Done)
             /\ Goes(c, "idle")
             /\ UNCHANGED <<registryVars, cast, members, agentSub, asked, overtaken, view>>
    <3>1. pump' \in [Clients -> Pump]
      BY <2>2, <1>8
    <3>2. Done \in Message
      BY DEF Message
    <3>3. /\ send' \in [Clients -> Seq(Message)]
          /\ \A d \in Clients : Len(send'[d]) <= SendCap
          /\ dropped' \in [Clients -> BOOLEAN]
      BY <2>2, <3>2, QueueFacts
    <3> QED BY <2>2, <3>1, <3>3 DEF registryVars
  <2> QED BY <1>13, <2>1, <2>2 DEF UnsubscribeAgents
<1>14. ASSUME NEW c \in Clients, WritePump(c)  PROVE FeedTypeOK' /\ CastOK'
  <2>1. /\ send[c] # <<>>
        /\ view' = [view EXCEPT ![c] = After(view[c], Head(send[c]))]
        /\ send' = [send EXCEPT ![c] = Tail(send[c])]
        /\ UNCHANGED <<registryVars, cast, members, clientVars, dropped, overtaken>>
    BY <1>14 DEF WritePump
  <2>2. /\ Head(send[c]) \in Message /\ Tail(send[c]) \in Seq(Message)
        /\ Len(Tail(send[c])) = Len(send[c]) - 1 /\ Len(send[c]) \in Nat
    BY <2>1
  <2>3. After(view[c], Head(send[c])) \in AgentMap
    BY <2>2, AfterType
  <2>4. send' \in [Clients -> Seq(Message)]
    BY <2>1, <2>2
  <2>5. \A d \in Clients : send'[d] = IF d = c THEN Tail(send[c]) ELSE send[d]
    BY <2>1
  <2>6. Len(Tail(send[c])) <= SendCap
    BY <2>2, FeedAssumption
  <2>7. \A d \in Clients : Len(send'[d]) <= SendCap
    BY <2>5, <2>6
  <2> QED BY <2>1, <2>3, <2>4, <2>7 DEF registryVars, clientVars
<1>15. CASE UNCHANGED vars
  BY <1>15 DEF vars, registryVars, clientVars, outVars
<1> QED BY <1>1, <1>2, <1>3, <1>4, <1>5, <1>6, <1>7, <1>9, <1>10, <1>11, <1>12, <1>13, <1>14, <1>15
        DEF FeedNext, Forward, Handle, SubscribeAgents, ListAgents

----------------------------------------------------------------------------
(* The chain of events, from the scan to the broadcast. *)

LEMMA EmptyTells ==
  ASSUME NEW a, NEW value
  PROVE  Silent(<<>>, a) /\ EndsWith(<<>>, a, value)
<1>1. DOMAIN <<>> = {}
  OBVIOUS
<1> QED BY <1>1, Zenon DEF Silent, EndsWith

LEMMA SingleTells ==
  ASSUME NEW m, NEW a, NEW value
  PROVE  /\ Silent(<<m>>, a) <=> ~Tells(m, a)
         /\ EndsWith(<<m>>, a, value) <=> (Tells(m, a) => Told(m, a) = value)
<1> DEFINE s == <<m>>
<1>1. DOMAIN s = {1} /\ s[1] = m
  OBVIOUS
<1> HIDE DEF s
<1>2. ~(1 > 1)
  OBVIOUS
<1>3. Silent(s, a) <=> ~Tells(m, a)
  BY <1>1, Zenon DEF Silent
<1>4. EndsWith(s, a, value) <=> (Tells(m, a) => Told(m, a) = value)
  BY <1>1, <1>2, Zenon DEF EndsWith
<1> QED BY <1>3, <1>4 DEF s

LEMMA EventTells ==
  ASSUME NEW e \in Event
  PROVE  /\ \A a : Tells(e, a) <=> e.agent = a
         /\ \A a : Told(e, a) = e.state
         /\ e.agent \in Agents /\ e.scan \in Nat
<1>1. e.kind = "event" /\ e.agent \in Agents /\ e.scan \in Nat
  BY DEF Event
<1>2. "event" # "list"
  OBVIOUS
<1> QED BY <1>1, <1>2, Zenon DEF Tells, Told

\* All that is not silent about an agent has an event of it.
LEMMA SilentIsOld ==
  ASSUME NEW ms \in Seq(Event), NEW a, NEW n, Silent(ms, a)
  PROVE  ~Newer(ms, a, n)
<1>1. ASSUME NEW i \in DOMAIN ms  PROVE ms[i].agent # a
  <2>1. ms[i] \in Event
    OBVIOUS
  <2>2. ~Tells(ms[i], a)
    BY DEF Silent
  <2> QED BY <2>1, <2>2, EventTells
<1> QED BY <1>1 DEF Newer

\* The steps that leave the registry and what it sends alone.
LEMMA RestOfRegistry ==
  ASSUME FeedTypeOK, CastOK, FeedNext, ~Scan, ~SendEvent, ~TakeEvent
  PROVE  /\ UNCHANGED registryVars
         /\ cast'.msgs = cast.msgs \/ cast'.msgs = <<>>
<1>1. ASSUME NEW c \in Clients, AskClient(c)
      PROVE  UNCHANGED registryVars /\ (cast'.msgs = cast.msgs \/ cast'.msgs = <<>>)
  <2> DEFINE to == IF agentSub[c] THEN c ELSE Nobody
  <2>1. Casting(cast.msgs, cast.todo \ {c}, to) /\ UNCHANGED registryVars
    BY <1>1 DEF AskClient
  <2> HIDE DEF to
  <2> QED BY <2>1, CastingFacts
<1>2. ASSUME NEW c \in Clients, SendToClient(c)
      PROVE  UNCHANGED registryVars /\ (cast'.msgs = cast.msgs \/ cast'.msgs = <<>>)
  <2>1. Casting(cast.msgs, cast.todo, Nobody) /\ UNCHANGED registryVars
    BY <1>2 DEF SendToClient
  <2> QED BY <2>1, CastingFacts
<1>3. ASSUME NEW c \in Clients,
             \/ Connect(c) \/ Disconnect(c)
             \/ \E request \in {"subscribe", "list", "unsubscribe"} : Request(c, request)
             \/ Handle(c) \/ WritePump(c)
      PROVE  UNCHANGED registryVars /\ UNCHANGED cast
  <2>1. CASE Connect(c)
    BY <2>1 DEF Connect
  <2>2. CASE Disconnect(c)
    BY <2>2 DEF Disconnect
  <2>3. ASSUME NEW request, Request(c, request)  PROVE UNCHANGED registryVars /\ UNCHANGED cast
    BY <2>3 DEF Request
  <2>4. CASE Handle(c)
    BY <2>4 DEF Handle, SubscribeAgents, ListAgents, SetsFlag, GetsList, SendList, UnsubscribeAgents
  <2>5. CASE WritePump(c)
    BY <2>5 DEF WritePump
  <2> QED BY <1>3, <2>1, <2>2, <2>3, <2>4, <2>5
<1>4. \/ \E c \in Clients : AskClient(c) \/ SendToClient(c)
      \/ \E c \in Clients :
           \/ Connect(c) \/ Disconnect(c)
           \/ \E request \in {"subscribe", "list", "unsubscribe"} : Request(c, request)
           \/ Handle(c) \/ WritePump(c)
  BY DEF FeedNext, Forward
<1> QED BY <1>1, <1>2, <1>3, <1>4

LEMMA ChainStep ==
  ASSUME FeedTypeOK, CastOK, PendingIsNew, ChainEndsRight, [FeedNext]_vars
  PROVE  PendingIsNew' /\ ChainEndsRight'
<1>0. /\ agents \in AgentMap /\ scans \in Nat /\ pending \subseteq Event
      /\ events \in Seq(Event) /\ cast.msgs \in Seq(Event)
  BY DEF FeedTypeOK
<1>1. CASE Scan
  <2>1. PICK found \in AgentMap \ {agents} :
          /\ agents' = found
          /\ pending' = {[kind |-> "event", agent |-> a, state |-> found[a], scan |-> scans + 1] :
                           a \in {b \in Agents : found[b] # agents[b]}}
    BY <1>1 DEF Scan
  <2>2. /\ pending = {} /\ scans' = scans + 1 /\ events' = events /\ cast' = cast
    BY <1>1 DEF Scan
  <2>3. PendingIsNew'
    BY <2>1, <2>2 DEF PendingIsNew
  <2>4. ASSUME NEW a \in Agents, Nothing(a)'
        PROVE  agents'[a] = agents[a] /\ Nothing(a)
    <3>1. ASSUME found[a] # agents[a]  PROVE FALSE
      <4>1. [kind |-> "event", agent |-> a, state |-> found[a], scan |-> scans + 1] \in pending'
        BY <2>1, <3>1
      <4>2. [kind |-> "event", agent |-> a, state |-> found[a], scan |-> scans + 1].agent = a
        OBVIOUS
      <4> QED BY <4>1, <4>2, <2>4 DEF Nothing
    <3> QED BY <2>1, <2>2, <3>1 DEF Nothing
  <2>5. ChainEndsRight'
    BY <2>2, <2>4, Zenon DEF ChainEndsRight
  <2> QED BY <2>3, <2>5
<1>2. CASE SendEvent
  <2>1. PICK e \in pending : pending' = pending \ {e} /\ events' = Append(events, e)
    BY <1>2 DEF SendEvent
  <2>2. agents' = agents /\ scans' = scans /\ cast' = cast
    BY <1>2 DEF SendEvent
  <2>3. PendingIsNew'
    BY <2>1, <2>2 DEF PendingIsNew
  <2>4. /\ e \in Event /\ e.state = agents[e.agent]
        /\ \A a : Tells(e, a) <=> e.agent = a
        /\ \A a : Told(e, a) = e.state
    BY <1>0, EventTells DEF PendingIsNew
  <2>5. ASSUME NEW a \in Agents, Nothing(a)'
        PROVE  /\ EndsWith(events', a, agents[a])
               /\ Silent(events', a) => EndsWith(cast.msgs, a, agents[a])
    <3>1. /\ Silent(events', a) <=> Silent(events, a) /\ ~Tells(e, a)
          /\ Tells(e, a) /\ Told(e, a) = agents[a] => EndsWith(events', a, agents[a])
          /\ ~Tells(e, a) /\ EndsWith(events, a, agents[a]) => EndsWith(events', a, agents[a])
      BY <1>0, <2>1, <2>4, AppendTells
    <3>2. CASE e.agent = a
      BY <3>1, <3>2, <2>4
    <3>3. CASE e.agent # a
      <4>1. Nothing(a)
        BY <3>3, <2>5, <2>1 DEF Nothing
      <4>2. /\ EndsWith(events, a, agents[a])
            /\ Silent(events, a) => EndsWith(cast.msgs, a, agents[a])
        BY <4>1 DEF ChainEndsRight
      <4> QED BY <3>1, <3>3, <4>2, <2>4
    <3> QED BY <3>2, <3>3
  <2>6. ChainEndsRight'
    BY <2>2, <2>5, Zenon DEF ChainEndsRight
  <2> QED BY <2>3, <2>6
<1>3. CASE TakeEvent
  <2>1. /\ events # <<>> /\ events' = Tail(events)
        /\ Casting(<<Head(events)>>, members, Nobody)
        /\ agents' = agents /\ scans' = scans /\ pending' = pending
    BY <1>3 DEF TakeEvent
  <2>2. cast'.msgs = <<>> \/ cast'.msgs = <<Head(events)>>
    BY <2>1, CastingFacts
  <2>3. PendingIsNew'
    BY <2>1 DEF PendingIsNew
  <2>4. ASSUME NEW a \in Agents, Nothing(a)
        PROVE  /\ EndsWith(events', a, agents[a])
               /\ Silent(events', a) => EndsWith(cast'.msgs, a, agents[a])
    <3>1. EndsWith(events, a, agents[a])
      BY <2>4 DEF ChainEndsRight
    <3>2. /\ EndsWith(events', a, agents[a])
          /\ Silent(events', a) /\ Tells(Head(events), a) => Told(Head(events), a) = agents[a]
      BY <3>1, <2>1, <1>0, TailTells
    <3>3. Silent(events', a) => EndsWith(<<Head(events)>>, a, agents[a])
      BY <3>2, SingleTells, Zenon
    <3>4. EndsWith(<<>>, a, agents[a])
      BY EmptyTells
    <3> QED BY <2>2, <3>2, <3>3, <3>4, Zenon
  <2>5. ASSUME NEW a \in Agents  PROVE Nothing(a)' <=> Nothing(a)
    BY <2>1 DEF Nothing
  <2>6. ChainEndsRight'
    BY <2>1, <2>4, <2>5, Zenon DEF ChainEndsRight
  <2> QED BY <2>3, <2>6
<1>4. CASE FeedNext /\ ~Scan /\ ~SendEvent /\ ~TakeEvent
  <2>1. /\ agents' = agents /\ scans' = scans /\ pending' = pending /\ events' = events
        /\ cast'.msgs = cast.msgs \/ cast'.msgs = <<>>
    BY <1>4, RestOfRegistry DEF registryVars
  <2>2. PendingIsNew'
    BY <2>1 DEF PendingIsNew
  <2>3. ASSUME NEW a \in Agents, Nothing(a)
        PROVE  /\ EndsWith(events, a, agents[a])
               /\ Silent(events, a) => EndsWith(cast'.msgs, a, agents[a])
    <3>1. /\ EndsWith(events, a, agents[a])
          /\ Silent(events, a) => EndsWith(cast.msgs, a, agents[a])
      BY <2>3 DEF ChainEndsRight
    <3>2. EndsWith(<<>>, a, agents[a])
      BY EmptyTells
    <3> QED BY <2>1, <3>1, <3>2, Zenon
  <2>4. ASSUME NEW a \in Agents  PROVE Nothing(a)' <=> Nothing(a)
    BY <2>1 DEF Nothing
  <2>5. ChainEndsRight'
    BY <2>1, <2>3, <2>4, Zenon DEF ChainEndsRight
  <2> QED BY <2>2, <2>5
<1>5. CASE UNCHANGED vars
  <2>1. agents' = agents /\ scans' = scans /\ pending' = pending /\ events' = events /\ cast' = cast
    BY <1>5 DEF vars, registryVars
  <2> QED BY <2>1 DEF PendingIsNew, ChainEndsRight, Nothing
<1> QED BY <1>1, <1>2, <1>3, <1>4, <1>5

----------------------------------------------------------------------------
(* What each client is owed. *)

\* What is kept of c by a step of another client, or of the broadcast to another one.
Alone(c) ==
  /\ UNCHANGED registryVars
  /\ c \in members' <=> c \in members
  /\ agentSub'[c] = agentSub[c] /\ pump'[c] = pump[c]
  /\ send'[c] = send[c] /\ view'[c] = view[c]
  /\ dropped'[c] = dropped[c] /\ overtaken'[c] = overtaken[c]
  /\ Awaited(c)' <=> Awaited(c)
  /\ Awaited(c) => cast'.msgs = cast.msgs

LEMMA AloneKeeps ==
  ASSUME NEW c \in Clients, ClientOK(c), Alone(c)
  PROVE  ClientOK(c)'
<1>1. /\ agents' = agents /\ scans' = scans /\ pending' = pending /\ events' = events
  BY DEF Alone, registryVars
<1>2. /\ c \in members' <=> c \in members
      /\ agentSub'[c] = agentSub[c] /\ pump'[c] = pump[c]
      /\ send'[c] = send[c] /\ view'[c] = view[c]
      /\ dropped'[c] = dropped[c] /\ overtaken'[c] = overtaken[c]
      /\ Awaited(c)' <=> Awaited(c)
      /\ Awaited(c) => cast'.msgs = cast.msgs
  BY DEF Alone
<1>3. Served(c)' <=> Served(c)
  BY <1>2 DEF Served, Follows
<1>4. GoneIsIdle(c)' /\ ListIsOfScan(c)'
  BY <1>1, <1>2 DEF ClientOK, GoneIsIdle, ListIsOfScan
<1>5. ASSUME NEW a  PROVE Nothing(a)' <=> Nothing(a)
  BY <1>1 DEF Nothing
<1>6. ASSUME NEW a, NEW n, Comes(c, a, n)
      PROVE  Comes(c, a, n)'
  <2>1. CASE \E e \in pending : e.agent = a /\ e.scan > n
    BY <2>1, <1>1 DEF Comes
  <2>2. CASE Newer(events, a, n)
    BY <2>2, <1>1 DEF Comes
  <2>3. CASE Awaited(c) /\ Newer(cast.msgs, a, n)
    <3>1. Awaited(c)' /\ cast'.msgs = cast.msgs
      BY <2>3, <1>2
    <3> QED BY <2>3, <3>1 DEF Comes, Newer
  <2> QED BY <1>6, <2>1, <2>2, <2>3 DEF Comes
<1>7. ListIsRightOrFollowed(c)'
  <2> SUFFICES ASSUME Served(c)', pump'[c].pc = "send", NEW a \in Agents,
                      pump'[c].list.agents[a] # agents'[a]
               PROVE  Comes(c, a, pump[c].list.scan)'
    BY <1>2 DEF ListIsRightOrFollowed, Comes, Newer
  <2>1. Comes(c, a, pump[c].list.scan)
    BY <1>1, <1>2, <1>3 DEF ClientOK, ListIsRightOrFollowed
  <2>2. PICK n : n = pump[c].list.scan
    OBVIOUS
  <2>3. Comes(c, a, n)'
    BY <2>1, <2>2, <1>6
  <2> QED BY <2>2, <2>3, <1>2 DEF Comes, Newer
<1>8. QueueEndsRight(c)'
  <2> SUFFICES ASSUME Served(c)', pump'[c].pc # "send", NEW a \in Agents,
                      Nothing(a)', Silent(events', a), Awaited(c)' => Silent(cast'.msgs, a)
               PROVE  Learns(view'[c][a], send'[c], a, agents'[a])
    BY Zenon DEF QueueEndsRight
  <2>1. Served(c) /\ pump[c].pc # "send" /\ Nothing(a) /\ Silent(events, a)
    BY <1>1, <1>2, <1>3, <1>5
  <2>2. Awaited(c) => Silent(cast.msgs, a)
    BY <1>2
  <2>3. Learns(view[c][a], send[c], a, agents[a])
    BY <2>1, <2>2, Zenon DEF ClientOK, QueueEndsRight
  <2> QED BY <2>3, <1>1, <1>2, Zenon
<1> QED BY <1>4, <1>7, <1>8 DEF ClientOK

\* A client that is not served is owed nothing.
LEMMA UnservedIsOK ==
  ASSUME NEW c \in Clients, GoneIsIdle(c)', ListIsOfScan(c)', ~Served(c)'
  PROVE  ClientOK(c)'
  BY DEF ClientOK, ListIsRightOrFollowed, QueueEndsRight

\* A scan that changes an agent makes an event that is newer than any list.
LEMMA ScanKeepsClient ==
  ASSUME FeedTypeOK, NEW c \in Clients, ClientOK(c), Scan
  PROVE  ClientOK(c)'
<1>1. PICK found \in AgentMap \ {agents} :
        /\ agents' = found
        /\ pending' = {[kind |-> "event", agent |-> a, state |-> found[a], scan |-> scans + 1] :
                         a \in {b \in Agents : found[b] # agents[b]}}
  BY DEF Scan
<1>2. /\ pending = {} /\ scans' = scans + 1
      /\ UNCHANGED <<events, cast, members, agentSub, pump, send, view, dropped, overtaken>>
  BY DEF Scan, clientVars, outVars
<1>3. /\ scans \in Nat /\ agents \in AgentMap /\ pump[c] \in Pump
  BY DEF FeedTypeOK
<1>4. pump[c].list.scan \in Nat
  BY <1>3 DEF Pump, List
<1>5. GoneIsIdle(c)' /\ ListIsOfScan(c)'
  BY <1>2, <1>3, <1>4 DEF ClientOK, GoneIsIdle, ListIsOfScan
<1>6. Served(c)' <=> Served(c)
  BY <1>2 DEF Served, Follows
<1>7. ListIsRightOrFollowed(c)'
  <2> SUFFICES ASSUME Served(c)', pump[c].pc = "send", NEW a \in Agents,
                      pump[c].list.agents[a] # agents'[a]
               PROVE  Comes(c, a, pump[c].list.scan)'
    BY <1>2 DEF ListIsRightOrFollowed
  <2>1. CASE agents'[a] # agents[a]
    <3> DEFINE e == [kind |-> "event", agent |-> a, state |-> found[a], scan |-> scans + 1]
    <3>1. e \in pending'
      BY <2>1, <1>1
    <3>2. e.agent = a /\ e.scan = scans + 1
      OBVIOUS
    <3>3. scans + 1 > pump[c].list.scan
      BY <1>3, <1>4 DEF ClientOK, ListIsOfScan
    <3> HIDE DEF e
    <3>4. e.agent = a /\ e.scan > pump'[c].list.scan
      BY <3>2, <3>3, <1>2
    <3> QED BY <3>1, <3>4 DEF Comes
  <2>2. CASE agents'[a] = agents[a]
    <3>1. Comes(c, a, pump[c].list.scan)
      BY <2>2, <1>6 DEF ClientOK, ListIsRightOrFollowed
    <3>2. Newer(events, a, pump[c].list.scan) \/ (Awaited(c) /\ Newer(cast.msgs, a, pump[c].list.scan))
      BY <3>1, <1>2 DEF Comes
    <3> QED BY <3>2, <1>2 DEF Comes, Newer, Awaited
  <2> QED BY <2>1, <2>2
<1>8. QueueEndsRight(c)'
  <2> SUFFICES ASSUME Served(c), pump[c].pc # "send", NEW a \in Agents,
                      Nothing(a)', Silent(events, a), Awaited(c) => Silent(cast.msgs, a)
               PROVE  Learns(view[c][a], send[c], a, agents'[a])
    BY <1>2, <1>6 DEF QueueEndsRight, Awaited
  <2>1. agents'[a] = agents[a]
    <3>1. ASSUME found[a] # agents[a]  PROVE FALSE
      <4>1. [kind |-> "event", agent |-> a, state |-> found[a], scan |-> scans + 1] \in pending'
        BY <1>1, <3>1
      <4>2. [kind |-> "event", agent |-> a, state |-> found[a], scan |-> scans + 1].agent = a
        OBVIOUS
      <4> QED BY <4>1, <4>2 DEF Nothing
    <3> QED BY <1>1, <3>1
  <2>2. Nothing(a)
    BY <1>2 DEF Nothing
  <2>3. Learns(view[c][a], send[c], a, agents[a])
    BY <2>2, Zenon DEF ClientOK, QueueEndsRight
  <2> QED BY <2>1, <2>3
<1> QED BY <1>5, <1>7, <1>8 DEF ClientOK

\* An event moves from the scan to the channel.
LEMMA SendEventKeepsClient ==
  ASSUME FeedTypeOK, NEW c \in Clients, ClientOK(c), SendEvent
  PROVE  ClientOK(c)'
<1>1. PICK e \in pending : pending' = pending \ {e} /\ events' = Append(events, e)
  BY DEF SendEvent
<1>2. UNCHANGED <<agents, scans, cast, members, agentSub, pump, send, view, dropped, overtaken>>
  BY DEF SendEvent, clientVars, outVars
<1>3. e \in Event /\ events \in Seq(Event)
  BY DEF FeedTypeOK
<1>4. /\ Len(events) \in Nat /\ DOMAIN events = 1 .. Len(events)
      /\ DOMAIN events' = 1 .. Len(events) + 1
      /\ \A i \in 1 .. Len(events) : events'[i] = events[i] /\ i \in 1 .. Len(events) + 1
      /\ events'[Len(events) + 1] = e /\ Len(events) + 1 \in 1 .. Len(events) + 1
  BY <1>1, <1>3
<1>5. GoneIsIdle(c)' /\ ListIsOfScan(c)' /\ (Served(c)' <=> Served(c))
  BY <1>2 DEF ClientOK, GoneIsIdle, ListIsOfScan, Served, Follows
<1>6. ListIsRightOrFollowed(c)'
  <2> SUFFICES ASSUME Served(c), pump[c].pc = "send", NEW a \in Agents,
                      pump[c].list.agents[a] # agents[a]
               PROVE  Comes(c, a, pump[c].list.scan)'
    BY <1>2, <1>5 DEF ListIsRightOrFollowed
  <2>1. Comes(c, a, pump[c].list.scan)
    BY DEF ClientOK, ListIsRightOrFollowed
  <2>2. CASE e.agent = a /\ e.scan > pump[c].list.scan
    BY <2>2, <1>2, <1>4 DEF Comes, Newer
  <2>3. CASE \E d \in pending \ {e} : d.agent = a /\ d.scan > pump[c].list.scan
    BY <2>3, <1>1, <1>2 DEF Comes
  <2>4. CASE Newer(events, a, pump[c].list.scan)
    <3>1. PICK i \in 1 .. Len(events) : events[i].agent = a /\ events[i].scan > pump[c].list.scan
      BY <2>4, <1>4 DEF Newer
    <3>2. i \in DOMAIN events' /\ events'[i] = events[i]
      BY <1>4
    <3> QED BY <3>1, <3>2, <1>2 DEF Comes, Newer
  <2>5. CASE Awaited(c) /\ Newer(cast.msgs, a, pump[c].list.scan)
    BY <2>5, <1>2 DEF Comes, Newer, Awaited
  <2> QED BY <2>1, <2>2, <2>3, <2>4, <2>5 DEF Comes
<1>7. QueueEndsRight(c)'
  <2> SUFFICES ASSUME Served(c), pump[c].pc # "send", NEW a \in Agents,
                      Nothing(a)', Silent(events', a), Awaited(c) => Silent(cast.msgs, a)
               PROVE  Learns(view[c][a], send[c], a, agents[a])
    BY <1>2, <1>5 DEF QueueEndsRight, Awaited
  <2>1. Silent(events, a) /\ ~Tells(e, a)
    BY <1>1, <1>3, AppendTells
  <2>2. Nothing(a)
    <3>1. e.agent # a
      BY <2>1, <1>3, EventTells
    <3> QED BY <3>1, <1>1 DEF Nothing
  <2> QED BY <2>1, <2>2, Zenon DEF ClientOK, QueueEndsRight
<1> QED BY <1>5, <1>6, <1>7 DEF ClientOK

\* The broadcast takes the event: every connected client is to be asked.
LEMMA TakeEventKeepsClient ==
  ASSUME FeedTypeOK, CastOK, NEW c \in Clients, ClientOK(c), TakeEvent
  PROVE  ClientOK(c)'
<1>1. /\ cast.msgs = <<>> /\ events # <<>> /\ events' = Tail(events)
      /\ Casting(<<Head(events)>>, members, Nobody)
      /\ UNCHANGED <<agents, scans, pending, members, agentSub, pump, send, view, dropped, overtaken>>
  BY DEF TakeEvent, clientVars, outVars
<1>2. events \in Seq(Event)
  BY DEF FeedTypeOK
<1>3. GoneIsIdle(c)' /\ ListIsOfScan(c)' /\ (Served(c)' <=> Served(c))
  BY <1>1 DEF ClientOK, GoneIsIdle, ListIsOfScan, Served, Follows
<1>4. CASE ~Served(c)
  BY <1>3, <1>4, UnservedIsOK
<1>5. CASE Served(c)
  <2>1. c \in members
    BY <1>5 DEF Served, Follows
  <2>2. Awaited(c)' /\ cast'.msgs = <<Head(events)>>
    BY <2>1, <1>1, CastingFacts DEF Awaited
  <2>3. ~Awaited(c)
    BY <1>1, FeedAssumption DEF CastOK, Awaited
  <2>4. ListIsRightOrFollowed(c)'
    <3> SUFFICES ASSUME pump[c].pc = "send", NEW a \in Agents,
                        pump[c].list.agents[a] # agents[a]
                 PROVE  Comes(c, a, pump[c].list.scan)'
      BY <1>1 DEF ListIsRightOrFollowed
    <3>1. Comes(c, a, pump[c].list.scan)
      BY <1>5 DEF ClientOK, ListIsRightOrFollowed
    <3>2. CASE \E e \in pending : e.agent = a /\ e.scan > pump[c].list.scan
      BY <3>2, <1>1 DEF Comes
    <3>3. CASE Newer(events, a, pump[c].list.scan)
      <4>1. PICK i \in DOMAIN events : events[i].agent = a /\ events[i].scan > pump[c].list.scan
        BY <3>3 DEF Newer
      <4>2. CASE i = 1
        <5> DEFINE s == <<Head(events)>>
        <5>1. DOMAIN s = {1} /\ s[1] = events[1]
          BY <1>1, <1>2
        <5> HIDE DEF s
        <5>2. Newer(s, a, pump[c].list.scan)
          BY <4>1, <4>2, <5>1 DEF Newer
        <5>3. Newer(cast'.msgs, a, pump'[c].list.scan)
          BY <5>2, <2>2, <1>1 DEF s
        <5> QED BY <5>3, <2>2 DEF Comes
      <4>3. CASE i # 1
        <5>1. i - 1 \in DOMAIN events' /\ events'[i - 1] = events[i]
          BY <4>3, <1>1, <1>2
        <5> QED BY <5>1, <4>1, <1>1 DEF Comes, Newer
      <4> QED BY <4>2, <4>3
    <3> QED BY <2>3, <3>1, <3>2, <3>3 DEF Comes
  <2>5. QueueEndsRight(c)'
    <3> SUFFICES ASSUME pump[c].pc # "send", NEW a \in Agents,
                        Nothing(a)', Silent(events', a), Silent(cast'.msgs, a)
                 PROVE  Learns(view[c][a], send[c], a, agents[a])
      BY <2>2, <1>1 DEF QueueEndsRight
    <3>1. Nothing(a)
      BY <1>1 DEF Nothing
    <3>2. ~Tells(Head(events), a)
      BY <2>2, SingleTells
    <3>3. Silent(events, a)
      BY <3>2, <1>1, <1>2, TailTells
    <3> QED BY <1>5, <2>3, <3>1, <3>3, Zenon DEF ClientOK, QueueEndsRight
  <2> QED BY <1>3, <2>4, <2>5 DEF ClientOK
<1> QED BY <1>4, <1>5

\* The broadcast asks a client: one that is served has its flag set, and will be sent to.
LEMMA AskKeepsClient ==
  ASSUME FeedTypeOK, NEW c \in Clients, ClientOK(c), NEW d \in Clients, AskClient(d)
  PROVE  ClientOK(c)'
<1> DEFINE to == IF agentSub[d] THEN d ELSE Nobody
<1>1. /\ d \in cast.todo /\ cast.to = Nobody
      /\ Casting(cast.msgs, cast.todo \ {d}, to)
      /\ UNCHANGED <<registryVars, members, clientVars, outVars, view>>
  BY DEF AskClient
<1>2. to = (IF agentSub[d] THEN d ELSE Nobody)
  OBVIOUS
<1> HIDE DEF to
<1>3. /\ cast'.todo = cast.todo \ {d} /\ cast'.to = to
      /\ ~(cast.todo \ {d} = {} /\ to = Nobody) => cast'.msgs = cast.msgs
  BY <1>1, CastingFacts
<1>4. UNCHANGED <<agentSub, pump, send, dropped, overtaken>>
  BY <1>1 DEF clientVars, outVars
<1>5. c # Nobody /\ d # Nobody
  BY FeedAssumption
<1>6. CASE d # c
  <2>1. Awaited(c)' <=> Awaited(c)
    BY <1>1, <1>2, <1>3, <1>5, <1>6 DEF Awaited
  <2>2. Awaited(c) => cast'.msgs = cast.msgs
    BY <1>1, <1>3, <1>5, <1>6 DEF Awaited
  <2>3. Alone(c)
    BY <1>1, <1>4, <2>1, <2>2 DEF Alone
  <2> QED BY <2>3, AloneKeeps
<1>7. CASE d = c /\ agentSub[c]
  <2>1. Awaited(c)' /\ Awaited(c) /\ cast'.msgs = cast.msgs
    BY <1>1, <1>2, <1>3, <1>5, <1>7 DEF Awaited
  <2>2. Alone(c)
    BY <1>1, <1>4, <2>1 DEF Alone
  <2> QED BY <2>2, AloneKeeps
<1>8. CASE d = c /\ ~agentSub[c]
  <2>1. ~Served(c)'
    BY <1>4, <1>8 DEF Served, Follows
  <2>2. GoneIsIdle(c)' /\ ListIsOfScan(c)'
    BY <1>1, <1>4 DEF registryVars, ClientOK, GoneIsIdle, ListIsOfScan
  <2> QED BY <2>1, <2>2, UnservedIsOK
<1> QED BY <1>6, <1>7, <1>8

\* The broadcast sends to a client: if that is before its list, the event is older than
\* the list; otherwise, if it is the last of its agent, it tells the agent's state.
LEMMA SendKeepsClient ==
  ASSUME FeedTypeOK, CastOK, ChainEndsRight, NEW c \in Clients, ClientOK(c),
         NEW d \in Clients, SendToClient(d)
  PROVE  ClientOK(c)'
<1> DEFINE m == cast.msgs[1]
<1>1. /\ cast.to = d
      /\ Queue(d, m)
      /\ overtaken' = [overtaken EXCEPT ![d] = overtaken[d] \/ Overtakes(d, m)]
      /\ Casting(cast.msgs, cast.todo, Nobody)
      /\ UNCHANGED <<registryVars, members, clientVars, view>>
  BY DEF SendToClient
<1>2. /\ cast'.todo = cast.todo /\ cast'.to = Nobody
      /\ cast.todo # {} => cast'.msgs = cast.msgs
  BY <1>1, CastingFacts
<1>3. /\ cast.msgs \in Seq(Event) /\ cast.msgs # <<>> /\ Len(cast.msgs) = 1
      /\ m \in Event /\ DOMAIN cast.msgs = {1}
  <2>1. cast.msgs \in Seq(Event) /\ Len(cast.msgs) <= 1
    BY DEF FeedTypeOK
  <2>2. cast.msgs # <<>>
    BY <1>1, FeedAssumption DEF CastOK
  <2>3. Len(cast.msgs) \in Nat /\ Len(cast.msgs) # 0
    BY <2>1, <2>2
  <2>4. Len(cast.msgs) = 1
    <3>1. \A n \in Nat : n <= 1 /\ n # 0 => n = 1
      OBVIOUS
    <3> QED BY <2>1, <2>3, <3>1, Zenon
  <2> QED BY <2>1, <2>2, <2>4
<1>4. m \in Message
  BY <1>3 DEF Message
<1> HIDE DEF m
<1>5. /\ \A b \in Clients \ {d} : send'[b] = send[b] /\ dropped'[b] = dropped[b]
      /\ \/ send'[d] = Append(send[d], m) /\ dropped'[d] = dropped[d]
         \/ send'[d] = send[d] /\ dropped'[d]
  BY <1>1, <1>4, QueueFacts
<1>6. overtaken \in [Clients -> BOOLEAN] /\ send \in [Clients -> Seq(Message)]
  BY DEF FeedTypeOK
<1>7. agents' = agents /\ pending' = pending /\ events' = events /\ scans' = scans
      /\ UNCHANGED <<agentSub, pump, members, view>>
  BY <1>1 DEF registryVars, clientVars
<1>8. CASE d # c
  <2>1. overtaken'[c] = overtaken[c] /\ send'[c] = send[c] /\ dropped'[c] = dropped[c]
    BY <1>1, <1>5, <1>6, <1>8
  <2>2. c # Nobody
    BY FeedAssumption
  <2>3. Awaited(c)' <=> Awaited(c)
    BY <1>1, <1>2, <1>8, <2>2 DEF Awaited
  <2>4. Awaited(c) => cast'.msgs = cast.msgs
    BY <1>1, <1>2, <1>8 DEF Awaited
  <2>5. Alone(c)
    BY <1>1, <1>7, <2>1, <2>3, <2>4 DEF Alone
  <2> QED BY <2>5, AloneKeeps
<1>9. CASE d = c
  <2>1. GoneIsIdle(c)' /\ ListIsOfScan(c)'
    BY <1>7 DEF ClientOK, GoneIsIdle, ListIsOfScan
  <2>2. CASE ~Served(c)'
    BY <2>1, <2>2, UnservedIsOK
  <2>3. CASE Served(c)'
    <3>1. /\ ~overtaken[c] /\ ~Overtakes(c, m) /\ ~dropped[c]
          /\ send'[c] = Append(send[c], m)
      BY <2>3, <1>1, <1>5, <1>6, <1>9 DEF Served
    <3>2. Served(c)
      BY <2>3, <3>1, <1>7 DEF Served, Follows
    <3>3. Awaited(c)
      BY <1>1, <1>9 DEF Awaited
    <3>4. ListIsRightOrFollowed(c)'
      <4> SUFFICES ASSUME pump[c].pc = "send", NEW a \in Agents,
                          pump[c].list.agents[a] # agents[a]
                   PROVE  Comes(c, a, pump[c].list.scan)'
        BY <1>7 DEF ListIsRightOrFollowed
      <4>1. Comes(c, a, pump[c].list.scan)
        BY <3>2 DEF ClientOK, ListIsRightOrFollowed
      <4>2. ~Newer(cast.msgs, a, pump[c].list.scan)
        BY <3>1, <1>3 DEF Newer, Overtakes, m
      <4> QED BY <4>1, <4>2, <1>7 DEF Comes
    <3>5. QueueEndsRight(c)'
      <4> SUFFICES ASSUME pump[c].pc # "send", NEW a \in Agents,
                          Nothing(a), Silent(events, a)
                   PROVE  Learns(view[c][a], send'[c], a, agents[a])
        BY <1>7 DEF QueueEndsRight, Nothing
      <4>1. /\ Silent(send'[c], a) <=> Silent(send[c], a) /\ ~Tells(m, a)
            /\ Tells(m, a) /\ Told(m, a) = agents[a] => EndsWith(send'[c], a, agents[a])
            /\ ~Tells(m, a) /\ EndsWith(send[c], a, agents[a]) => EndsWith(send'[c], a, agents[a])
        <5>1. send[c] \in Seq(Message)
          BY <1>6
        <5> QED BY <5>1, <3>1, <1>4, AppendTells
      <4>2. CASE Tells(m, a)
        <5>1. EndsWith(cast.msgs, a, agents[a])
          BY DEF ChainEndsRight
        <5>2. Told(m, a) = agents[a]
          <6>1. Tells(cast.msgs[1], a)
            BY <4>2 DEF m
          <6>2. \A j \in DOMAIN cast.msgs : ~(j > 1)
            BY <1>3
          <6>3. Told(cast.msgs[1], a) = agents[a]
            BY <5>1, <6>1, <6>2, <1>3, Zenon DEF EndsWith
          <6> QED BY <6>3 DEF m
        <5> QED BY <4>1, <4>2, <5>2 DEF Learns
      <4>3. CASE ~Tells(m, a)
        <5>1. Silent(cast.msgs, a)
          BY <4>3, <1>3 DEF Silent, m
        <5>2. Learns(view[c][a], send[c], a, agents[a])
          BY <3>2, <5>1, Zenon DEF ClientOK, QueueEndsRight
        <5> QED BY <4>1, <4>3, <5>2 DEF Learns
      <4> QED BY <4>2, <4>3
    <3> QED BY <2>1, <3>4, <3>5 DEF ClientOK
  <2> QED BY <2>2, <2>3
<1> QED BY <1>8, <1>9

\* What the steps of a client leave alone.
LEMMA OthersAreAlone ==
  ASSUME FeedTypeOK, NEW c \in Clients, NEW d \in Clients, d # c,
         \/ Connect(d) \/ Disconnect(d)
         \/ \E request \in {"subscribe", "list", "unsubscribe"} : Request(d, request)
         \/ Handle(d) \/ WritePump(d)
  PROVE  Alone(c)
<1>1. /\ agentSub \in [Clients -> BOOLEAN] /\ pump \in [Clients -> Pump]
      /\ send \in [Clients -> Seq(Message)] /\ view \in [Clients -> AgentMap]
      /\ dropped \in [Clients -> BOOLEAN] /\ overtaken \in [Clients -> BOOLEAN]
  BY DEF FeedTypeOK
<1> DEFINE Mine == /\ UNCHANGED registryVars /\ UNCHANGED cast
                   /\ c \in members' <=> c \in members
                   /\ agentSub'[c] = agentSub[c] /\ pump'[c] = pump[c]
                   /\ send'[c] = send[c] /\ view'[c] = view[c]
                   /\ dropped'[c] = dropped[c] /\ overtaken'[c] = overtaken[c]
<1> SUFFICES Mine
  BY DEF Alone, Awaited
<1>2. CASE Connect(d)
  BY <1>2 DEF Connect, clientVars, outVars
<1>3. CASE Disconnect(d)
  BY <1>1, <1>3 DEF Disconnect
<1>4. ASSUME NEW pc, Goes(d, pc)  PROVE pump'[c] = pump[c]
  BY <1>1, <1>4 DEF Goes
<1>5. ASSUME NEW request, Request(d, request)  PROVE Mine
  BY <1>1, <1>4, <1>5 DEF Request, outVars
<1>6. CASE SetsFlag(d, "get")
  BY <1>1, <1>4, <1>6 DEF SetsFlag, outVars
<1>7. CASE GetsList(d, "send")
  BY <1>1, <1>7 DEF GetsList
<1>8. ASSUME NEW m \in Message, Queue(d, m)
      PROVE  send'[c] = send[c] /\ dropped'[c] = dropped[c]
  BY <1>8, QueueFacts
<1>9. CASE SendList(d)
  <2>1. pump[d].list \in Message
    BY <1>1 DEF Pump, Message
  <2> QED BY <1>1, <1>8, <1>9, <2>1 DEF SendList
<1>10. CASE UnsubscribeAgents(d)
  <2>1. Done \in Message
    BY DEF Message
  <2>2. CASE /\ agentSub' = [agentSub EXCEPT ![d] = FALSE]
             /\ Goes(d, "reply")
             /\ UNCHANGED <<registryVars, cast, members, asked, outVars, view>>
    BY <1>1, <1>4, <2>2 DEF outVars
  <2>3. CASE /\ Queue(d, Done)
             /\ Goes(d, "idle")
             /\ UNCHANGED <<registryVars, cast, members, agentSub, asked, overtaken, view>>
    BY <1>4, <1>8, <2>1, <2>3
  <2> QED BY <1>10, <2>2, <2>3 DEF UnsubscribeAgents
<1>11. CASE WritePump(d)
  BY <1>1, <1>11 DEF WritePump, clientVars
<1> HIDE DEF Mine
<1> QED BY <1>2, <1>3, <1>5, <1>6, <1>7, <1>9, <1>10, <1>11 DEF Handle, SubscribeAgents, ListAgents

\* A client's own steps.
LEMMA OwnStepKeeps ==
  ASSUME FeedTypeOK, NEW c \in Clients, ClientOK(c),
         \/ Connect(c) \/ Disconnect(c)
         \/ \E request \in {"subscribe", "list", "unsubscribe"} : Request(c, request)
         \/ Handle(c) \/ WritePump(c)
  PROVE  ClientOK(c)'
<1>1. /\ agentSub \in [Clients -> BOOLEAN] /\ pump \in [Clients -> Pump]
      /\ send \in [Clients -> Seq(Message)] /\ view \in [Clients -> AgentMap]
      /\ dropped \in [Clients -> BOOLEAN] /\ overtaken \in [Clients -> BOOLEAN]
      /\ scans \in Nat /\ events \in Seq(Event) /\ cast.msgs \in Seq(Event)
      /\ members \subseteq Clients
  BY DEF FeedTypeOK
<1>2. ClientOK(c)
  OBVIOUS
<1>3. NoList.scan = 0
  BY DEF NoList
<1>4. CASE Connect(c)
  <2>1. /\ members' = members \cup {c} /\ c \notin members
        /\ UNCHANGED <<registryVars, cast, clientVars, outVars, view>>
    BY <1>4 DEF Connect
  <2>2. ~Served(c)'
    BY <2>1 DEF clientVars, ClientOK, GoneIsIdle, Served, Follows
  <2>3. GoneIsIdle(c)' /\ ListIsOfScan(c)'
    BY <2>1 DEF registryVars, clientVars, ClientOK, GoneIsIdle, ListIsOfScan
  <2> QED BY <2>2, <2>3, UnservedIsOK
<1>5. CASE Disconnect(c)
  <2>1. /\ members' = members \ {c}
        /\ agentSub'[c] = FALSE /\ pump'[c] = [pc |-> "idle", list |-> NoList]
        /\ scans' = scans
    BY <1>1, <1>5 DEF Disconnect, registryVars
  <2>2. pump'[c].pc = "idle" /\ pump'[c].list.scan = 0
    BY <2>1, <1>3
  <2>3. ~Served(c)'
    BY <2>1 DEF Served, Follows
  <2>4. GoneIsIdle(c)' /\ ListIsOfScan(c)'
    BY <2>1, <2>2, <1>1 DEF GoneIsIdle, ListIsOfScan
  <2> QED BY <2>3, <2>4, UnservedIsOK
<1>6. ASSUME NEW pc, Goes(c, pc)
      PROVE  pump'[c].pc = pc /\ pump'[c].list = pump[c].list
  <2>1. pump'[c] = [pc |-> pc, list |-> pump[c].list]
    BY <1>1, <1>6 DEF Goes
  <2> QED BY <2>1
<1>7. ASSUME NEW pc, Goes(c, pc), pump[c].pc # "idle", UNCHANGED members, UNCHANGED scans
      PROVE  GoneIsIdle(c)' /\ ListIsOfScan(c)'
  <2>1. pump'[c].list = pump[c].list
    BY <1>6, <1>7, Zenon
  <2> QED BY <2>1, <1>7 DEF ClientOK, GoneIsIdle, ListIsOfScan
<1>8. ASSUME NEW request \in {"subscribe", "list", "unsubscribe"}, Request(c, request)
      PROVE  ClientOK(c)'
  <2>1. /\ c \in members /\ pump[c].pc = "idle" /\ Goes(c, request)
        /\ UNCHANGED <<registryVars, cast, members, agentSub, outVars, view>>
    BY <1>8 DEF Request
  <2>3. pump'[c].pc = request /\ pump'[c].list = pump[c].list
    BY <2>1, <1>6, Zenon
  <2>4. GoneIsIdle(c)' /\ ListIsOfScan(c)'
    BY <2>1, <2>3 DEF registryVars, ClientOK, GoneIsIdle, ListIsOfScan
  <2>5. ListIsRightOrFollowed(c)'
    BY <2>3 DEF ListIsRightOrFollowed
  <2>6. Served(c)' => Served(c)
    BY <2>1, <2>3 DEF outVars, Served, Follows
  <2>7. QueueEndsRight(c)'
    <3> SUFFICES ASSUME Served(c), NEW a \in Agents,
                        Nothing(a), Silent(events, a), Awaited(c) => Silent(cast.msgs, a)
                 PROVE  Learns(view[c][a], send[c], a, agents[a])
      BY <2>1, <2>6 DEF registryVars, outVars, QueueEndsRight, Nothing, Awaited
    <3> QED BY <2>1, Zenon DEF ClientOK, QueueEndsRight
  <2> QED BY <2>4, <2>5, <2>7 DEF ClientOK
<1>9. CASE pump[c].pc = "subscribe" /\ SetsFlag(c, "get")
  <2>1. Goes(c, "get") /\ UNCHANGED <<members, scans>>
    BY <1>9 DEF SetsFlag, registryVars
  <2>2. pump'[c].pc = "get"
    BY <2>1, <1>6, Zenon
  <2>3. ~Served(c)'
    BY <2>2 DEF Served, Follows
  <2>4. GoneIsIdle(c)' /\ ListIsOfScan(c)'
    BY <2>1, <1>7, <1>9
  <2> QED BY <2>3, <2>4, UnservedIsOK
<1>10. CASE pump[c].pc \in {"get", "list"} /\ GetsList(c, "send")
  <2>1. /\ pump'[c] = [pc |-> "send", list |-> [kind |-> "list", agents |-> agents, scan |-> scans]]
        /\ agents' = agents /\ scans' = scans /\ members' = members
    BY <1>1, <1>10 DEF GetsList, registryVars
  <2>2. pump'[c].pc = "send" /\ pump'[c].list.agents = agents /\ pump'[c].list.scan = scans
    BY <2>1
  <2>3. c \in members
    BY <1>10 DEF ClientOK, GoneIsIdle
  <2>4. GoneIsIdle(c)' /\ ListIsOfScan(c)'
    BY <2>1, <2>2, <2>3, <1>1 DEF GoneIsIdle, ListIsOfScan
  <2> QED BY <2>1, <2>2, <2>4 DEF ClientOK, ListIsRightOrFollowed, QueueEndsRight
<1>11. CASE SendList(c)
  <2>1. /\ pump[c].pc = "send" /\ Queue(c, pump[c].list)
        /\ pump'[c] = [pc |-> "idle", list |-> NoList]
        /\ UNCHANGED <<registryVars, cast, members, agentSub, asked, overtaken, view>>
    BY <1>1, <1>11 DEF SendList
  <2>2. pump'[c].pc = "idle" /\ pump'[c].list.scan = 0
    BY <2>1, <1>3
  <2>3. pump[c].list \in List /\ pump[c].list \in Message
    BY <1>1 DEF Pump, Message
  <2>4. GoneIsIdle(c)' /\ ListIsOfScan(c)'
    BY <2>1, <2>2, <1>1 DEF registryVars, ClientOK, GoneIsIdle, ListIsOfScan
  <2>5. CASE ~Served(c)'
    BY <2>4, <2>5, UnservedIsOK
  <2>6. CASE Served(c)'
    <3>1. send'[c] = Append(send[c], pump[c].list) /\ ~dropped[c]
      BY <2>1, <2>3, <2>6, QueueFacts DEF Served
    <3>2. Served(c)
      BY <2>1, <2>6, <3>1 DEF Served, Follows
    <3>3. QueueEndsRight(c)'
      <4> SUFFICES ASSUME NEW a \in Agents,
                          Nothing(a), Silent(events, a), Awaited(c) => Silent(cast.msgs, a)
                   PROVE  Learns(view[c][a], send'[c], a, agents[a])
        BY <2>1 DEF registryVars, QueueEndsRight, Nothing, Awaited
      <4>1. ~Comes(c, a, pump[c].list.scan)
        <5>1. ~Newer(events, a, pump[c].list.scan)
          BY <1>1, SilentIsOld
        <5>2. Awaited(c) => ~Newer(cast.msgs, a, pump[c].list.scan)
          BY <1>1, SilentIsOld
        <5> QED BY <5>1, <5>2 DEF Comes, Nothing
      <4>2. pump[c].list.agents[a] = agents[a]
        BY <2>1, <3>2, <4>1 DEF ClientOK, ListIsRightOrFollowed
      <4>3. pump[c].list.kind = "list"
        BY <2>3 DEF List
      <4>4. Tells(pump[c].list, a) /\ Told(pump[c].list, a) = agents[a]
        BY <4>2, <4>3 DEF Tells, Told
      <4>5. send[c] \in Seq(Message)
        BY <1>1
      <4>6. ~Silent(send'[c], a) /\ EndsWith(send'[c], a, agents[a])
        BY <2>3, <3>1, <4>4, <4>5, AppendTells
      <4> QED BY <4>6 DEF Learns
    <3> QED BY <2>2, <2>4, <3>3 DEF ClientOK, ListIsRightOrFollowed
  <2> QED BY <2>5, <2>6
<1>12. CASE /\ pump[c].pc = "unsubscribe"
            /\ agentSub' = [agentSub EXCEPT ![c] = FALSE]
            /\ Goes(c, "reply")
            /\ UNCHANGED <<registryVars, cast, members, asked, outVars, view>>
  <2>1. ~Served(c)'
    BY <1>1, <1>12 DEF Served, Follows
  <2>2. GoneIsIdle(c)' /\ ListIsOfScan(c)'
    BY <1>7, <1>12 DEF registryVars
  <2> QED BY <2>1, <2>2, UnservedIsOK
<1>13. CASE /\ pump[c].pc = "reply"
            /\ Queue(c, Done)
            /\ Goes(c, "idle")
            /\ UNCHANGED <<registryVars, cast, members, agentSub, asked, overtaken, view>>
  <2>1. GoneIsIdle(c)' /\ ListIsOfScan(c)'
    BY <1>7, <1>13 DEF registryVars
  <2>2. pump'[c].pc = "idle"
    BY <1>6, <1>13, Zenon
  <2>3. CASE ~Served(c)'
    BY <2>1, <2>3, UnservedIsOK
  <2>4. CASE Served(c)'
    <3>1. Done \in Message
      BY DEF Message
    <3>2. send'[c] = Append(send[c], Done) /\ ~dropped[c]
      BY <1>13, <2>4, <3>1, QueueFacts DEF Served
    <3>3. Served(c)
      BY <1>13, <2>4, <3>2 DEF Served, Follows
    <3>4. QueueEndsRight(c)'
      <4> SUFFICES ASSUME NEW a \in Agents,
                          Nothing(a), Silent(events, a), Awaited(c) => Silent(cast.msgs, a)
                   PROVE  Learns(view[c][a], send'[c], a, agents[a])
        BY <1>13 DEF registryVars, QueueEndsRight, Nothing, Awaited
      <4>1. Learns(view[c][a], send[c], a, agents[a])
        BY <1>13, <3>3, Zenon DEF ClientOK, QueueEndsRight
      <4>2. ~Tells(Done, a)
        BY DEF Tells, Done
      <4>3. send[c] \in Seq(Message)
        BY <1>1
      <4>4. /\ Silent(send'[c], a) <=> Silent(send[c], a)
            /\ EndsWith(send[c], a, agents[a]) => EndsWith(send'[c], a, agents[a])
        BY <3>1, <3>2, <4>2, <4>3, AppendTells
      <4> QED BY <4>1, <4>4 DEF Learns
    <3> QED BY <2>1, <2>2, <3>4 DEF ClientOK, ListIsRightOrFollowed
  <2> QED BY <2>3, <2>4
<1>14. CASE WritePump(c)
  <2> DEFINE m == Head(send[c])
  <2>1. /\ send[c] # <<>> /\ view'[c] = After(view[c], m) /\ send'[c] = Tail(send[c])
        /\ UNCHANGED <<registryVars, cast, members, clientVars, dropped, overtaken>>
    BY <1>1, <1>14 DEF WritePump
  <2>2. send[c] \in Seq(Message)
    BY <1>1
  <2> HIDE DEF m
  <2>3. GoneIsIdle(c)' /\ ListIsOfScan(c)' /\ (Served(c)' <=> Served(c))
    BY <2>1 DEF registryVars, clientVars, ClientOK, GoneIsIdle, ListIsOfScan, Served, Follows
  <2>4. ListIsRightOrFollowed(c)'
    <3>1. UNCHANGED <<agents, pending, events, cast, pump>>
      BY <2>1 DEF registryVars, clientVars
    <3> QED BY <2>3, <3>1 DEF ClientOK, ListIsRightOrFollowed, Comes, Newer, Awaited
  <2>5. QueueEndsRight(c)'
    <3> SUFFICES ASSUME Served(c), pump[c].pc # "send", NEW a \in Agents,
                        Nothing(a), Silent(events, a), Awaited(c) => Silent(cast.msgs, a)
                 PROVE  Learns(view'[c][a], send'[c], a, agents[a])
      BY <2>1, <2>3 DEF registryVars, clientVars, QueueEndsRight, Nothing, Awaited
    <3>1. Learns(view[c][a], send[c], a, agents[a])
      BY Zenon DEF ClientOK, QueueEndsRight
    <3>2. /\ Silent(send[c], a) <=> ~Tells(m, a) /\ Silent(send'[c], a)
          /\ EndsWith(send[c], a, agents[a]) => EndsWith(send'[c], a, agents[a])
          /\ EndsWith(send[c], a, agents[a]) /\ Silent(send'[c], a) /\ Tells(m, a)
               => Told(m, a) = agents[a]
      BY <2>1, <2>2, TailTells DEF m
    <3>3. view'[c][a] = IF Tells(m, a) THEN Told(m, a) ELSE view[c][a]
      BY <2>1 DEF After
    <3>4. Silent(send'[c], a) => view'[c][a] = agents[a]
      BY <3>1, <3>2, <3>3, Zenon DEF Learns
    <3> QED BY <3>1, <3>2, <3>4 DEF Learns
  <2> QED BY <2>3, <2>4, <2>5 DEF ClientOK
<1> QED BY <1>4, <1>5, <1>8, <1>9, <1>10, <1>11, <1>12, <1>13, <1>14
        DEF Handle, SubscribeAgents, ListAgents, UnsubscribeAgents

LEMMA FeedInvInit == Init => FeedInv
<1> SUFFICES ASSUME Init  PROVE FeedInv
  OBVIOUS
<1>1. FeedTypeOK
  <2>1. [pc |-> "idle", list |-> NoList] \in Pump
    BY ListType DEF Pump
  <2>2. pump \in [Clients -> Pump]
    BY <2>1 DEF Init
  <2>3. /\ NoCast.msgs = <<>> /\ NoCast.todo = {} /\ NoCast.to = Nobody
        /\ cast = NoCast /\ events = <<>>
    BY DEF Init, NoCast
  <2>4. NoAgents \in AgentMap
    BY DEF NoAgents, AgentMap, States
  <2>5. /\ events \in Seq(Event) /\ Len(events) <= EventsCap
        /\ cast.msgs \in Seq(Event) /\ Len(cast.msgs) <= 1
    <3>1. events = <<>> /\ cast.msgs = <<>>
      BY <2>3
    <3>2. /\ events \in Seq(Event) /\ Len(events) = 0
          /\ cast.msgs \in Seq(Event) /\ Len(cast.msgs) = 0
      BY <3>1, NoMessages, Zenon
    <3> QED BY <3>2, FeedAssumption
  <2>6. send \in [Clients -> Seq(Message)] /\ \A c \in Clients : Len(send[c]) <= SendCap
    <3>1. send = [c \in Clients |-> <<>>]
      BY DEF Init
    <3>2. \A c \in Clients : send[c] = <<>>
      BY <3>1
    <3> QED BY <3>1, <3>2, NoMessages, FeedAssumption
  <2>7. /\ agents \in AgentMap /\ scans \in Nat /\ pending \subseteq Event
        /\ cast.todo \subseteq members /\ cast.to \in members \cup {Nobody}
        /\ members \subseteq Clients
        /\ agentSub \in [Clients -> BOOLEAN]
        /\ asked \in [Clients -> Nat] /\ view \in [Clients -> AgentMap]
        /\ dropped \in [Clients -> BOOLEAN] /\ overtaken \in [Clients -> BOOLEAN]
    BY <2>3, <2>4 DEF Init
  <2> QED BY <2>2, <2>5, <2>6, <2>7 DEF FeedTypeOK
<1>2. /\ CastOK
      /\ PendingIsNew
  BY DEF Init, CastOK, NoCast, PendingIsNew
<1>3. ChainEndsRight
  <2>1. events = <<>> /\ cast.msgs = <<>>
    BY DEF Init, NoCast
  <2>2. ASSUME NEW a \in Agents
        PROVE  EndsWith(events, a, agents[a]) /\ EndsWith(cast.msgs, a, agents[a])
    BY <2>1, EmptyTells, Zenon
  <2> QED BY <2>2 DEF ChainEndsRight
<1>4. ASSUME NEW c \in Clients  PROVE ClientOK(c)
  <2>1. pump[c] = [pc |-> "idle", list |-> NoList] /\ members = {} /\ ~agentSub[c] /\ scans = 0
    BY DEF Init
  <2>2. pump[c].pc = "idle" /\ pump[c].list.scan = 0
    BY <2>1 DEF NoList
  <2>3. GoneIsIdle(c) /\ ListIsOfScan(c) /\ ~Served(c)
    BY <2>1, <2>2 DEF GoneIsIdle, ListIsOfScan, Served, Follows
  <2> QED BY <2>3 DEF ClientOK, ListIsRightOrFollowed, QueueEndsRight
<1> QED BY <1>1, <1>2, <1>3, <1>4 DEF FeedInv

LEMMA FeedInvStep == FeedInv /\ [FeedNext]_vars => FeedInv'
<1> SUFFICES ASSUME FeedInv, [FeedNext]_vars  PROVE FeedInv'
  OBVIOUS
<1>1. FeedTypeOK /\ CastOK /\ PendingIsNew /\ ChainEndsRight
  BY DEF FeedInv
<1>2. FeedTypeOK' /\ CastOK'
  BY <1>1, TypeStep
<1>3. PendingIsNew' /\ ChainEndsRight'
  BY <1>1, ChainStep
<1>4. ASSUME NEW c \in Clients  PROVE ClientOK(c)'
  <2>1. ClientOK(c)
    BY DEF FeedInv
  <2>2. CASE Scan
    BY <1>1, <2>1, <2>2, ScanKeepsClient
  <2>3. CASE SendEvent
    BY <1>1, <2>1, <2>3, SendEventKeepsClient
  <2>4. CASE TakeEvent
    BY <1>1, <2>1, <2>4, TakeEventKeepsClient
  <2>5. ASSUME NEW d \in Clients, AskClient(d)  PROVE ClientOK(c)'
    BY <1>1, <2>1, <2>5, AskKeepsClient
  <2>6. ASSUME NEW d \in Clients, SendToClient(d)  PROVE ClientOK(c)'
    BY <1>1, <2>1, <2>6, SendKeepsClient
  <2>7. ASSUME NEW d \in Clients,
               \/ Connect(d) \/ Disconnect(d)
               \/ \E request \in {"subscribe", "list", "unsubscribe"} : Request(d, request)
               \/ Handle(d) \/ WritePump(d)
        PROVE  ClientOK(c)'
    <3>1. CASE d = c
      BY <1>1, <2>1, <2>7, <3>1, OwnStepKeeps
    <3>2. CASE d # c
      <4>1. Alone(c)
        BY <1>1, <2>7, <3>2, OthersAreAlone
      <4> QED BY <2>1, <4>1, AloneKeeps
    <3> QED BY <3>1, <3>2
  <2>8. CASE UNCHANGED vars
    <3>1. Alone(c)
      BY <2>8 DEF vars, clientVars, outVars, Alone, Awaited
    <3> QED BY <2>1, <3>1, AloneKeeps
  <2>9. CASE FeedNext
    BY <2>9, <2>2, <2>3, <2>4, <2>5, <2>6, <2>7 DEF FeedNext, Forward
  <2> QED BY <2>8, <2>9
<1> QED BY <1>2, <1>3, <1>4 DEF FeedInv

\* The inductive invariant.
THEOREM FeedInvariant == FeedSpec => []FeedInv
  BY FeedInvInit, FeedInvStep, PTL DEF FeedSpec

\* Types, and the queues keep to their capacities: Registry.events and Client.send.
THEOREM FeedTypes == FeedSpec => []FeedTypeOK
<1>1. FeedInv => FeedTypeOK
  BY DEF FeedInv
<1> QED BY <1>1, FeedInvariant, PTL

\* The stages put together.
LEMMA InvImpliesNoChangeIsMissed == FeedInv => NoChangeIsMissed
<1> SUFFICES ASSUME FeedInv, NEW c \in Clients, Served(c), NEW a \in Agents
             PROVE  LET last == {e \in pending : e.agent = a} IN
                    /\ \A e \in last : e.state = agents[a]
                    /\ last = {} => Learns(view[c][a], OnItsWay(c), a, agents[a])
  BY DEF NoChangeIsMissed
<1> DEFINE list == IF pump[c].pc = "send" THEN <<pump[c].list>> ELSE <<>>
           msgs == IF c \in cast.todo \cup {cast.to} THEN cast.msgs ELSE <<>>
<1>1. /\ events \in Seq(Event) /\ cast.msgs \in Seq(Event) /\ send[c] \in Seq(Message)
      /\ pump[c] \in Pump
  BY DEF FeedInv, FeedTypeOK
<1>2. /\ events \in Seq(Message) /\ msgs \in Seq(Message) /\ list \in Seq(Message)
  <2>1. Event \subseteq Message /\ List \subseteq Message
    BY DEF Message
  <2>2. events \in Seq(Message) /\ cast.msgs \in Seq(Message)
    BY <1>1, <2>1
  <2>3. pump[c].list \in Message
    BY <1>1, <2>1 DEF Pump
  <2>4. <<pump[c].list>> \in Seq(Message)
    BY <2>3
  <2> QED BY <2>2, <2>4, NoMessages
<1>3. \A e \in pending : e.agent = a => e.state = agents[a]
  BY DEF FeedInv, PendingIsNew
<1>4. ASSUME Nothing(a)  PROVE Learns(view[c][a], OnItsWay(c), a, agents[a])
  <2>1. /\ EndsWith(events, a, agents[a])
        /\ Silent(events, a) => EndsWith(cast.msgs, a, agents[a])
    BY <1>4 DEF FeedInv, ChainEndsRight
  <2>2. Silent(events, a) => EndsWith(msgs, a, agents[a])
    BY <2>1, EmptyTells, Zenon
  <2>3. ASSUME Silent(events, a), Silent(msgs, a)
        PROVE  Learns(view[c][a], send[c] \o list, a, agents[a])
    <3>1. Awaited(c) => Silent(cast.msgs, a)
      BY <2>3, Zenon DEF Awaited
    <3>2. CASE pump[c].pc = "send"
      <4>1. ~Comes(c, a, pump[c].list.scan)
        <5>1. ~Newer(events, a, pump[c].list.scan)
          BY <1>1, <2>3, SilentIsOld
        <5>2. Awaited(c) => ~Newer(cast.msgs, a, pump[c].list.scan)
          BY <1>1, <3>1, SilentIsOld
        <5> QED BY <1>4, <5>1, <5>2 DEF Comes, Nothing
      <4>2. pump[c].list.agents[a] = agents[a]
        BY <3>2, <4>1 DEF FeedInv, ClientOK, ListIsRightOrFollowed
      <4>3. pump[c].list.kind = "list"
        BY <1>1 DEF Pump, List
      <4>4. Tells(pump[c].list, a) /\ Told(pump[c].list, a) = agents[a]
        BY <4>2, <4>3 DEF Tells, Told
      <4>5. list = <<pump[c].list>>
        BY <3>2
      <4>6. EndsWith(list, a, agents[a]) /\ ~Silent(list, a)
        BY <4>4, <4>5, SingleTells, Zenon
      <4> HIDE DEF list
      <4> QED BY <1>1, <1>2, <4>6, ConcatLearns
    <3>3. CASE pump[c].pc # "send"
      <4>1. Learns(view[c][a], send[c], a, agents[a])
        BY <1>4, <2>3, <3>1, <3>3, Zenon DEF FeedInv, ClientOK, QueueEndsRight
      <4>2. list = <<>>
        BY <3>3
      <4>3. EndsWith(list, a, agents[a])
        BY <4>2, EmptyTells, Zenon
      <4> HIDE DEF list
      <4> QED BY <1>1, <1>2, <4>1, <4>3, ConcatLearns
    <3> QED BY <3>2, <3>3
  <2>4. OnItsWay(c) = ((send[c] \o list) \o msgs) \o events
    BY Zenon DEF OnItsWay
  <2> HIDE DEF list, msgs
  <2>5. /\ send[c] \o list \in Seq(Message)
        /\ (send[c] \o list) \o msgs \in Seq(Message)
    BY <1>1, <1>2
  <2>6. Silent(events, a) => Learns(view[c][a], (send[c] \o list) \o msgs, a, agents[a])
    BY <1>2, <2>2, <2>3, <2>5, ConcatLearns
  <2>7. Learns(view[c][a], ((send[c] \o list) \o msgs) \o events, a, agents[a])
    BY <1>2, <2>1, <2>5, <2>6, ConcatLearns
  <2> QED BY <2>4, <2>7
<1> QED BY <1>3, <1>4 DEF Nothing

\* What is on its way to a subscriber makes it know the registry's agents, however the
\* scans, the broadcast and the requests are interleaved.
THEOREM NothingIsMissed == FeedSpec => []NoChangeIsMissed
  BY InvImpliesNoChangeIsMissed, FeedInvariant, PTL

=============================================================================
