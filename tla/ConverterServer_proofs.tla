----------------------- MODULE ConverterServer_proofs -----------------------
(***************************************************************************)
(* Proofs about ConverterServer, for any number of clients, agents,        *)
(* conversations and discoveries, and without bounds on what they do.      *)
(*                                                                         *)
(* The server uses the watcher as ConversationWatcher describes it, with   *)
(* Broadcast as the reader of its events, so the watcher's invariant holds *)
(* of it as well.  ServerInv is the inductive invariant of the server.     *)
(* That a subscription's channel is left alone rests on two things: no two *)
(* subscriptions have the same channel (ChansApart), and an unsubscribe by *)
(* number closes the channel of the buffer on record, which is another's   *)
(* only if the conversation was streamed twice.  That what arrives is      *)
(* exact rests on there being one goroutine per context (GosOK), which     *)
(* alone receives from the channel (ReadsOwn), so that what it has sent,   *)
(* has in hand and has still to receive follow each other, and what is     *)
(* missing was dropped (InStep).  That no wake-up is lost has an invariant *)
(* of its own, Woken: what must be on its way is the event of the          *)
(* conversation that is active now.                                        *)
(*                                                                         *)
(* That a follow goes where its agent goes has TrackInv: the last switch   *)
(* on its way to the clients is to the active conversation, if the agent's *)
(* switches were announced in the order they were made (Switches); a       *)
(* follow is on the active conversation or a switch is still to come to    *)
(* it (Tracks); and one that streams has an open channel and a goroutine   *)
(* that reads it (OpenFollows, Streamed).                                  *)
(***************************************************************************)
EXTENDS ConverterServer, ConversationWatcher_proofs

\* The handler of client c is in the middle of follow-agent for agent a.
Following(c, a) == handler[c].pc = "follow" /\ handler[c].agent = a

\* Buffers and subscriptions go together.
SubsOK ==
  \A c \in Clients : \A s \in DOMAIN subs[c] : LET sub == subs[c][s] IN
    /\ sub.conv # None => pool[sub.chan[1]].conv = sub.conv
    /\ sub.agent = None => sub.gen = 1

\* No two subscriptions have the same channel.
ChansApart ==
  \A c, d \in Clients : \A s \in DOMAIN subs[c], t \in DOMAIN subs[d] :
    subs[c][s].conv # None /\ subs[c][s].chan = subs[d][t].chan => c = d /\ s = t

\* c.follows has the follows of c.subs, and nothing else.
FollowsOf(c) ==
  /\ \A a \in Agents : LET s == follows[c][a] IN
       s # 0 => s \in DOMAIN subs[c] /\ subs[c][s].agent = a
                /\ (~Following(c, a) => subs[c][s].listed)
  /\ \A s \in DOMAIN subs[c] : LET a == subs[c][s].agent IN
       a # None /\ subs[c][s].listed => follows[c][a] = s /\ ~Following(c, a)

FollowsOK == \A c \in Clients : FollowsOf(c)

\* What a handler has in hand.
HandlerOf(c) == LET h == handler[c]  n == Len(subs[c]) IN
  /\ h.pc = "follow" => h.agent \in Agents /\ n < MaxSubs /\ bcast.at # c
  /\ h.pc = "reply" => n > 0 /\ subs[c][n].agent # None
  /\ h.pc = "reply" /\ h.conv # None =>
       /\ subs[c][n].gen > 0
       /\ \A g \in gos : g.client = c /\ g.sub = n => g.gen # 1
  /\ c \in closing => h.pc = "idle"

HandlerOK == \A c \in Clients : HandlerOf(c)

\* What Broadcast has in hand: the follow whose switch is half done is there.
BroadcastOK ==
  bcast # NoBroadcast =>
    /\ bcast.event \in LifecycleEvent /\ bcast.event.new # None
    /\ bcast.at # None => bcast.at \in bcast.todo /\ follows[bcast.at][bcast.event.agent] # 0

\* A goroutine streams a subscription there is, for a context of its own.
GosOK ==
  /\ \A g \in gos : g.sub \in DOMAIN subs[g.client] /\ g.gen \in 1..subs[g.client][g.sub].gen
  /\ \A g, h \in gos : g.client = h.client /\ g.sub = h.sub /\ g.gen = h.gen => g = h

\* The channel it reads is no other subscription's.
ReadsOwn ==
  \A g \in gos : g.pc # "enter" =>
    /\ Made(g.chan)
    /\ subs[g.client][g.sub].agent = None => g.chan = subs[g.client][g.sub].chan
    /\ \A d \in Clients : \A t \in DOMAIN subs[d] :
         subs[d][t].chan = g.chan => d = g.client /\ t = g.sub

\* The events from low up to end are, in this order: in the goroutine's hand
\* (sends), in the channel's queue; and those that are in neither were dropped.
UpTo(low, q, lost, end, sends, seq) ==
  /\ low <= end
  /\ sends => low <= seq /\ seq < end /\ \A k \in DOMAIN q : seq < q[k]
  /\ \A k \in DOMAIN q : low <= q[k] /\ q[k] < end /\ \A j \in 1..(k - 1) : q[j] < q[k]
  /\ \A n \in low..(end - 1) : n \in lost \/ (sends /\ n = seq) \/ \E k \in DOMAIN q : q[k] = n

\* A client was sent the events below low; next is the buffer's next number.
Steps(low, x, next, sends, seq) ==
  \E end \in Nat : (x.open => end = next) /\ UpTo(low, x.q, x.lost, end, sends, seq)

\* What a conversation's client was sent, what its goroutine has in hand and
\* what is in the channel follow each other, up to the end of the buffer or of
\* what was appended before the channel was closed.
InStep(g) ==
  LET ch == subs[g.client][g.sub].chan IN
    Steps(view[g.client][g.sub].next, Channel(ch), bufs[ch[1]].next, g.pc = "send", g.seq)

StreamsInStep == \A g \in gos : subs[g.client][g.sub].agent = None => InStep(g)

ServerInv ==
  /\ WatcherInv /\ ServerTypeOK
  /\ SubsOK /\ ChansApart /\ FollowsOK /\ HandlerOK /\ BroadcastOK
  /\ GosOK /\ ReadsOwn /\ StreamsInStep
  /\ NobodyElseDetaches /\ ConversationIsExact

----------------------------------------------------------------------------
(* The server and the watcher. *)

\* A step of the server is a step of the watcher, or leaves the watcher alone.
LEMMA ServerStepMaps ==
  ASSUME ServerNext
  PROVE  [Next]_watcherVars
<1>1. CASE Watcher
  BY <1>1 DEF Watcher, Next
<1>2. CASE \E i \in DOMAIN pool : Pump(i)
  BY <1>2 DEF Pump
<1>3. CASE \E c \in Clients : Client(c)
  BY <1>3, ZenonT(30) DEF Client, FollowAgent, UnsubscribeAgent, FollowRegister, FollowReply,
              SubscribeConversation, Unsubscribe, Disconnect, RemoveClient
<1>4. CASE BroadcastNext
  BY <1>4 DEF BroadcastNext, Next, Consume
<1>5. CASE \E c \in Clients : DeliverStarted(c) \/ DeliverSwitched(c) \/ DeliverSwitchedTo(c)
  BY <1>5 DEF DeliverStarted, DeliverSwitched, DeliverSwitchedTo
<1>6. CASE Streaming
  BY <1>6 DEF Streaming, StreamEnter, StreamReceive, StreamSend, StreamDrop, StreamEnd
<1> QED BY <1>1, <1>2, <1>3, <1>4, <1>5, <1>6 DEF ServerNext, Broadcast

\* The server implements the watcher: Broadcast is the reader of its events.
THEOREM ServerUsesWatcher == ServerSpec => Spec
<1>1. ServerInit => Init
  BY DEF ServerInit
<1>2. [ServerNext]_serverVars => [Next]_watcherVars
  BY ServerStepMaps DEF serverVars
<1> QED BY <1>1, <1>2, PTL DEF ServerSpec, Spec

\* The main conversation an agent streams is its active one, whatever the
\* clients do meanwhile.
THEOREM ServerMapsAgree == ServerSpec => []MainStreamIsActive
  BY ServerUsesWatcher, MapsAgree, PTL

----------------------------------------------------------------------------
(* What steps do to the pool and to the buffers. *)

\* Stream objects stay, keep their conversation and are announced in an order
\* that is on record.
PoolGrows ==
  /\ Len(pool') \in Nat /\ Len(pool') >= Len(pool)
  /\ \A i \in DOMAIN pool : i \in DOMAIN pool' /\ pool'[i].conv = pool[i].conv
  /\ \A i \in DOMAIN pool : pool[i].pumping => pool'[i].pumping
  /\ \A i \in DOMAIN pool : pool'[i].late = pool[i].late \/ pool'[i].late = Overtaken(i)
  /\ \A i \in DOMAIN pool' \ DOMAIN pool : ~pool'[i].late

LEMMA PoolStep ==
  ASSUME WatcherInv, [Next]_watcherVars
  PROVE  PoolGrows
<1>0. /\ pool \in Seq(Stream) /\ Len(pool) \in Nat /\ DOMAIN pool = 1..Len(pool)
      /\ \A i \in DOMAIN pool : pool[i] \in Stream
  BY DEF WatcherInv, TypeOK
<1>1. CASE UNCHANGED pool
  BY <1>0, <1>1 DEF PoolGrows
<1>2. CASE LoopCancel
  BY <1>0, <1>2, StoppedFacts DEF LoopCancel, PoolGrows
<1>3. CASE \E w \in Workers : InstallMain(w)
  <2>1. PICK w \in Workers : InstallMain(w)
    BY <1>3
  <2>2. workers[w].main \in Files
    BY <2>1 DEF InstallMain, WatcherInv, WorkersOK, WorkerOK, MainFilesOf
  <2>3. PICK dead : pool' = NewStream(workers[w].main, dead)
    BY <2>1 DEF InstallMain
  <2> QED BY <1>0, <2>2, <2>3, NewStreamFacts DEF PoolGrows
<1>4. CASE \E w \in Workers, f \in Files : InstallSub(w, f)
  <2>1. PICK w \in Workers, f \in Files : InstallSub(w, f)
    BY <1>4
  <2> QED BY <1>0, <2>1, NewStreamFacts DEF InstallSub, PoolGrows
<1>5. CASE \E w \in Workers : Emit(w)
  <2>1. PICK w \in Workers : Emit(w)
    BY <1>5
  <2>2. workers[w].obj \in DOMAIN pool
    BY <1>0, <2>1 DEF Emit, WatcherInv, WorkersOK, WorkerOK
  <2>3. pool' = [pool EXCEPT ![workers[w].obj] = Announced(workers[w].obj)]
    BY <2>1 DEF Emit
  <2>4. DOMAIN pool' = DOMAIN pool /\ Len(pool') = Len(pool)
    BY <1>0, <2>3
  <2>5. \A i \in DOMAIN pool : /\ pool'[i].conv = pool[i].conv
                               /\ pool[i].pumping => pool'[i].pumping
                               /\ pool'[i].late = pool[i].late \/ pool'[i].late = Overtaken(i)
    BY <1>0, <2>2, <2>3, AnnouncedFacts
  <2> QED BY <1>0, <2>4, <2>5 DEF PoolGrows
<1>6. CASE Environment \/ Consume \/ \E a \in Agents : DirEvent(a)
  BY <1>1, <1>6, Zenon DEF Environment, AgentAdded, AgentRemoved, CreateFile, WriteFile,
                      Consume, DirEvent
<1>7. CASE WatchLoop
  BY <1>1, <1>2, <1>7 DEF WatchLoop, StartAgent, StartDone, LoopAdded, LoopRemoved,
                          LoopEmitRemoved
<1>8. CASE \E w \in Workers : Discovery(w)
  BY <1>1, <1>3, <1>4, <1>5, <1>8, Zenon DEF Discovery, Scan, Watch, Swap, Retry, TailerFails
<1>9. CASE UNCHANGED watcherVars
  BY <1>1, <1>9 DEF watcherVars
<1> QED BY <1>6, <1>7, <1>8, <1>9 DEF Next, WatcherNext

\* A channel, and the buffer it is one of.
LEMMA ChannelFacts ==
  ASSUME bufs \in Seq(Buffer), NEW ch, Made(ch)
  PROVE  /\ Channel(ch) \in LiveChannel /\ Channel(ch).q \in Seq(Nat) /\ Channel(ch).open \in BOOLEAN
         /\ bufs[ch[1]] \in Buffer /\ bufs[ch[1]].next \in Nat /\ bufs[ch[1]].chans \in Seq(LiveChannel)
<1>1. bufs[ch[1]] \in Buffer
  BY DEF Made
<1>2. bufs[ch[1]].chans \in Seq(LiveChannel) /\ bufs[ch[1]].next \in Nat
  BY <1>1 DEF Buffer
<1>3. Channel(ch) \in LiveChannel
  BY <1>2 DEF Channel, Made
<1> QED BY <1>1, <1>2, <1>3 DEF LiveChannel

\* One buffer changes.
LEMMA BufferFacts ==
  ASSUME bufs \in Seq(Buffer), NEW i \in DOMAIN bufs, NEW b \in Buffer,
         bufs' = [bufs EXCEPT ![i] = b]
  PROVE  /\ bufs' \in Seq(Buffer) /\ Len(bufs') = Len(bufs) /\ DOMAIN bufs' = DOMAIN bufs
         /\ bufs'[i] = b
         /\ \A j \in DOMAIN bufs \ {i} : bufs'[j] = bufs[j]
  OBVIOUS

\* The channels that an Unsubscribe of every subscription in ss closes.
Closes(ss) == {<<streams[sub.conv], sub.chan[2]>> : sub \in {x \in ss : x.conv # None}}

LEMMA UnsubscribedFacts ==
  ASSUME bufs \in Seq(Buffer), NEW ss, bufs' = Unsubscribed(ss)
  PROVE  /\ bufs' \in Seq(Buffer) /\ Len(bufs') = Len(bufs) /\ DOMAIN bufs' = DOMAIN bufs
         /\ \A ch : Made(ch) =>
              /\ Made(ch)' /\ Channel(ch)'.q = Channel(ch).q /\ Channel(ch)'.lost = Channel(ch).lost
              /\ bufs'[ch[1]].next = bufs[ch[1]].next
              /\ Channel(ch)'.open => Channel(ch).open
              /\ ch \in Nat \X Nat /\ ch \notin Closes(ss) => Channel(ch)' = Channel(ch)
<1> DEFINE New(i, k) == IF <<i, k>> \in Closes(ss) THEN Closed(bufs[i].chans[k])
                        ELSE bufs[i].chans[k]
           B(i) == [next |-> bufs[i].next, chans |-> [k \in DOMAIN bufs[i].chans |-> New(i, k)]]
<1>1. bufs' = [i \in DOMAIN bufs |-> B(i)]
  BY DEF Unsubscribed, Closes
<1>2. ASSUME NEW i \in DOMAIN bufs, NEW k \in DOMAIN bufs[i].chans
      PROVE  /\ New(i, k) \in LiveChannel /\ New(i, k).q = bufs[i].chans[k].q
             /\ New(i, k).lost = bufs[i].chans[k].lost
             /\ New(i, k).open => bufs[i].chans[k].open
             /\ <<i, k>> \notin Closes(ss) => New(i, k) = bufs[i].chans[k]
  <2>1. Made(<<i, k>>) /\ Channel(<<i, k>>) = bufs[i].chans[k]
    BY <1>2 DEF Made, Channel
  <2>2. bufs[i].chans[k] \in LiveChannel
    BY <2>1, ChannelFacts
  <2>3. /\ Closed(bufs[i].chans[k]) \in LiveChannel /\ ~Closed(bufs[i].chans[k]).open
        /\ Closed(bufs[i].chans[k]).q = bufs[i].chans[k].q
        /\ Closed(bufs[i].chans[k]).lost = bufs[i].chans[k].lost
    BY <2>2 DEF LiveChannel, Closed
  <2> QED BY <2>2, <2>3
<1> HIDE DEF New
<1>3. ASSUME NEW i \in DOMAIN bufs
      PROVE  B(i) \in Buffer /\ DOMAIN B(i).chans = DOMAIN bufs[i].chans
  <2>1. bufs[i] \in Buffer
    BY <1>3
  <2>2. bufs[i].next \in Nat /\ bufs[i].chans \in Seq(LiveChannel)
    BY <2>1 DEF Buffer
  <2>3. [k \in DOMAIN bufs[i].chans |-> New(i, k)] \in Seq(LiveChannel)
    <3>1. PICK n \in Nat : DOMAIN bufs[i].chans = 1..n
      BY <2>2
    <3>2. \A k \in 1..n : New(i, k) \in LiveChannel
      BY <1>2, <3>1, Zenon
    <3> QED BY <3>1, <3>2
  <2> QED BY <2>2, <2>3 DEF Buffer
<1>4. bufs' \in Seq(Buffer) /\ Len(bufs') = Len(bufs) /\ DOMAIN bufs' = DOMAIN bufs
  <2> HIDE DEF B
  <2> QED BY <1>1, <1>3
<1>5. ASSUME NEW ch, Made(ch)
      PROVE  /\ Made(ch)' /\ Channel(ch)'.q = Channel(ch).q /\ Channel(ch)'.lost = Channel(ch).lost
             /\ bufs'[ch[1]].next = bufs[ch[1]].next
             /\ Channel(ch)'.open => Channel(ch).open
             /\ ch \in Nat \X Nat /\ ch \notin Closes(ss) => Channel(ch)' = Channel(ch)
  <2>1. ch[1] \in DOMAIN bufs /\ ch[2] \in DOMAIN bufs[ch[1]].chans
    BY <1>5 DEF Made
  <2>2. bufs'[ch[1]] = B(ch[1])
    BY <1>1, <2>1
  <2>3. bufs'[ch[1]].chans[ch[2]] = New(ch[1], ch[2]) /\ ch[2] \in DOMAIN bufs'[ch[1]].chans
    BY <2>1, <2>2
  <2>4. ch \in Nat \X Nat => ch = <<ch[1], ch[2]>>
    OBVIOUS
  <2>5. Made(ch)'
    BY <1>4, <2>1, <2>3 DEF Made
  <2>6. Channel(ch)' = New(ch[1], ch[2]) /\ Channel(ch) = bufs[ch[1]].chans[ch[2]]
    BY <2>3 DEF Channel
  <2>7. bufs'[ch[1]].next = bufs[ch[1]].next
    BY <2>2
  <2> QED BY <1>2, <2>1, <2>4, <2>5, <2>6, <2>7, Zenon
<1> QED BY <1>4, <1>5

\* A channel more, or other contents, in one buffer.
LEMMA OneBuffer ==
  ASSUME bufs \in Seq(Buffer), NEW i \in DOMAIN bufs, NEW b \in Buffer,
         bufs' = [bufs EXCEPT ![i] = b], DOMAIN bufs[i].chans \subseteq DOMAIN b.chans
  PROVE  /\ bufs' \in Seq(Buffer) /\ Len(bufs') = Len(bufs) /\ DOMAIN bufs' = DOMAIN bufs
         /\ \A ch : Made(ch) =>
              /\ Made(ch)'
              /\ ch[1] # i => Channel(ch)' = Channel(ch) /\ bufs'[ch[1]].next = bufs[ch[1]].next
              /\ ch[1] = i => Channel(ch)' = b.chans[ch[2]] /\ bufs'[ch[1]].next = b.next
<1>1. /\ bufs' \in Seq(Buffer) /\ Len(bufs') = Len(bufs) /\ DOMAIN bufs' = DOMAIN bufs
      /\ bufs'[i] = b /\ \A j \in DOMAIN bufs \ {i} : bufs'[j] = bufs[j]
  BY BufferFacts
<1>2. ASSUME NEW ch, Made(ch), ch[1] # i
      PROVE  Made(ch)' /\ Channel(ch)' = Channel(ch) /\ bufs'[ch[1]].next = bufs[ch[1]].next
  BY <1>1, <1>2 DEF Made, Channel
<1>3. ASSUME NEW ch, Made(ch), ch[1] = i
      PROVE  Made(ch)' /\ Channel(ch)' = b.chans[ch[2]] /\ bufs'[ch[1]].next = b.next
  BY <1>1, <1>3 DEF Made, Channel
<1> QED BY <1>1, <1>2, <1>3

LEMMA SubscribedFacts ==
  ASSUME bufs \in Seq(Buffer), NEW i \in DOMAIN bufs, bufs' = Subscribed(i),
         NEW new, new = NextChan(i)
  PROVE  /\ bufs' \in Seq(Buffer) /\ Len(bufs') = Len(bufs) /\ DOMAIN bufs' = DOMAIN bufs
         /\ \A ch : Made(ch) => /\ Made(ch)' /\ Channel(ch)' = Channel(ch)
                                /\ bufs'[ch[1]].next = bufs[ch[1]].next
         /\ ~Made(new) /\ Made(new)' /\ new \in Nat \X Nat /\ new # <<0, 0>> /\ new[1] = i
         /\ Channel(new)'.open /\ Channel(new)'.q = <<>> /\ bufs'[i].next = bufs[i].next
<1> DEFINE x == [open |-> TRUE, q |-> <<>>, lost |-> {}]
           b == [next |-> bufs[i].next, chans |-> Append(bufs[i].chans, x)]
           n == Len(bufs[i].chans)
<1>1. bufs[i] \in Buffer /\ i \in Nat /\ i # 0
  OBVIOUS
<1>2. bufs[i].next \in Nat /\ bufs[i].chans \in Seq(LiveChannel)
  BY <1>1 DEF Buffer
<1>3. x \in LiveChannel /\ x.open /\ x.q = <<>>
  BY DEF LiveChannel
<1> HIDE DEF x
<1>4. /\ Append(bufs[i].chans, x) \in Seq(LiveChannel) /\ n \in Nat
      /\ DOMAIN bufs[i].chans = 1..n /\ DOMAIN Append(bufs[i].chans, x) = 1..(n + 1)
      /\ \A k \in 1..n : Append(bufs[i].chans, x)[k] = bufs[i].chans[k]
      /\ Append(bufs[i].chans, x)[n + 1] = x
  BY <1>2, <1>3
<1>5. b \in Buffer /\ b.chans = Append(bufs[i].chans, x) /\ b.next = bufs[i].next
  BY <1>2, <1>4 DEF Buffer
<1>6. bufs' = [bufs EXCEPT ![i] = b]
  BY DEF Subscribed, x
<1> HIDE DEF b
<1>7. new = <<i, n + 1>> /\ new[1] = i /\ new[2] = n + 1 /\ new \in Nat \X Nat /\ new # <<0, 0>>
  BY <1>1, <1>4 DEF NextChan
<1>8. /\ bufs' \in Seq(Buffer) /\ Len(bufs') = Len(bufs) /\ DOMAIN bufs' = DOMAIN bufs
      /\ bufs'[i] = b
  BY <1>5, <1>6, BufferFacts
<1>9. ASSUME NEW ch, Made(ch)
      PROVE  Made(ch)' /\ Channel(ch)' = Channel(ch) /\ bufs'[ch[1]].next = bufs[ch[1]].next
  <2>1. /\ Made(ch)'
        /\ ch[1] # i => Channel(ch)' = Channel(ch) /\ bufs'[ch[1]].next = bufs[ch[1]].next
        /\ ch[1] = i => Channel(ch)' = b.chans[ch[2]] /\ bufs'[ch[1]].next = b.next
    <3>1. DOMAIN bufs[i].chans \subseteq DOMAIN b.chans
      BY <1>4, <1>5
    <3> QED BY <1>5, <1>6, <1>9, <3>1, OneBuffer, ZenonT(30)
  <2>2. CASE ch[1] = i
    <3>1. ch[2] \in 1..n /\ Channel(ch) = bufs[i].chans[ch[2]]
      BY <1>4, <1>9, <2>2 DEF Made, Channel
    <3> QED BY <1>4, <1>5, <2>1, <2>2, <3>1
  <2> QED BY <2>1, <2>2
<1>10. ~Made(new)
  BY <1>4, <1>7 DEF Made
<1>11. Made(new)' /\ Channel(new)' = x
  BY <1>4, <1>5, <1>7, <1>8 DEF Made, Channel
<1> QED BY <1>3, <1>5, <1>7, <1>8, <1>9, <1>10, <1>11

\* What an event of number seq does to a channel.
Offering(x, y, seq) ==
  /\ y.open = x.open
  /\ \/ ~x.open /\ y.q = x.q /\ y.lost = x.lost
     \/ x.open /\ y.q = Append(x.q, seq) /\ y.lost = x.lost
     \/ x.open /\ y.q = x.q /\ y.lost = x.lost \cup {seq}

LEMMA OfferedFacts ==
  ASSUME NEW x \in LiveChannel, NEW seq \in Nat
  PROVE  Offered(x, seq) \in LiveChannel /\ Offering(x, Offered(x, seq), seq)
<1>1. /\ x.open \in BOOLEAN /\ x.q \in Seq(Nat) /\ x.lost \in SUBSET Nat
      /\ Append(x.q, seq) \in Seq(Nat) /\ x.lost \cup {seq} \in SUBSET Nat
  BY DEF LiveChannel
<1>2. CASE ~x.open
  BY <1>2 DEF Offered, Offering
<1>3. CASE x.open /\ Len(x.q) < LiveCap
  BY <1>1, <1>3 DEF Offered, Offering, LiveChannel
<1>4. CASE x.open /\ ~(Len(x.q) < LiveCap)
  BY <1>1, <1>4 DEF Offered, Offering, LiveChannel
<1> QED BY <1>2, <1>3, <1>4

LEMMA PumpFacts ==
  ASSUME bufs \in Seq(Buffer), NEW i \in DOMAIN bufs, Pump(i)
  PROVE  /\ bufs' \in Seq(Buffer) /\ Len(bufs') = Len(bufs) /\ DOMAIN bufs' = DOMAIN bufs
         /\ \A ch : Made(ch) =>
              /\ Made(ch)' /\ Channel(ch)'.open = Channel(ch).open
              /\ ch[1] = i => /\ Offering(Channel(ch), Channel(ch)', bufs[i].next)
                              /\ bufs'[ch[1]].next = bufs[i].next + 1
              /\ ch[1] # i => /\ Channel(ch)' = Channel(ch)
                              /\ bufs'[ch[1]].next = bufs[ch[1]].next
<1> DEFINE b == [next |-> bufs[i].next + 1,
                 chans |-> [k \in DOMAIN bufs[i].chans |->
                              Offered(bufs[i].chans[k], bufs[i].next)]]
<1>1. bufs' = [bufs EXCEPT ![i] = b]
  BY DEF Pump
<1>2. bufs[i] \in Buffer
  OBVIOUS
<1>3. bufs[i].next \in Nat /\ bufs[i].chans \in Seq(LiveChannel)
  BY <1>2 DEF Buffer
<1>4. ASSUME NEW k \in DOMAIN bufs[i].chans
      PROVE  /\ Offered(bufs[i].chans[k], bufs[i].next) \in LiveChannel
             /\ Offering(bufs[i].chans[k], Offered(bufs[i].chans[k], bufs[i].next),
                         bufs[i].next)
  <2>1. bufs[i].chans[k] \in LiveChannel
    BY <1>3
  <2> QED BY <1>3, <2>1, OfferedFacts
<1>5. b \in Buffer /\ DOMAIN b.chans = DOMAIN bufs[i].chans /\ b.next = bufs[i].next + 1
      /\ \A k \in DOMAIN bufs[i].chans :
           b.chans[k] = Offered(bufs[i].chans[k], bufs[i].next)
  <2>1. PICK n \in Nat : DOMAIN bufs[i].chans = 1..n
    BY <1>3
  <2>2. \A k \in 1..n : Offered(bufs[i].chans[k], bufs[i].next) \in LiveChannel
    BY <1>4, <2>1
  <2>3. b.chans \in Seq(LiveChannel)
    BY <2>1, <2>2
  <2>4. b.next \in Nat
    BY <1>3
  <2> QED BY <2>3, <2>4 DEF Buffer
<1> HIDE DEF b
<1>6. ASSUME NEW ch, Made(ch)
      PROVE  /\ Made(ch)' /\ Channel(ch)'.open = Channel(ch).open
             /\ ch[1] = i => /\ Offering(Channel(ch), Channel(ch)', bufs[i].next)
                             /\ bufs'[ch[1]].next = bufs[i].next + 1
             /\ ch[1] # i => /\ Channel(ch)' = Channel(ch)
                             /\ bufs'[ch[1]].next = bufs[ch[1]].next
  <2>1. /\ Made(ch)'
        /\ ch[1] # i => Channel(ch)' = Channel(ch) /\ bufs'[ch[1]].next = bufs[ch[1]].next
        /\ ch[1] = i => Channel(ch)' = b.chans[ch[2]] /\ bufs'[ch[1]].next = b.next
    BY <1>1, <1>5, <1>6, OneBuffer, Zenon
  <2>2. CASE ch[1] = i
    <3>1. ch[2] \in DOMAIN bufs[i].chans /\ Channel(ch) = bufs[i].chans[ch[2]]
      BY <1>6, <2>2 DEF Made, Channel
    <3>2. Channel(ch)' = Offered(bufs[i].chans[ch[2]], bufs[i].next)
      BY <1>5, <2>1, <2>2, <3>1
    <3>3. Offering(Channel(ch), Channel(ch)', bufs[i].next)
      BY <1>4, <3>1, <3>2, Zenon
    <3>4. Channel(ch)'.open = Channel(ch).open
      BY <3>3, Zenon DEF Offering
    <3> QED BY <1>5, <2>1, <2>2, <3>3, <3>4, Zenon
  <2> QED BY <2>1, <2>2
<1> QED BY <1>1, <1>5, <1>6, BufferFacts

\* One channel changes.
LEMMA WithChannelFacts ==
  ASSUME bufs \in Seq(Buffer), NEW at, Made(at), NEW x \in LiveChannel,
         bufs' = WithChannel(at, x)
  PROVE  /\ bufs' \in Seq(Buffer) /\ Len(bufs') = Len(bufs) /\ DOMAIN bufs' = DOMAIN bufs
         /\ \A ch : Made(ch) =>
              /\ Made(ch)' /\ bufs'[ch[1]].next = bufs[ch[1]].next
              /\ IF ch[1] = at[1] /\ ch[2] = at[2] THEN Channel(ch)' = x
                 ELSE Channel(ch)' = Channel(ch)
<1> DEFINE i == at[1]
           b == [next |-> bufs[i].next, chans |-> [bufs[i].chans EXCEPT ![at[2]] = x]]
<1>1. bufs' = [bufs EXCEPT ![i] = b] /\ i \in DOMAIN bufs /\ at[2] \in DOMAIN bufs[i].chans
  BY DEF WithChannel, Made
<1>2. bufs[i].next \in Nat /\ bufs[i].chans \in Seq(LiveChannel)
  BY ChannelFacts
<1>4. /\ b \in Buffer /\ DOMAIN b.chans = DOMAIN bufs[i].chans /\ b.next = bufs[i].next
      /\ b.chans[at[2]] = x
      /\ \A k \in DOMAIN bufs[i].chans \ {at[2]} : b.chans[k] = bufs[i].chans[k]
  <2>1. /\ [bufs[i].chans EXCEPT ![at[2]] = x] \in Seq(LiveChannel)
    BY <1>1, <1>2
  <2> QED BY <1>1, <1>2, <2>1, Zenon DEF Buffer
<1> HIDE DEF b
<1>5. ASSUME NEW ch, Made(ch)
      PROVE  /\ Made(ch)' /\ bufs'[ch[1]].next = bufs[ch[1]].next
             /\ IF ch[1] = at[1] /\ ch[2] = at[2] THEN Channel(ch)' = x
                ELSE Channel(ch)' = Channel(ch)
  <2>1. /\ Made(ch)'
        /\ ch[1] # i => Channel(ch)' = Channel(ch) /\ bufs'[ch[1]].next = bufs[ch[1]].next
        /\ ch[1] = i => Channel(ch)' = b.chans[ch[2]] /\ bufs'[ch[1]].next = b.next
    BY <1>1, <1>4, <1>5, OneBuffer, ZenonT(30)
  <2>2. CASE ch[1] = i
    <3>1. ch[2] \in DOMAIN bufs[i].chans /\ Channel(ch) = bufs[i].chans[ch[2]]
      BY <1>5, <2>2 DEF Made, Channel
    <3>2. CASE ch[2] = at[2]
      BY <1>4, <2>1, <2>2, <3>1, <3>2
    <3>3. CASE ch[2] # at[2]
      BY <1>4, <2>1, <2>2, <3>1, <3>3
    <3> QED BY <3>2, <3>3
  <2>3. CASE ch[1] # i
    BY <2>1, <2>3
  <2> QED BY <2>2, <2>3
<1> QED BY <1>1, <1>4, <1>5, BufferFacts

LEMMA ReceivedFacts ==
  ASSUME bufs \in Seq(Buffer), NEW at, Made(at), Channel(at).q # <<>>,
         bufs' = WithChannel(at, Received(Channel(at)))
  PROVE  /\ bufs' \in Seq(Buffer) /\ Len(bufs') = Len(bufs) /\ DOMAIN bufs' = DOMAIN bufs
         /\ \A ch : Made(ch) =>
              /\ Made(ch)' /\ bufs'[ch[1]].next = bufs[ch[1]].next
              /\ Channel(ch)'.open = Channel(ch).open
              /\ Channel(ch)'.lost = Channel(ch).lost
              /\ IF ch[1] = at[1] /\ ch[2] = at[2] THEN Channel(ch)'.q = Tail(Channel(ch).q)
                 ELSE Channel(ch)' = Channel(ch)
<1> DEFINE x == Received(Channel(at))
<1>1. Channel(at) \in LiveChannel /\ Channel(at).q \in Seq(Nat)
  BY ChannelFacts
<1>2. Tail(Channel(at).q) \in Seq(Nat)
  BY <1>1
<1>3. x \in LiveChannel /\ x.open = Channel(at).open /\ x.q = Tail(Channel(at).q)
      /\ x.lost = Channel(at).lost
  BY <1>1, <1>2 DEF LiveChannel, Received
<1> HIDE DEF x
<1>4. /\ bufs' \in Seq(Buffer) /\ Len(bufs') = Len(bufs) /\ DOMAIN bufs' = DOMAIN bufs
      /\ \A ch : Made(ch) =>
           /\ Made(ch)' /\ bufs'[ch[1]].next = bufs[ch[1]].next
           /\ IF ch[1] = at[1] /\ ch[2] = at[2] THEN Channel(ch)' = x
              ELSE Channel(ch)' = Channel(ch)
  BY <1>3, WithChannelFacts DEF x
<1>5. ASSUME NEW ch, Made(ch)
      PROVE  /\ Channel(ch)'.open = Channel(ch).open
             /\ Channel(ch)'.lost = Channel(ch).lost
             /\ IF ch[1] = at[1] /\ ch[2] = at[2] THEN Channel(ch)'.q = Tail(Channel(ch).q)
                ELSE Channel(ch)' = Channel(ch)
  <2>1. CASE ch[1] = at[1] /\ ch[2] = at[2]
    <3>1. Channel(ch) = Channel(at)
      BY <2>1 DEF Channel
    <3> QED BY <1>3, <1>4, <1>5, <2>1, <3>1
  <2>2. CASE ~(ch[1] = at[1] /\ ch[2] = at[2])
    BY <1>4, <1>5, <2>2
  <2> QED BY <2>1, <2>2
<1> QED BY <1>4, <1>5

LEMMA LosingFacts ==
  ASSUME bufs \in Seq(Buffer), NEW at, Made(at), NEW seq \in Nat,
         bufs' = WithChannel(at, Losing(Channel(at), seq))
  PROVE  /\ bufs' \in Seq(Buffer) /\ Len(bufs') = Len(bufs) /\ DOMAIN bufs' = DOMAIN bufs
         /\ \A ch : Made(ch) =>
              /\ Made(ch)' /\ bufs'[ch[1]].next = bufs[ch[1]].next
              /\ Channel(ch)'.open = Channel(ch).open
              /\ Channel(ch)'.q = Channel(ch).q
              /\ IF ch[1] = at[1] /\ ch[2] = at[2]
                 THEN Channel(ch)'.lost = Channel(ch).lost \cup {seq}
                 ELSE Channel(ch)' = Channel(ch)
<1> DEFINE x == Losing(Channel(at), seq)
<1>1. Channel(at) \in LiveChannel
  BY ChannelFacts
<1>3. x \in LiveChannel /\ x.open = Channel(at).open /\ x.q = Channel(at).q
      /\ x.lost = Channel(at).lost \cup {seq}
  BY <1>1 DEF LiveChannel, Losing
<1> HIDE DEF x
<1>4. /\ bufs' \in Seq(Buffer) /\ Len(bufs') = Len(bufs) /\ DOMAIN bufs' = DOMAIN bufs
      /\ \A ch : Made(ch) =>
           /\ Made(ch)' /\ bufs'[ch[1]].next = bufs[ch[1]].next
           /\ IF ch[1] = at[1] /\ ch[2] = at[2] THEN Channel(ch)' = x
              ELSE Channel(ch)' = Channel(ch)
  BY <1>3, WithChannelFacts DEF x
<1>5. ASSUME NEW ch, Made(ch)
      PROVE  /\ Channel(ch)'.open = Channel(ch).open
             /\ Channel(ch)'.q = Channel(ch).q
             /\ IF ch[1] = at[1] /\ ch[2] = at[2]
                THEN Channel(ch)'.lost = Channel(ch).lost \cup {seq}
                ELSE Channel(ch)' = Channel(ch)
  <2>1. CASE ch[1] = at[1] /\ ch[2] = at[2]
    <3>1. Channel(ch) = Channel(at)
      BY <2>1 DEF Channel
    <3> QED BY <1>3, <1>4, <1>5, <2>1, <3>1
  <2>2. CASE ~(ch[1] = at[1] /\ ch[2] = at[2])
    BY <1>4, <1>5, <2>2
  <2> QED BY <2>1, <2>2
<1> QED BY <1>4, <1>5

\* A new stream object comes with an empty buffer.
LEMMA WatcherFacts ==
  ASSUME bufs \in Seq(Buffer), Len(bufs) = Len(pool), PoolGrows, Watcher
  PROVE  /\ bufs' \in Seq(Buffer) /\ Len(bufs') = Len(pool')
         /\ \A ch : Made(ch) => /\ Made(ch)' /\ Channel(ch)' = Channel(ch)
                                /\ bufs'[ch[1]].next = bufs[ch[1]].next
<1> DEFINE n == Len(pool') - Len(pool)
           more == [i \in 1..n |-> NewBuffer]
<1>1. n \in Nat /\ Len(bufs) \in Nat
  BY DEF PoolGrows
<1>2. NewBuffer \in Buffer
  BY DEF NewBuffer, Buffer
<1>3. more \in Seq(Buffer) /\ Len(more) = n
  BY <1>1, <1>2
<1>4. bufs' = bufs \o more
  BY DEF Watcher
<1> HIDE DEF more
<1>5. /\ bufs' \in Seq(Buffer) /\ Len(bufs') = Len(bufs) + Len(more)
      /\ \A i \in DOMAIN bufs : i \in DOMAIN bufs' /\ bufs'[i] = bufs[i]
  <2>1. bufs \o more \in Seq(Buffer) /\ Len(bufs \o more) = Len(bufs) + Len(more)
    BY <1>3
  <2>2. \A i \in 1..Len(bufs) : (bufs \o more)[i] = bufs[i]
    BY <1>3
  <2>3. DOMAIN bufs = 1..Len(bufs) /\ DOMAIN (bufs \o more) = 1..(Len(bufs) + Len(more))
    BY <1>3
  <2>4. Len(more) \in Nat
    BY <1>3
  <2> QED BY <1>1, <1>4, <2>1, <2>2, <2>3, <2>4
<1> QED BY <1>3, <1>1, <1>5 DEF Made, Channel, PoolGrows

----------------------------------------------------------------------------
(* What steps do to the subscriptions. *)

\* One subscription of client c changes.
LEMMA OneSub ==
  ASSUME subs \in [Clients -> Seq(Subscription)], NEW c \in Clients, NEW s \in DOMAIN subs[c],
         NEW x \in Subscription, subs' = [subs EXCEPT ![c][s] = x]
  PROVE  /\ subs' \in [Clients -> Seq(Subscription)] /\ subs'[c][s] = x
         /\ \A d \in Clients : Len(subs'[d]) = Len(subs[d]) /\ DOMAIN subs'[d] = DOMAIN subs[d]
         /\ \A d \in Clients : \A t \in DOMAIN subs[d] : d # c \/ t # s => subs'[d][t] = subs[d][t]
<1> DEFINE q == [subs[c] EXCEPT ![s] = x]
<1>1. subs' = [subs EXCEPT ![c] = q]
  OBVIOUS
<1>2. /\ q \in Seq(Subscription) /\ Len(q) = Len(subs[c]) /\ DOMAIN q = DOMAIN subs[c]
      /\ q[s] = x /\ \A t \in DOMAIN subs[c] \ {s} : q[t] = subs[c][t]
  <2>1. subs[c] \in Seq(Subscription)
    OBVIOUS
  <2> QED BY <2>1
<1> HIDE DEF q
<1>3. subs' \in [Clients -> Seq(Subscription)]
  BY <1>1, <1>2
<1>4. subs'[c] = q /\ \A d \in Clients \ {c} : subs'[d] = subs[d]
  BY <1>1
<1> QED BY <1>2, <1>3, <1>4

\* Client c makes a subscription.
LEMMA NewSub ==
  ASSUME subs \in [Clients -> Seq(Subscription)], NEW c \in Clients, NEW x \in Subscription,
         subs' = [subs EXCEPT ![c] = Append(subs[c], x)], NEW n, n = Len(subs[c])
  PROVE  /\ subs' \in [Clients -> Seq(Subscription)]
         /\ n \in Nat /\ DOMAIN subs[c] = 1..n
         /\ Len(subs'[c]) = n + 1 /\ DOMAIN subs'[c] = 1..(n + 1) /\ subs'[c][n + 1] = x
         /\ \A d \in Clients \ {c} : subs'[d] = subs[d]
         /\ \A d \in Clients : \A t \in DOMAIN subs[d] : t \in DOMAIN subs'[d] /\ subs'[d][t] = subs[d][t]
<1> DEFINE q == Append(subs[c], x)
<1>1. subs[c] \in Seq(Subscription)
  OBVIOUS
<1>2. /\ q \in Seq(Subscription) /\ Len(q) = n + 1 /\ DOMAIN q = 1..(n + 1) /\ q[n + 1] = x
      /\ n \in Nat /\ DOMAIN subs[c] = 1..n
      /\ \A t \in 1..n : q[t] = subs[c][t]
  BY <1>1
<1> HIDE DEF q
<1>3. subs' = [subs EXCEPT ![c] = q]
  BY DEF q
<1>4. subs' \in [Clients -> Seq(Subscription)]
  BY <1>2, <1>3
<1>5. subs'[c] = q /\ \A d \in Clients \ {c} : subs'[d] = subs[d]
  BY <1>3
<1> QED BY <1>2, <1>4, <1>5

\* A subscription keeps its agent, a conversation's its channel as well; none
\* is taken up again.
SubMoves(x, y) ==
  /\ y.agent = x.agent /\ y.gen >= x.gen
  /\ x.conv # None => y.conv # None
  /\ y.listed => x.listed
  /\ x.agent = None => y.conv = x.conv /\ y.chan = x.chan /\ y.gen = x.gen

LEMMA SubFacts ==
  ASSUME NEW x \in Subscription
  PROVE  /\ x.agent \in Agents \cup {None} /\ x.conv \in Files \cup {None}
         /\ x.chan \in Nat \X Nat /\ x.gen \in Nat
         /\ x.cancelled \in BOOLEAN /\ x.listed \in BOOLEAN /\ SubMoves(x, x)
  BY DEF Subscription, SubMoves

LEMMA DroppedFacts ==
  ASSUME NEW x \in Subscription
  PROVE  /\ Dropped(x) \in Subscription /\ SubMoves(x, Dropped(x)) /\ ~Dropped(x).listed
         /\ Dropped(x).conv = x.conv /\ Dropped(x).chan = x.chan /\ Dropped(x).gen = x.gen
         /\ Dropped(x).agent = x.agent /\ Dropped(x).cancelled = (x.agent # None)
<1>1. (x.agent # None) \in BOOLEAN
  OBVIOUS
<1>2. Dropped(x) \in Subscription
  BY <1>1, SubFacts, Zenon DEF Dropped, Subscription
<1>3. /\ ~Dropped(x).listed /\ Dropped(x).agent = x.agent
      /\ Dropped(x).cancelled = (x.agent # None)
      /\ Dropped(x).conv = x.conv /\ Dropped(x).chan = x.chan /\ Dropped(x).gen = x.gen
  BY Zenon DEF Dropped
<1> QED BY <1>2, <1>3, SubFacts DEF SubMoves

LEMMA SupersededFacts ==
  ASSUME NEW x \in Subscription
  PROVE  /\ Superseded(x) \in Subscription /\ Superseded(x).listed = x.listed
         /\ Superseded(x).conv = x.conv /\ Superseded(x).chan = x.chan
         /\ Superseded(x).gen = x.gen /\ Superseded(x).agent = x.agent
         /\ Superseded(x).cancelled = (x.gen # 0)
         /\ SubMoves(x, Superseded(x))
<1>1. (x.gen # 0) \in BOOLEAN
  OBVIOUS
<1>2. Superseded(x) \in Subscription
  BY <1>1, SubFacts, Zenon DEF Superseded, Subscription
<1>3. /\ Superseded(x).listed = x.listed /\ Superseded(x).agent = x.agent
      /\ Superseded(x).conv = x.conv /\ Superseded(x).chan = x.chan
      /\ Superseded(x).gen = x.gen /\ Superseded(x).cancelled = (x.gen # 0)
  BY Zenon DEF Superseded
<1> QED BY <1>2, <1>3, SubFacts DEF SubMoves

\* The stream on record for a conversation has a buffer.
LEMMA StreamHasBuffer ==
  ASSUME WatcherInv, ServerTypeOK, NEW f \in Files, streams[f] # 0
  PROVE  streams[f] \in DOMAIN bufs /\ pool[streams[f]].conv = f
<1>1. streams[f] \in 1..Len(pool) /\ pool[streams[f]].conv = f
  BY StreamFacts DEF WatcherInv
<1> QED BY <1>1 DEF ServerTypeOK

\* Broadcast's event is about a conversation of an agent.
LEMMA BroadcastFacts ==
  ASSUME ServerTypeOK, BroadcastOK, bcast # NoBroadcast
  PROVE  /\ bcast.event.agent \in Agents /\ bcast.event.new \in Files
         /\ bcast.todo \subseteq Clients /\ bcast.at \in Clients \cup {None}
<1>1. bcast \in Broadcaster
  BY DEF ServerTypeOK
<1>2. bcast.event \in LifecycleEvent /\ bcast.event.new # None
  BY <1>1 DEF Broadcaster, BroadcastOK
<1> QED BY <1>1, <1>2 DEF LifecycleEvent, Broadcaster

\* Broadcast is with client c.
LEMMA AtClient ==
  ASSUME NEW c \in Clients, ServerTypeOK,
         DeliverStarted(c) \/ DeliverSwitched(c) \/ DeliverSwitchedTo(c)
  PROVE  bcast # NoBroadcast /\ (DeliverSwitchedTo(c) => bcast.at = c)
                             /\ (~DeliverSwitchedTo(c) => c \in bcast.todo /\ Free(c))
  BY ServerAssumption DEF DeliverStarted, DeliverSwitched, DeliverSwitchedTo, NoBroadcast

\* The follow that Broadcast serves with a stream.
Serves(c, s, f, i) ==
  /\ s \in DOMAIN subs[c] /\ f \in Files /\ i \in DOMAIN bufs /\ streams[f] = i
  /\ pool[i].conv = f
  /\ s = follows[c][bcast.event.agent] /\ subs[c][s].agent = bcast.event.agent
  /\ subs[c][s].agent \in Agents
  /\ Attach(c, s, f, i)

LEMMA Attaches ==
  ASSUME ServerInv, NEW c \in Clients, DeliverStarted(c) \/ DeliverSwitchedTo(c)
  PROVE  \/ UNCHANGED <<bufs, subs, view, gos>>
         \/ \E s, f, i : Serves(c, s, f, i)
<1> DEFINE a == bcast.event.agent
           s == follows[c][a]
           f == bcast.event.new
           i == streams[f]
<1>0. WatcherInv /\ ServerTypeOK /\ FollowsOK /\ BroadcastOK
  BY DEF ServerInv
<1>1. bcast # NoBroadcast /\ a \in Agents /\ f \in Files
  BY <1>0, AtClient, BroadcastFacts
<1>2. DeliverSwitchedTo(c) => s # 0
  BY <1>0, <1>1, AtClient, ServerAssumption DEF BroadcastOK
<1>3. s # 0 => s \in DOMAIN subs[c] /\ subs[c][s].agent = a
  BY <1>0, <1>1 DEF FollowsOK, FollowsOf
<1>4. i # 0 => i \in DOMAIN bufs /\ pool[i].conv = f
  BY <1>0, <1>1, StreamHasBuffer
<1>5. (s # 0 /\ i # 0 /\ Attach(c, s, f, i)) \/ UNCHANGED <<bufs, subs, view, gos>>
  BY <1>2 DEF DeliverStarted, DeliverSwitchedTo
<1>6. s # 0 /\ i # 0 /\ Attach(c, s, f, i) => Serves(c, s, f, i)
  BY <1>1, <1>3, <1>4 DEF Serves
<1> HIDE DEF s, f, i
<1> QED BY <1>5, <1>6

\* The subscription after an Attach.
LEMMA AttachFacts ==
  ASSUME ServerTypeOK, NEW c \in Clients, NEW s \in DOMAIN subs[c], NEW f \in Files,
         NEW i \in DOMAIN bufs, Attach(c, s, f, i), subs[c][s].agent # None,
         NEW new, new = NextChan(i)
  PROVE  \E x \in Subscription :
           /\ subs' = [subs EXCEPT ![c][s] = x]
           /\ x.agent = subs[c][s].agent /\ x.conv = f /\ x.conv # None /\ x.chan = new
           /\ x.gen = subs[c][s].gen + 1 /\ x.listed = subs[c][s].listed
           /\ SubMoves(subs[c][s], x)
<1>1. bufs \in Seq(Buffer) /\ bufs' = Subscribed(i) /\ subs[c][s] \in Subscription
  BY DEF Attach, ServerTypeOK
<1>2. new \in Nat \X Nat
  BY <1>1, SubscribedFacts
<1> DEFINE x == [agent |-> subs[c][s].agent, conv |-> f, chan |-> new,
                 gen |-> subs[c][s].gen + 1, cancelled |-> FALSE, listed |-> subs[c][s].listed]
<1>3. x \in Subscription
  BY <1>1, <1>2, SubFacts DEF Subscription
<1>4. f # None
  BY WatcherAssumption
<1>5. SubMoves(subs[c][s], x)
  BY <1>1, <1>4, SubFacts DEF SubMoves
<1>6. subs' = [subs EXCEPT ![c][s] = x]
  BY DEF Attach
<1> QED BY <1>3, <1>4, <1>5, <1>6, Zenon

\* Client c makes subscription x: of buffer i's next channel, or a pending one.
Registers(c, x, i) ==
  /\ x \in Subscription /\ x.listed /\ Len(subs[c]) < MaxSubs
  /\ subs' = [subs EXCEPT ![c] = Append(subs[c], x)]
  /\ \/ /\ x.conv = None /\ x.chan = <<0, 0>> /\ x.gen = 0 /\ x.agent # None
        /\ i = 0 /\ UNCHANGED bufs
     \/ /\ x.conv \in Files /\ x.conv # None /\ x.chan = NextChan(i) /\ x.gen = 1
        /\ i \in DOMAIN bufs /\ pool[i].conv = x.conv /\ bufs' = Subscribed(i)

LEMMA SubscribeRegisters ==
  ASSUME ServerInv, NEW c \in Clients, NEW f \in Files, SubscribeConversation(c, f)
  PROVE  \E x, i : /\ Registers(c, x, i) /\ x.agent = None /\ x.conv = f /\ i \in DOMAIN bufs
                   /\ view' = [view EXCEPT ![c][Len(subs[c]) + 1] = Snapshot(f, bufs[i].next)]
                   /\ gos' = gos \cup {GoStream(c, Len(subs[c]) + 1, 1)}
<1> DEFINE i == streams[f]
           x == [agent |-> None, conv |-> f, chan |-> NextChan(i), gen |-> 1,
                 cancelled |-> FALSE, listed |-> TRUE]
<1>0. WatcherInv /\ ServerTypeOK /\ bufs \in Seq(Buffer) /\ f # None
  BY WatcherAssumption DEF ServerInv, ServerTypeOK
<1>1. i \in DOMAIN bufs /\ pool[i].conv = f /\ bufs' = Subscribed(i)
  BY <1>0, StreamHasBuffer DEF SubscribeConversation
<1>2. PICK new : new = NextChan(i)
  OBVIOUS
<1>3. new \in Nat \X Nat
  BY <1>0, <1>1, <1>2, SubscribedFacts
<1>4. x \in Subscription
  BY <1>2, <1>3 DEF Subscription
<1>5. Registers(c, x, i)
  BY <1>0, <1>1, <1>4 DEF Registers, SubscribeConversation, Fresh
<1>6. /\ x.agent = None /\ x.conv = f
      /\ view' = [view EXCEPT ![c][Len(subs[c]) + 1] = Snapshot(f, bufs[i].next)]
      /\ gos' = gos \cup {GoStream(c, Len(subs[c]) + 1, 1)}
  BY DEF SubscribeConversation
<1> HIDE DEF x, i
<1> QED BY <1>1, <1>5, <1>6, Zenon

LEMMA FollowRegisters ==
  ASSUME ServerInv, NEW c \in Clients, FollowRegister(c)
  PROVE  \E x, i : /\ Registers(c, x, i)
                   /\ x.agent = handler[c].agent /\ x.agent \in Agents /\ x.agent # None
                   /\ \E h \in Handler : /\ handler' = [handler EXCEPT ![c] = h]
                                         /\ h.pc = "reply" /\ h.conv = x.conv
<1> DEFINE f == handler[c].conv
           i == IF f = None THEN 0 ELSE streams[f]
<1>0. WatcherInv /\ ServerTypeOK /\ bufs \in Seq(Buffer) /\ HandlerOK
  BY DEF ServerInv, ServerTypeOK
<1>1. handler[c] \in Handler /\ handler[c].pc = "follow"
  BY <1>0 DEF ServerTypeOK, FollowRegister
<1>2. handler[c].agent \in Agents /\ Len(subs[c]) < MaxSubs /\ handler[c].agent # None
  BY <1>0, <1>1, WatcherAssumption DEF HandlerOK, HandlerOf
<1>3. f \in Files \cup {None}
  BY <1>1 DEF Handler
<1>4. CASE i = 0
  <2> DEFINE x == [agent |-> handler[c].agent, conv |-> None, chan |-> <<0, 0>>, gen |-> 0,
                   cancelled |-> FALSE, listed |-> TRUE]
             h == [AtRest EXCEPT !.pc = "reply"]
  <2>1. x \in Subscription
    BY <1>2 DEF Subscription
  <2>2. h \in Handler /\ h.pc = "reply" /\ h.conv = None
    BY DEF AtRest, Handler
  <2>3. /\ subs' = [subs EXCEPT ![c] = Append(subs[c], x)]
        /\ handler' = [handler EXCEPT ![c] = h] /\ UNCHANGED bufs
    BY <1>4 DEF FollowRegister, Fresh
  <2>4. Registers(c, x, 0)
    BY <1>2, <2>1, <2>3 DEF Registers
  <2>5. x.agent = handler[c].agent /\ x.conv = None
    OBVIOUS
  <2> HIDE DEF x, h
  <2> QED BY <1>2, <2>2, <2>3, <2>4, <2>5, Zenon
<1>5. CASE i # 0
  <2>1. f \in Files /\ f # None /\ i = streams[f] /\ i \in DOMAIN bufs /\ pool[i].conv = f
    BY <1>0, <1>3, <1>5, StreamHasBuffer
  <2>2. PICK new : new = NextChan(i)
    OBVIOUS
  <2>3. bufs' = Subscribed(i)
    BY <1>5 DEF FollowRegister
  <2>4. new \in Nat \X Nat
    BY <1>0, <2>1, <2>2, <2>3, SubscribedFacts
  <2> DEFINE x == [agent |-> handler[c].agent, conv |-> f, chan |-> new, gen |-> 1,
                   cancelled |-> FALSE, listed |-> TRUE]
             h == [AtRest EXCEPT !.pc = "reply", !.conv = f]
  <2>5. x \in Subscription
    BY <1>2, <2>1, <2>4 DEF Subscription
  <2>7. h \in Handler /\ h.pc = "reply" /\ h.conv = f
    BY <2>1, Zenon DEF AtRest, Handler
  <2>8. /\ subs' = [subs EXCEPT ![c] = Append(subs[c], x)]
        /\ handler' = [handler EXCEPT ![c] = h]
    <3>1. subs' = [subs EXCEPT ![c] = Append(subs[c], x)]
      BY <1>5, <2>2 DEF FollowRegister, Fresh
    <3>3. handler' = [handler EXCEPT ![c] = h]
      BY <1>5 DEF FollowRegister
    <3> QED BY <3>1, <3>3
  <2>9. Registers(c, x, i)
    BY <1>2, <2>1, <2>2, <2>3, <2>5, <2>8 DEF Registers
  <2>10. x.agent = handler[c].agent /\ x.conv = f
    OBVIOUS
  <2> HIDE DEF x, h, f, i
  <2> QED BY <1>2, <2>7, <2>8, <2>9, <2>10, Zenon
<1> QED BY <1>4, <1>5

\* Client c's subscription s leaves its channel.
Detaches(c, s) ==
  /\ s \in DOMAIN subs[c] /\ bufs' = Unsubscribed({subs[c][s]})
  /\ \/ subs' = [subs EXCEPT ![c][s] = Dropped(subs[c][s])]
     \/ /\ subs' = [subs EXCEPT ![c][s] = Superseded(subs[c][s])]
        /\ subs[c][s].agent # None

\* A goroutine receives from its channel or drops what it has in hand: its
\* channel, if any, has changed, and is open as before.
Touches(g) ==
  Made(g.chan) /\ \E x \in LiveChannel :
    bufs' = WithChannel(g.chan, x) /\ x.open = Channel(g.chan).open

LEMMA Touching ==
  ASSUME ServerInv, NEW g \in gos, StreamReceive(g) \/ StreamDrop(g)
  PROVE  g.pc # "enter" /\ (bufs' = bufs \/ Touches(g))
<1>0. bufs \in Seq(Buffer) /\ ReadsOwn /\ gos \subseteq Streamer
  BY DEF ServerInv, ServerTypeOK
<1>1. g.pc # "enter" /\ Made(g.chan) /\ g.seq \in Nat
  BY <1>0 DEF ReadsOwn, StreamReceive, StreamDrop, Streamer
<1>2. Channel(g.chan) \in LiveChannel /\ Channel(g.chan).q \in Seq(Nat)
  BY <1>0, <1>1, ChannelFacts
<1>3. CASE StreamReceive(g)
  <2>1. Channel(g.chan).q # <<>> /\ bufs' = WithChannel(g.chan, Received(Channel(g.chan)))
    BY <1>3 DEF StreamReceive
  <2>2. Tail(Channel(g.chan).q) \in Seq(Nat)
    BY <1>2, <2>1
  <2>3. /\ Received(Channel(g.chan)) \in LiveChannel
        /\ Received(Channel(g.chan)).open = Channel(g.chan).open
    BY <1>2, <2>2 DEF Received, LiveChannel
  <2> QED BY <1>1, <2>1, <2>3, Zenon DEF Touches
<1>4. CASE StreamDrop(g)
  <2>1. bufs' = bufs \/ bufs' = WithChannel(g.chan, Losing(Channel(g.chan), g.seq))
    BY <1>4 DEF StreamDrop
  <2>2. /\ Losing(Channel(g.chan), g.seq) \in LiveChannel
        /\ Losing(Channel(g.chan), g.seq).open = Channel(g.chan).open
    BY <1>1, <1>2 DEF Losing, LiveChannel
  <2> QED BY <1>1, <2>1, <2>2, Zenon DEF Touches
<1> QED BY <1>3, <1>4

\* Every other channel is as it was.
LEMMA TouchedFacts ==
  ASSUME bufs \in Seq(Buffer), NEW g, Touches(g)
  PROVE  /\ bufs' \in Seq(Buffer) /\ Len(bufs') = Len(bufs) /\ DOMAIN bufs' = DOMAIN bufs
         /\ \A ch : Made(ch) =>
              /\ Made(ch)' /\ bufs'[ch[1]].next = bufs[ch[1]].next
              /\ Channel(ch)'.open = Channel(ch).open
              /\ ~(ch[1] = g.chan[1] /\ ch[2] = g.chan[2]) => Channel(ch)' = Channel(ch)
<1>0. PICK at : at = g.chan
  OBVIOUS
<1>1. PICK x \in LiveChannel : /\ Made(at) /\ bufs' = WithChannel(at, x)
                             /\ x.open = Channel(at).open
  BY <1>0, Zenon DEF Touches
<1>2. /\ bufs' \in Seq(Buffer) /\ Len(bufs') = Len(bufs) /\ DOMAIN bufs' = DOMAIN bufs
      /\ \A ch : Made(ch) =>
           /\ Made(ch)' /\ bufs'[ch[1]].next = bufs[ch[1]].next
           /\ IF ch[1] = at[1] /\ ch[2] = at[2] THEN Channel(ch)' = x
              ELSE Channel(ch)' = Channel(ch)
  BY <1>1, WithChannelFacts
<1>3. ASSUME NEW ch, Made(ch)
      PROVE  Channel(ch)'.open = Channel(ch).open
  <2>1. CASE ch[1] = at[1] /\ ch[2] = at[2]
    <3>1. Channel(ch) = Channel(at)
      BY <2>1 DEF Channel
    <3> QED BY <1>1, <1>2, <1>3, <2>1, <3>1
  <2>2. CASE ~(ch[1] = at[1] /\ ch[2] = at[2])
    BY <1>2, <1>3, <2>2
  <2> QED BY <2>1, <2>2
<1> QED BY <1>0, <1>2, <1>3

\* What a step does to the subscriptions and the buffers.
LEMMA Kinds ==
  ASSUME ServerInv, ServerNext
  PROVE  \/ Watcher
         \/ /\ UNCHANGED <<pool, streams>>
            /\ \/ UNCHANGED <<subs, bufs>>
               \/ UNCHANGED subs /\ \E i \in DOMAIN pool : Pump(i)
               \/ UNCHANGED subs /\ \E g \in gos : StreamReceive(g) \/ StreamDrop(g)
               \/ \E c \in Clients : \E x, i : Registers(c, x, i)
               \/ \E c \in Clients : \E s, f, i : Serves(c, s, f, i)
               \/ \E c \in Clients : \E s : Detaches(c, s)
               \/ \E c \in Clients : RemoveClient(c)
<1>0. WatcherInv /\ ServerTypeOK /\ FollowsOK /\ BroadcastOK
  BY DEF ServerInv
<1>1. CASE \E i \in DOMAIN pool : Pump(i)
  BY <1>1, Zenon DEF Pump, clientVars, watcherVars
<1>2. CASE BroadcastNext
  BY <1>2 DEF BroadcastNext
<1>3. CASE Streaming
  <2>1. CASE \E g \in gos : StreamReceive(g) \/ StreamDrop(g)
    BY <2>1, Zenon DEF StreamReceive, StreamDrop, watcherVars
  <2>2. CASE \E g \in gos : StreamEnter(g) \/ StreamSend(g) \/ StreamEnd(g)
    BY <2>2 DEF StreamEnter, StreamSend, StreamEnd, watcherVars
  <2> QED BY <1>3, <2>1, <2>2 DEF Streaming
<1>4. ASSUME NEW c \in Clients, DeliverStarted(c) \/ DeliverSwitchedTo(c)
      PROVE  /\ UNCHANGED <<pool, streams>>
             /\ UNCHANGED <<subs, bufs>> \/ \E s, f, i : Serves(c, s, f, i)
  BY <1>4, Attaches DEF DeliverStarted, DeliverSwitchedTo, watcherVars
<1>5. ASSUME NEW c \in Clients, DeliverSwitched(c)
      PROVE  /\ UNCHANGED <<pool, streams>>
             /\ UNCHANGED <<subs, bufs>> \/ \E s : Detaches(c, s)
  <2> DEFINE s == follows[c][bcast.event.agent]
  <2>1. bcast.event.agent \in Agents
    BY <1>0, <1>5, AtClient, BroadcastFacts
  <2>2. s # 0 => s \in DOMAIN subs[c] /\ subs[c][s].agent = bcast.event.agent
    BY <1>0, <2>1 DEF FollowsOK, FollowsOf
  <2>3. s # 0 => Detaches(c, s)
    BY <1>5, <2>1, <2>2, WatcherAssumption DEF DeliverSwitched, Detaches
  <2> QED BY <1>5, <2>3 DEF DeliverSwitched, watcherVars
<1>6. ASSUME NEW c \in Clients, NEW a \in Agents, FollowAgent(c, a) \/ UnsubscribeAgent(c, a)
      PROVE  /\ UNCHANGED <<pool, streams>>
             /\ UNCHANGED <<subs, bufs>> \/ \E s : Detaches(c, s)
  <2> DEFINE s == follows[c][a]
  <2>1. s # 0 => s \in DOMAIN subs[c]
    BY <1>0 DEF FollowsOK, FollowsOf
  <2>2. s # 0 => Detaches(c, s)
    BY <1>6, <2>1 DEF FollowAgent, UnsubscribeAgent, Detaches
  <2> QED BY <1>6, <2>2 DEF FollowAgent, UnsubscribeAgent, watcherVars
<1>7. ASSUME NEW c \in Clients, Client(c)
      PROVE  /\ UNCHANGED <<pool, streams>>
             /\ \/ UNCHANGED <<subs, bufs>>
                \/ \E x, i : Registers(c, x, i)
                \/ \E s : Detaches(c, s)
                \/ RemoveClient(c)
  <2>1. CASE FollowReply(c) \/ Disconnect(c)
    BY <2>1 DEF FollowReply, Disconnect, watcherVars
  <2>2. CASE FollowRegister(c)
    BY <2>2, FollowRegisters, Zenon DEF FollowRegister, watcherVars
  <2>3. CASE \E f \in Files : SubscribeConversation(c, f)
    BY <2>3, SubscribeRegisters, Zenon DEF SubscribeConversation, watcherVars
  <2>4. CASE \E s \in 1..MaxSubs : Unsubscribe(c, s)
    BY <2>4, Zenon DEF Unsubscribe, Detaches, watcherVars
  <2>5. CASE RemoveClient(c)
    BY <2>5 DEF RemoveClient, watcherVars
  <2> QED BY <1>6, <1>7, <2>1, <2>2, <2>3, <2>4, <2>5 DEF Client
<1> QED BY <1>1, <1>2, <1>3, <1>4, <1>5, <1>7 DEF ServerNext, Broadcast

\* removeClient drops every subscription of the client.
LEMMA RemoveFacts ==
  ASSUME subs \in [Clients -> Seq(Subscription)], NEW c \in Clients, RemoveClient(c)
  PROVE  /\ subs' \in [Clients -> Seq(Subscription)]
         /\ \A d \in Clients : Len(subs'[d]) = Len(subs[d]) /\ DOMAIN subs'[d] = DOMAIN subs[d]
         /\ \A d \in Clients \ {c} : subs'[d] = subs[d]
         /\ \A s \in DOMAIN subs[c] : subs'[c][s] = Dropped(subs[c][s])
<1> DEFINE q == [s \in DOMAIN subs[c] |-> Dropped(subs[c][s])]
<1>1. subs[c] \in Seq(Subscription)
  OBVIOUS
<1>2. PICK n \in Nat : DOMAIN subs[c] = 1..n /\ Len(subs[c]) = n
  BY <1>1
<1>3. \A s \in 1..n : Dropped(subs[c][s]) \in Subscription
  BY <1>1, <1>2, DroppedFacts
<1>4. q \in Seq(Subscription) /\ Len(q) = n /\ DOMAIN q = 1..n
      /\ \A s \in 1..n : q[s] = Dropped(subs[c][s])
  BY <1>2, <1>3
<1>5. subs' = [subs EXCEPT ![c] = q]
  BY DEF RemoveClient
<1> HIDE DEF q
<1>6. subs' \in [Clients -> Seq(Subscription)]
  BY <1>4, <1>5
<1>7. subs'[c] = q /\ \A d \in Clients \ {c} : subs'[d] = subs[d]
  BY <1>5
<1> QED BY <1>2, <1>4, <1>6, <1>7, Zenon

\* Channels, once made, stay.
LEMMA BufsStep ==
  ASSUME ServerInv, ServerNext
  PROVE  /\ bufs' \in Seq(Buffer) /\ Len(bufs') = Len(pool')
         /\ \A ch : Made(ch) => Made(ch)'
<1>0. WatcherInv /\ bufs \in Seq(Buffer) /\ Len(bufs) = Len(pool) /\ ReadsOwn
      /\ DOMAIN pool = DOMAIN bufs
  BY DEF ServerInv, ServerTypeOK, WatcherInv, TypeOK
<1>1. CASE Watcher
  <2>1. PoolGrows
    BY <1>0, ServerStepMaps, PoolStep
  <2> QED BY <1>0, <1>1, <2>1, WatcherFacts
<1>2. ASSUME UNCHANGED pool, bufs' \in Seq(Buffer), Len(bufs') = Len(bufs),
             \A ch : Made(ch) => Made(ch)'
      PROVE  /\ bufs' \in Seq(Buffer) /\ Len(bufs') = Len(pool')
             /\ \A ch : Made(ch) => Made(ch)'
  BY <1>0, <1>2
<1>3. CASE UNCHANGED bufs
  <2>1. \A ch : Made(ch)' = Made(ch)
    BY <1>3 DEF Made
  <2> QED BY <1>0, <1>3, <2>1, <1>2, <1>1, Kinds
<1>4. CASE UNCHANGED pool /\ \E i \in DOMAIN pool : Pump(i)
  BY <1>0, <1>2, <1>4, PumpFacts
<1>5. CASE UNCHANGED pool /\ \E g \in gos : StreamReceive(g) \/ StreamDrop(g)
  <2>1. PICK g \in gos : StreamReceive(g) \/ StreamDrop(g)
    BY <1>5
  <2>2. CASE bufs' = bufs
    BY <1>0, <1>2, <1>5, <2>2 DEF Made
  <2>3. CASE Touches(g)
    BY <1>0, <1>2, <1>5, <2>3, TouchedFacts
  <2>4. ServerInv
    OBVIOUS
  <2> QED BY <2>1, <2>2, <2>3, <2>4, Touching
<1>6. CASE UNCHANGED pool /\ \E i \in DOMAIN bufs : bufs' = Subscribed(i)
  <2>1. PICK i \in DOMAIN bufs : bufs' = Subscribed(i)
    BY <1>6
  <2>2. PICK new : new = NextChan(i)
    OBVIOUS
  <2> QED BY <1>0, <1>2, <1>6, <2>1, <2>2, SubscribedFacts
<1>7. CASE UNCHANGED pool /\ \E ss : bufs' = Unsubscribed(ss)
  BY <1>0, <1>2, <1>7, UnsubscribedFacts
<1>8. CASE UNCHANGED pool /\ \E c \in Clients : \E x, i : Registers(c, x, i)
  BY <1>3, <1>6, <1>8 DEF Registers
<1>9. CASE UNCHANGED pool /\ \E c \in Clients : \E s, f, i : Serves(c, s, f, i)
  <2>1. PICK c \in Clients : \E s, f, i : Serves(c, s, f, i)
    BY <1>9
  <2>2. PICK s, f, i : Serves(c, s, f, i)
    BY <2>1
  <2>3. i \in DOMAIN bufs /\ bufs' = Subscribed(i)
    BY <2>2, Zenon DEF Serves, Attach
  <2> QED BY <1>6, <1>9, <2>3
<1>10. CASE UNCHANGED pool /\ \E c \in Clients : RemoveClient(c) \/ \E s : Detaches(c, s)
  BY <1>7, <1>10, Zenon DEF Detaches, RemoveClient
<1> QED BY <1>1, <1>3, <1>4, <1>5, <1>8, <1>9, <1>10, Kinds

\* Subscription s of client c keeps what it is connected to.
Stays(c, s) ==
  /\ s \in DOMAIN subs[c]
  /\ subs'[c][s].conv = subs[c][s].conv /\ subs'[c][s].chan = subs[c][s].chan
  /\ subs'[c][s].gen = subs[c][s].gen
  /\ subs[c][s].agent # None /\ subs[c][s].gen # 0 /\ subs[c][s].cancelled =>
       subs'[c][s].cancelled

\* Subscription s of client c is new, or has a new channel.
Changes(c, s) == \E sub \in {subs'[c][s]} :
  /\ s \in DOMAIN subs[c] => subs[c][s].agent # None
  /\ \/ sub.conv = None /\ sub.chan = <<0, 0>> /\ sub.gen = 0 /\ sub.agent # None
     \/ /\ sub.conv \in Files /\ sub.conv # None /\ sub.gen > 0 /\ (sub.agent = None => sub.gen = 1)
        /\ ~Made(sub.chan) /\ Made(sub.chan)' /\ sub.chan # <<0, 0>>
        /\ Channel(sub.chan)'.open
        /\ sub.chan[1] \in DOMAIN pool /\ pool[sub.chan[1]].conv = sub.conv

\* All but at most one subscription stay as they are, and the one gets a
\* channel that no other has.
LEMMA SubsStep ==
  ASSUME ServerInv, ServerNext
  PROVE  /\ subs' \in [Clients -> Seq(Subscription)]
         /\ \A c \in Clients :
              /\ Len(subs'[c]) <= MaxSubs
              /\ \A s \in DOMAIN subs[c] : s \in DOMAIN subs'[c] /\ SubMoves(subs[c][s], subs'[c][s])
         /\ \/ \A c \in Clients : \A s \in DOMAIN subs'[c] : Stays(c, s)
            \/ \E c \in Clients : \E s \in DOMAIN subs'[c] :
                 /\ Changes(c, s)
                 /\ \A d \in Clients : \A t \in DOMAIN subs'[d] : d # c \/ t # s => Stays(d, t)
<1>0. /\ subs \in [Clients -> Seq(Subscription)] /\ MaxSubs \in Nat /\ bufs \in Seq(Buffer)
      /\ \A c \in Clients : Len(subs[c]) <= MaxSubs /\ Len(subs[c]) \in Nat
      /\ \A c \in Clients : \A s \in DOMAIN subs[c] : subs[c][s] \in Subscription
      /\ ServerTypeOK /\ DOMAIN pool = DOMAIN bufs
  BY ServerAssumption DEF ServerInv, ServerTypeOK, WatcherInv, TypeOK
<1>1. CASE UNCHANGED subs
  <2>1. \A c \in Clients : \A s \in DOMAIN subs[c] : SubMoves(subs[c][s], subs[c][s])
    BY <1>0, SubFacts
  <2> QED BY <1>0, <1>1, <2>1 DEF Stays
<1>2. ASSUME NEW c \in Clients, NEW x, NEW i, Registers(c, x, i), UNCHANGED pool
      PROVE  /\ subs' \in [Clients -> Seq(Subscription)]
             /\ \A d \in Clients :
                  /\ Len(subs'[d]) <= MaxSubs
                  /\ \A t \in DOMAIN subs[d] : t \in DOMAIN subs'[d] /\ SubMoves(subs[d][t], subs'[d][t])
             /\ \E s \in DOMAIN subs'[c] :
                  /\ Changes(c, s)
                  /\ \A d \in Clients : \A t \in DOMAIN subs'[d] : d # c \/ t # s => Stays(d, t)
  <2>1. PICK n : n = Len(subs[c])
    BY Zenon
  <2>2. x \in Subscription /\ n < MaxSubs /\ subs' = [subs EXCEPT ![c] = Append(subs[c], x)]
    BY <1>2, <2>1 DEF Registers
  <2>3. /\ subs' \in [Clients -> Seq(Subscription)]
        /\ n \in Nat /\ DOMAIN subs[c] = 1..n
        /\ Len(subs'[c]) = n + 1 /\ DOMAIN subs'[c] = 1..(n + 1) /\ subs'[c][n + 1] = x
        /\ \A d \in Clients \ {c} : subs'[d] = subs[d]
        /\ \A d \in Clients : \A t \in DOMAIN subs[d] : t \in DOMAIN subs'[d] /\ subs'[d][t] = subs[d][t]
    BY <1>0, <2>1, <2>2, NewSub
  <2>4. Changes(c, n + 1)
    <3>1. n + 1 \notin DOMAIN subs[c]
      BY <2>3
    <3>2. CASE x.conv = None
      BY <1>2, <2>3, <3>1, <3>2 DEF Changes, Registers
    <3>3. CASE x.conv # None
      <4>1. /\ x.conv \in Files /\ x.chan = NextChan(i) /\ x.gen = 1
            /\ i \in DOMAIN bufs /\ pool[i].conv = x.conv /\ bufs' = Subscribed(i)
        BY <1>2, <3>3 DEF Registers
      <4>2. /\ ~Made(x.chan) /\ Made(x.chan)' /\ x.chan # <<0, 0>> /\ x.chan[1] = i
            /\ Channel(x.chan)'.open
        <5>1. PICK new : new = NextChan(i)
          OBVIOUS
        <5>2. ~Made(new) /\ Made(new)' /\ new # <<0, 0>> /\ new[1] = i /\ Channel(new)'.open
          BY <1>0, <4>1, <5>1, SubscribedFacts
        <5>3. x.chan = new
          BY <4>1, <5>1
        <5> QED BY <5>2, <5>3
      <4>3. x \in {subs'[c][n + 1]}
        BY <2>3
      <4>4. i \in DOMAIN pool
        BY <1>0, <4>1
      <4> QED BY <3>1, <3>3, <4>1, <4>2, <4>3, <4>4 DEF Changes
    <3> QED BY <3>2, <3>3
  <2>5. \A d \in Clients : \A t \in DOMAIN subs'[d] : d # c \/ t # n + 1 => Stays(d, t)
    BY <2>3 DEF Stays
  <2>6. \A d \in Clients : Len(subs'[d]) <= MaxSubs
    BY <1>0, <2>2, <2>3
  <2>7. \A d \in Clients : \A t \in DOMAIN subs[d] : t \in DOMAIN subs'[d] /\ SubMoves(subs[d][t], subs'[d][t])
    BY <1>0, <2>3, SubFacts
  <2> QED BY <2>3, <2>4, <2>5, <2>6, <2>7
<1>3. ASSUME NEW c \in Clients, NEW s \in DOMAIN subs[c], NEW x \in Subscription,
             subs' = [subs EXCEPT ![c][s] = x], SubMoves(subs[c][s], x)
      PROVE  /\ subs' \in [Clients -> Seq(Subscription)] /\ subs'[c][s] = x
             /\ \A d \in Clients :
                  /\ Len(subs'[d]) <= MaxSubs /\ DOMAIN subs'[d] = DOMAIN subs[d]
                  /\ \A t \in DOMAIN subs[d] : t \in DOMAIN subs'[d] /\ SubMoves(subs[d][t], subs'[d][t])
             /\ \A d \in Clients : \A t \in DOMAIN subs'[d] : d # c \/ t # s => Stays(d, t)
  <2>1. /\ subs' \in [Clients -> Seq(Subscription)] /\ subs'[c][s] = x
        /\ \A d \in Clients : Len(subs'[d]) = Len(subs[d]) /\ DOMAIN subs'[d] = DOMAIN subs[d]
        /\ \A d \in Clients : \A t \in DOMAIN subs[d] : d # c \/ t # s => subs'[d][t] = subs[d][t]
    BY <1>0, <1>3, OneSub
  <2>2. \A d \in Clients : \A t \in DOMAIN subs[d] : SubMoves(subs[d][t], subs'[d][t])
    BY <1>0, <1>3, <2>1, SubFacts
  <2> QED BY <1>0, <2>1, <2>2 DEF Stays
<1>4. CASE UNCHANGED pool /\ \E c \in Clients : \E s, f, i : Serves(c, s, f, i)
  <2>1a. PICK c \in Clients : \E s, f, i : Serves(c, s, f, i)
    BY <1>4
  <2>1. PICK s, f, i : Serves(c, s, f, i)
    BY <2>1a
  <2>2. PICK new : new = NextChan(i)
    OBVIOUS
  <2>3. /\ s \in DOMAIN subs[c] /\ f \in Files /\ i \in DOMAIN bufs /\ pool[i].conv = f
        /\ subs[c][s].agent # None /\ Attach(c, s, f, i) /\ bufs' = Subscribed(i)
    BY <2>1, WatcherAssumption DEF Serves, Attach
  <2>4. PICK x \in Subscription :
           /\ subs' = [subs EXCEPT ![c][s] = x]
           /\ x.agent = subs[c][s].agent /\ x.conv = f /\ x.conv # None /\ x.chan = new
           /\ x.gen = subs[c][s].gen + 1
           /\ SubMoves(subs[c][s], x)
    BY <1>0, <2>2, <2>3, AttachFacts
  <2>5. ~Made(new) /\ Made(new)' /\ new # <<0, 0>> /\ new[1] = i /\ Channel(new)'.open
    BY <1>0, <2>2, <2>3, SubscribedFacts
  <2>6. /\ subs' \in [Clients -> Seq(Subscription)] /\ subs'[c][s] = x
        /\ \A d \in Clients :
             /\ Len(subs'[d]) <= MaxSubs /\ DOMAIN subs'[d] = DOMAIN subs[d]
             /\ \A t \in DOMAIN subs[d] : t \in DOMAIN subs'[d] /\ SubMoves(subs[d][t], subs'[d][t])
        /\ \A d \in Clients : \A t \in DOMAIN subs'[d] : d # c \/ t # s => Stays(d, t)
    BY <1>3, <2>3, <2>4, Zenon
  <2>7. x.gen > 0 /\ x.agent # None
    BY <1>0, <2>3, <2>4, SubFacts
  <2>8. Changes(c, s)
    <3>1. x \in {subs'[c][s]} /\ i \in DOMAIN pool
      BY <1>0, <2>3, <2>6
    <3>2. /\ ~Made(x.chan) /\ Made(x.chan)' /\ x.chan # <<0, 0>> /\ x.chan[1] = i
          /\ Channel(x.chan)'.open
      BY <2>4, <2>5
    <3>3. x.conv \in Files /\ x.conv # None /\ pool[i].conv = x.conv
      BY <2>3, <2>4
    <3> QED BY <2>3, <2>7, <3>1, <3>2, <3>3 DEF Changes
  <2>9. s \in DOMAIN subs'[c]
    BY <2>3, <2>6
  <2> QED BY <2>6, <2>8, <2>9
<1>5. CASE \E c \in Clients : \E s : Detaches(c, s)
  <2>1a. PICK c \in Clients : \E s : Detaches(c, s)
    BY <1>5
  <2>1. PICK s : Detaches(c, s)
    BY <2>1a
  <2>2. s \in DOMAIN subs[c] /\ subs[c][s] \in Subscription
    BY <1>0, <2>1 DEF Detaches
  <2>3. PICK x \in Subscription :
           /\ subs' = [subs EXCEPT ![c][s] = x] /\ SubMoves(subs[c][s], x)
           /\ x.conv = subs[c][s].conv /\ x.chan = subs[c][s].chan /\ x.gen = subs[c][s].gen
           /\ subs[c][s].agent # None /\ subs[c][s].gen # 0 => x.cancelled
    BY <2>1, <2>2, DroppedFacts, SupersededFacts, Zenon DEF Detaches
  <2>4. /\ subs' \in [Clients -> Seq(Subscription)] /\ subs'[c][s] = x
        /\ \A d \in Clients :
             /\ Len(subs'[d]) <= MaxSubs /\ DOMAIN subs'[d] = DOMAIN subs[d]
             /\ \A t \in DOMAIN subs[d] : t \in DOMAIN subs'[d] /\ SubMoves(subs[d][t], subs'[d][t])
        /\ \A d \in Clients : \A t \in DOMAIN subs'[d] : d # c \/ t # s => Stays(d, t)
    BY <1>3, <2>2, <2>3, Zenon
  <2>5. Stays(c, s)
    BY <2>2, <2>3, <2>4 DEF Stays
  <2> QED BY <2>4, <2>5
<1>6. CASE \E c \in Clients : RemoveClient(c)
  <2>1. PICK c \in Clients : RemoveClient(c)
    BY <1>6
  <2>2. /\ subs' \in [Clients -> Seq(Subscription)]
        /\ \A d \in Clients : Len(subs'[d]) = Len(subs[d]) /\ DOMAIN subs'[d] = DOMAIN subs[d]
        /\ \A d \in Clients \ {c} : subs'[d] = subs[d]
        /\ \A s \in DOMAIN subs[c] : subs'[c][s] = Dropped(subs[c][s])
    BY <1>0, <2>1, RemoveFacts
  <2>3. \A d \in Clients : \A t \in DOMAIN subs[d] :
          /\ SubMoves(subs[d][t], subs'[d][t])
          /\ subs'[d][t].conv = subs[d][t].conv /\ subs'[d][t].chan = subs[d][t].chan
          /\ subs'[d][t].gen = subs[d][t].gen
          /\ subs[d][t].agent # None /\ subs[d][t].cancelled => subs'[d][t].cancelled
    <3>1. ASSUME NEW d \in Clients, NEW t \in DOMAIN subs[d]
          PROVE  /\ SubMoves(subs[d][t], subs'[d][t])
                 /\ subs'[d][t].conv = subs[d][t].conv /\ subs'[d][t].chan = subs[d][t].chan
                 /\ subs'[d][t].gen = subs[d][t].gen
                 /\ subs[d][t].agent # None /\ subs[d][t].cancelled => subs'[d][t].cancelled
      <4>1. subs[d][t] \in Subscription
        BY <1>0
      <4>2. subs'[d][t] = subs[d][t] \/ subs'[d][t] = Dropped(subs[d][t])
        BY <2>2
      <4> QED BY <4>1, <4>2, DroppedFacts, SubFacts
    <3> QED BY <3>1
  <2> QED BY <1>0, <2>2, <2>3 DEF Stays
<1> QED
  <2>1. CASE Watcher
    BY <1>1, <2>1 DEF Watcher, clientVars
  <2>2. CASE UNCHANGED pool /\ \E c \in Clients : \E x, i : Registers(c, x, i)
    <3>1a. PICK c \in Clients : \E x, i : Registers(c, x, i)
      BY <2>2
    <3>1. PICK x, i : Registers(c, x, i)
      BY <3>1a
    <3> QED BY <1>2, <2>2, <3>1
  <2> QED BY <1>1, <1>4, <1>5, <1>6, <2>1, <2>2, Kinds

----------------------------------------------------------------------------
(* Subscriptions and their channels. *)

\* A subscription has a channel that was made for its conversation, or none.
Connected(x) ==
  /\ IF x.conv = None THEN x.chan = <<0, 0>> /\ x.gen = 0 ELSE x.gen > 0 /\ Made(x.chan)
  /\ x.conv # None => pool[x.chan[1]].conv = x.conv
  /\ x.agent = None => x.gen = 1

LEMMA ConnectedNow ==
  ASSUME ServerInv, NEW c \in Clients, NEW s \in DOMAIN subs[c]
  PROVE  Connected(subs[c][s]) /\ subs[c][s] \in Subscription
  BY DEF ServerInv, ServerTypeOK, SubsOK, Connected

\* What was made stays, and keeps its conversation.
LEMMA ConnectedStays ==
  ASSUME ServerInv, ServerNext
  PROVE  \A ch : Made(ch) => Made(ch)' /\ pool'[ch[1]].conv = pool[ch[1]].conv
<1>1. PoolGrows /\ DOMAIN pool = DOMAIN bufs
  BY ServerStepMaps, PoolStep DEF ServerInv, ServerTypeOK, WatcherInv, TypeOK
<1> QED BY <1>1, BufsStep DEF PoolGrows, Made

LEMMA ConnectedStep ==
  ASSUME ServerInv, ServerNext, NEW c \in Clients, NEW s \in DOMAIN subs'[c],
         NEW x, x = subs'[c][s]
  PROVE  Connected(x)'
<1>1. CASE Stays(c, s)
  <2>1. s \in DOMAIN subs[c] /\ Connected(subs[c][s]) /\ x.agent = subs[c][s].agent
        /\ x.conv = subs[c][s].conv /\ x.chan = subs[c][s].chan /\ x.gen = subs[c][s].gen
    BY <1>1, ConnectedNow, SubsStep DEF Stays, SubMoves
  <2>2. Made(x.chan) => Made(x.chan)' /\ pool'[x.chan[1]].conv = pool[x.chan[1]].conv
    BY ConnectedStays
  <2> QED BY <2>1, <2>2 DEF Connected
<1>2. CASE Changes(c, s)
  <2>1. PoolGrows
    BY ServerStepMaps, PoolStep DEF ServerInv
  <2>2. \/ x.conv = None /\ x.chan = <<0, 0>> /\ x.gen = 0 /\ x.agent # None
        \/ /\ x.conv # None /\ x.gen > 0 /\ (x.agent = None => x.gen = 1)
           /\ Made(x.chan)' /\ x.chan[1] \in DOMAIN pool /\ pool[x.chan[1]].conv = x.conv
    BY <1>2 DEF Changes
  <2> QED BY <2>1, <2>2 DEF Connected, PoolGrows
<1> QED BY <1>1, <1>2, SubsStep

LEMMA SubsOKStep ==
  ASSUME ServerInv, ServerNext
  PROVE  SubsOK' /\ \A c \in Clients : \A s \in DOMAIN subs'[c] : \A x \in {subs'[c][s]} : Connected(x)'
<1>1. \A c \in Clients : \A s \in DOMAIN subs'[c] : \A x \in {subs'[c][s]} : Connected(x)'
  BY ConnectedStep
<1>2. ASSUME NEW c \in Clients, NEW s \in DOMAIN subs'[c]
      PROVE  /\ subs'[c][s].conv # None => pool'[subs'[c][s].chan[1]].conv = subs'[c][s].conv
             /\ subs'[c][s].agent = None => subs'[c][s].gen = 1
  <2>1. PICK x : x = subs'[c][s]
    OBVIOUS
  <2>2. Connected(x)'
    BY <1>1, <2>1
  <2> QED BY <2>1, <2>2 DEF Connected
<1> QED BY <1>1, <1>2 DEF SubsOK

LEMMA ChansApartStep ==
  ASSUME ServerInv, ServerNext
  PROVE  ChansApart'
<1> SUFFICES ASSUME NEW c \in Clients, NEW d \in Clients, NEW s \in DOMAIN subs'[c],
                    NEW t \in DOMAIN subs'[d],
                    subs'[c][s].conv # None, subs'[c][s].chan = subs'[d][t].chan
             PROVE  c = d /\ s = t
  BY DEF ChansApart
<1>0. ChansApart /\ bufs \in Seq(Buffer)
  BY DEF ServerInv, ServerTypeOK
<1>1. CASE Stays(c, s) /\ Stays(d, t)
  <2>1. /\ s \in DOMAIN subs[c] /\ t \in DOMAIN subs[d]
        /\ subs[c][s].conv # None /\ subs[c][s].chan = subs[d][t].chan
    BY <1>1, Zenon DEF Stays
  <2> QED BY <1>0, <2>1 DEF ChansApart
<1>2. ~Made(<<0, 0>>)
  BY <1>0 DEF Made
<1>3. ASSUME NEW e \in Clients, NEW u \in DOMAIN subs'[e], Stays(e, u)
      PROVE  \/ subs'[e][u].conv # None /\ Made(subs'[e][u].chan)
             \/ subs'[e][u].conv = None /\ subs'[e][u].chan = <<0, 0>>
  BY <1>3, ConnectedNow DEF Stays, Connected
<1>4. ASSUME NEW e \in Clients, NEW u \in DOMAIN subs'[e], Changes(e, u)
      PROVE  \/ subs'[e][u].conv # None /\ ~Made(subs'[e][u].chan) /\ subs'[e][u].chan # <<0, 0>>
             \/ subs'[e][u].conv = None /\ subs'[e][u].chan = <<0, 0>>
  BY <1>4 DEF Changes
<1>5. CASE Stays(c, s) /\ Changes(d, t)
  BY <1>2, <1>3, <1>4, <1>5
<1>6. CASE Changes(c, s) /\ Stays(d, t)
  BY <1>2, <1>3, <1>4, <1>6
<1> QED BY <1>1, <1>5, <1>6, SubsStep

\* The only subscription whose channel an unsubscribe closes is the one that
\* is given up, if each conversation was streamed once.
LEMMA ClosesOwn ==
  ASSUME ServerInv, NEW c \in Clients, NEW s \in DOMAIN subs[c], subs[c][s].conv # None,
         StreamedOnce(subs[c][s].conv),
         NEW d \in Clients, NEW T \in SUBSET DOMAIN subs[d],
         subs[c][s].chan \in Closes({subs[d][t] : t \in T})
  PROVE  c = d /\ s \in T
<1>0. /\ WatcherInv /\ ServerTypeOK /\ ChansApart /\ DOMAIN pool = DOMAIN bufs
      /\ subs[d] \in Seq(Subscription)
  BY DEF ServerInv, ServerTypeOK, WatcherInv, TypeOK
<1>1. PICK t \in T : /\ subs[d][t].conv # None
                     /\ subs[c][s].chan = <<streams[subs[d][t].conv], subs[d][t].chan[2]>>
  BY DEF Closes
<1> DEFINE x == subs[c][s]
           y == subs[d][t]
<1>2. x \in Subscription /\ y \in Subscription /\ Connected(x) /\ Connected(y)
  BY <1>1, ConnectedNow
<1> HIDE DEF x, y
<1>3. /\ Made(x.chan) /\ pool[x.chan[1]].conv = x.conv
      /\ Made(y.chan) /\ pool[y.chan[1]].conv = y.conv /\ y.conv \in Files
      /\ x.chan \in Nat \X Nat /\ y.chan \in Nat \X Nat
  BY <1>1, <1>2, SubFacts DEF Connected, x, y
<1>4. x.chan[1] = streams[y.conv] /\ x.chan[2] = y.chan[2]
  BY <1>1 DEF x, y
<1>5. x.chan[1] # 0 /\ x.chan[1] \in DOMAIN pool /\ y.chan[1] \in DOMAIN pool
  BY <1>0, <1>3 DEF Made, ServerTypeOK
<1>6. pool[x.chan[1]].conv = y.conv
  BY <1>0, <1>3, <1>4, <1>5 DEF WatcherInv, StreamsMatch
<1>7. x.chan[1] = y.chan[1]
  BY <1>3, <1>5, <1>6 DEF StreamedOnce, x
<1>8. x.chan = y.chan
  BY <1>3, <1>4, <1>7
<1> QED BY <1>0, <1>1, <1>8 DEF ChansApart, x, y


\* A subscription keeps an open channel until it is given up, or a follow
\* leaves its conversation.
LEMMA OpenStays ==
  ASSUME ServerInv, ServerNext, NEW c \in Clients, NEW s \in DOMAIN subs[c],
         NEW x, x = subs[c][s], x.conv # None, StreamedOnce(x.conv), Channel(x.chan).open,
         subs'[c][s].listed, x.agent # None => ~subs'[c][s].cancelled
  PROVE  Channel(x.chan)'.open
<1>0. /\ bufs \in Seq(Buffer) /\ WatcherInv /\ Len(bufs) = Len(pool) /\ DOMAIN pool = DOMAIN bufs
      /\ subs \in [Clients -> Seq(Subscription)] /\ ReadsOwn /\ ServerTypeOK
  BY DEF ServerInv, ServerTypeOK, WatcherInv, TypeOK
<1>1. Connected(x) /\ x \in Subscription /\ x.conv # None /\ Made(x.chan) /\ x.chan \in Nat \X Nat
  BY ConnectedNow, SubFacts DEF Connected
<1>2. CASE Watcher
  <2>1. PoolGrows
    BY <1>0, ServerStepMaps, PoolStep
  <2> QED BY <1>0, <1>1, <1>2, <2>1, WatcherFacts
<1>3. CASE UNCHANGED bufs
  BY <1>3, Zenon DEF Channel
<1>4. CASE \E i \in DOMAIN pool : Pump(i)
  BY <1>0, <1>1, <1>4, PumpFacts
<1>5. CASE \E g \in gos : StreamReceive(g) \/ StreamDrop(g)
  <2>1. PICK g \in gos : StreamReceive(g) \/ StreamDrop(g)
    BY <1>5
  <2>2. CASE Touches(g)
    BY <1>0, <1>1, <2>2, TouchedFacts
  <2>3. ServerInv
    OBVIOUS
  <2> QED BY <1>3, <2>1, <2>2, <2>3, Touching
<1>6. CASE \E i \in DOMAIN bufs : bufs' = Subscribed(i)
  <2>1. PICK i \in DOMAIN bufs : bufs' = Subscribed(i)
    BY <1>6
  <2>2. PICK new : new = NextChan(i)
    OBVIOUS
  <2> QED BY <1>0, <1>1, <2>1, <2>2, SubscribedFacts
<1>7. ASSUME NEW d \in Clients, NEW T \in SUBSET DOMAIN subs[d],
             bufs' = Unsubscribed({subs[d][t] : t \in T}), ~(c = d /\ s \in T)
      PROVE  Channel(x.chan)'.open
  <2>1. x.chan \notin Closes({subs[d][t] : t \in T})
    BY <1>1, <1>7, ClosesOwn
  <2> QED BY <1>0, <1>1, <1>7, <2>1, UnsubscribedFacts, Zenon
<1>8. CASE \E d \in Clients : \E t : Detaches(d, t)
  <2>1. PICK d \in Clients : \E t : Detaches(d, t)
    BY <1>8
  <2>2. PICK t : Detaches(d, t)
    BY <2>1
  <2>3. t \in DOMAIN subs[d] /\ bufs' = Unsubscribed({subs[d][u] : u \in {t}})
    BY <2>2 DEF Detaches
  <2>4. ~(c = d /\ s = t)
    <3> SUFFICES ASSUME c = d, s = t PROVE FALSE
      OBVIOUS
    <3>1. CASE subs' = [subs EXCEPT ![c][s] = Dropped(x)]
      <4>1. subs'[c][s] = Dropped(x)
        BY <1>0, <1>1, <3>1, DroppedFacts, OneSub
      <4> QED BY <1>1, <4>1, DroppedFacts
    <3>2. CASE subs' = [subs EXCEPT ![c][s] = Superseded(x)] /\ x.agent # None
      <4>1. subs'[c][s] = Superseded(x)
        BY <1>0, <1>1, <3>2, SupersededFacts, OneSub
      <4>2. x.gen # 0
        BY <1>1, SubFacts DEF Connected
      <4> QED BY <1>1, <3>2, <4>1, <4>2, SupersededFacts, Zenon
    <3> QED BY <2>2, <3>1, <3>2 DEF Detaches
  <2>5. {t} \in SUBSET DOMAIN subs[d] /\ ~(c = d /\ s \in {t})
    BY <2>3, <2>4
  <2> QED BY <1>7, <2>3, <2>5, Zenon
<1>9. CASE \E d \in Clients : RemoveClient(d)
  <2>1. PICK d \in Clients : RemoveClient(d)
    BY <1>9
  <2> DEFINE T == {t \in DOMAIN subs[d] : subs[d][t].listed}
  <2>2. bufs' = Unsubscribed({subs[d][t] : t \in T})
    BY <2>1 DEF RemoveClient
  <2>3. c # d
    BY <1>0, <1>1, <2>1, RemoveFacts, DroppedFacts
  <2> QED BY <1>7, <2>2, <2>3, Zenon
<1>10. ASSUME NEW d \in Clients, NEW y, NEW i, Registers(d, y, i)
       PROVE  Channel(x.chan)'.open
  BY <1>3, <1>6, <1>10 DEF Registers
<1>11. ASSUME NEW d \in Clients, NEW t, NEW f, NEW i, Serves(d, t, f, i)
       PROVE  Channel(x.chan)'.open
  BY <1>6, <1>11, Zenon DEF Serves, Attach
<1> QED BY <1>2, <1>3, <1>4, <1>5, <1>8, <1>9, <1>10, <1>11, Kinds

LEMMA OpenStep ==
  ASSUME ServerInv, ServerNext
  PROVE  NobodyElseDetaches'
<1> SUFFICES ASSUME NEW c \in Clients, NEW s \in DOMAIN subs'[c], NEW x, x = subs'[c][s],
                    x.agent = None, x.listed, StreamedOnce(x.conv)'
             PROVE  Channel(x.chan)'.open
  BY DEF NobodyElseDetaches
<1>1. CASE Changes(c, s)
  BY <1>1 DEF Changes
<1>2. CASE Stays(c, s)
  <2>1. s \in DOMAIN subs[c] /\ x.conv = subs[c][s].conv /\ x.chan = subs[c][s].chan
        /\ subs[c][s].agent = None /\ subs[c][s].listed /\ subs[c][s].conv # None
    BY <1>2, SubsStep, ConnectedNow DEF Stays, SubMoves, Connected
  <2>2. StreamedOnce(x.conv)
    <3>1. PoolGrows
      BY ServerStepMaps, PoolStep DEF ServerInv
    <3> QED BY <3>1 DEF PoolGrows, StreamedOnce
  <2>3. Channel(x.chan).open
    BY <2>1, <2>2 DEF ServerInv, NobodyElseDetaches
  <2> QED BY <2>1, <2>2, <2>3, OpenStays
<1> QED BY <1>1, <1>2, SubsStep


----------------------------------------------------------------------------
(* Types. *)

LEMMA FollowSet ==
  ASSUME follows \in [Clients -> [Agents -> 0..MaxSubs]], NEW c \in Clients, NEW a \in Agents,
         NEW n \in 0..MaxSubs, follows' = [follows EXCEPT ![c][a] = n]
  PROVE  /\ follows' \in [Clients -> [Agents -> 0..MaxSubs]] /\ follows'[c][a] = n
         /\ \A d \in Clients : \A b \in Agents : d # c \/ b # a => follows'[d][b] = follows[d][b]
<1> DEFINE q == [follows[c] EXCEPT ![a] = n]
<1>1. follows' = [follows EXCEPT ![c] = q]
  OBVIOUS
<1>2. q \in [Agents -> 0..MaxSubs] /\ q[a] = n /\ \A b \in Agents \ {a} : q[b] = follows[c][b]
  OBVIOUS
<1> HIDE DEF q
<1> QED BY <1>1, <1>2

LEMMA ViewSet ==
  ASSUME view \in [Clients -> [1..MaxSubs -> View]], NEW c \in Clients, NEW s \in 1..MaxSubs,
         NEW v \in View, view' = [view EXCEPT ![c][s] = v]
  PROVE  /\ view' \in [Clients -> [1..MaxSubs -> View]] /\ view'[c][s] = v
         /\ \A d \in Clients : \A t \in 1..MaxSubs : d # c \/ t # s => view'[d][t] = view[d][t]
<1> DEFINE q == [view[c] EXCEPT ![s] = v]
<1>1. view' = [view EXCEPT ![c] = q]
  OBVIOUS
<1>2. q \in [1..MaxSubs -> View] /\ q[s] = v /\ \A t \in (1..MaxSubs) \ {s} : q[t] = view[c][t]
  BY Zenon
<1> HIDE DEF q
<1> QED BY <1>1, <1>2, Zenon

LEMMA SnapshotFacts ==
  ASSUME NEW f \in Files \cup {None}, NEW n \in Nat
  PROVE  /\ Snapshot(f, n) \in View /\ Snapshot(f, n).told = f /\ Snapshot(f, n).next = n
         /\ Snapshot(f, n).label = None /\ Snapshot(f, n).exact = TRUE
         /\ NoView \in View
  BY Zenon DEF Snapshot, NoView, View

LEMMA GoFacts ==
  ASSUME NEW c \in Clients, NEW s \in Nat, NEW n \in Nat
  PROVE  /\ GoStream(c, s, n) \in Streamer /\ GoStream(c, s, n).client = c
         /\ GoStream(c, s, n).sub = s /\ GoStream(c, s, n).gen = n
         /\ GoStream(c, s, n).pc = "enter"
  BY DEF GoStream, Streamer

\* Subscriptions are numbered within the bound.
LEMMA Numbers ==
  ASSUME ServerTypeOK, NEW c \in Clients, NEW s \in DOMAIN subs[c]
  PROVE  s \in 1..MaxSubs /\ s \in Nat
  BY ServerAssumption DEF ServerTypeOK

\* The state of the server without buffers and subscriptions.
OwnTypes ==
  /\ clients \subseteq Clients /\ closing \subseteq Clients
  /\ follows \in [Clients -> [Agents -> 0..MaxSubs]]
  /\ handler \in [Clients -> Handler]
  /\ bcast \in Broadcaster
  /\ gos \subseteq Streamer
  /\ view \in [Clients -> [1..MaxSubs -> View]]

LEMMA ServedFacts ==
  ASSUME bcast \in Broadcaster, NEW c
  PROVE  Served(c) \in Broadcaster
  BY Zenon DEF Served, NoBroadcast, Broadcaster

LEMMA AttachTypes ==
  ASSUME ServerTypeOK, NEW c \in Clients, NEW s \in DOMAIN subs[c], NEW f \in Files,
         NEW i \in DOMAIN bufs, Attach(c, s, f, i)
  PROVE  gos' \subseteq Streamer
<1>1. gos \subseteq Streamer /\ s \in Nat
  BY Numbers DEF ServerTypeOK
<1>2. subs[c][s].gen + 1 \in Nat
  <2>1. subs[c][s] \in Subscription
    BY DEF ServerTypeOK
  <2> QED BY <2>1, SubFacts
<1>3. gos' = gos \cup {GoStream(c, s, subs[c][s].gen + 1)}
  BY DEF Attach
<1>4. GoStream(c, s, subs[c][s].gen + 1) \in Streamer
  BY <1>1, <1>2, GoFacts
<1> QED BY <1>1, <1>3, <1>4

LEMMA ClientTypes ==
  ASSUME ServerInv, NEW c \in Clients, Client(c)
  PROVE  OwnTypes'
<1>0. /\ ServerTypeOK /\ OwnTypes /\ WatcherInv /\ HandlerOK
      /\ active \in [Agents -> Files \cup {None}]
      /\ handler[c] \in Handler
      /\ subs \in [Clients -> Seq(Subscription)] /\ bufs \in Seq(Buffer)
  BY DEF ServerInv, ServerTypeOK, OwnTypes, WatcherInv, TypeOK
<1> USE <1>0 DEF OwnTypes
<1>1. CASE \E a \in Agents : FollowAgent(c, a)
  <2>1. PICK a \in Agents : FollowAgent(c, a)
    BY <1>1
  <2> DEFINE h == [AtRest EXCEPT !.pc = "follow", !.agent = a, !.conv = active[a]]
  <2>2. h \in Handler
    BY Zenon DEF AtRest, Handler
  <2>3. handler' = [handler EXCEPT ![c] = h]
    BY <2>1 DEF FollowAgent
  <2> HIDE DEF h
  <2> QED BY <2>1, <2>2, <2>3 DEF FollowAgent
<1>2. CASE FollowRegister(c)
  <2>1. PICK h \in Handler : handler' = [handler EXCEPT ![c] = h]
    BY <1>2, FollowRegisters
  <2>2. handler[c].agent \in Agents /\ Len(subs[c]) < MaxSubs /\ Len(subs[c]) \in Nat
    BY <1>2 DEF FollowRegister, HandlerOK, HandlerOf
  <2>3. Len(subs[c]) + 1 \in 0..MaxSubs
    BY <2>2, ServerAssumption
  <2>4. follows' = [follows EXCEPT ![c][handler[c].agent] = Len(subs[c]) + 1]
    BY <1>2 DEF FollowRegister
  <2>5. follows' \in [Clients -> [Agents -> 0..MaxSubs]]
    BY <2>2, <2>3, <2>4, FollowSet
  <2> QED BY <1>2, <2>1, <2>5 DEF FollowRegister
<1>3. CASE FollowReply(c)
  <2>1. AtRest \in Handler
    BY DEF AtRest, Handler
  <2>2. handler' = [handler EXCEPT ![c] = AtRest]
    BY <1>3 DEF FollowReply
  <2> DEFINE s == Len(subs[c])
  <2>3. s \in DOMAIN subs[c] /\ s \in 1..MaxSubs /\ s \in Nat
    <3>1. s > 0 /\ s \in Nat
      BY <1>3 DEF FollowReply, HandlerOK, HandlerOf
    <3>2. s \in DOMAIN subs[c]
      BY <3>1
    <3> QED BY <3>1, <3>2, Numbers
  <2>4. CASE handler[c].conv = None
    BY <1>3, <2>1, <2>2, <2>4 DEF FollowReply
  <2>5. CASE handler[c].conv # None
    <3>1. gos' = gos \cup {GoStream(c, s, 1)}
      BY <1>3, <2>5 DEF FollowReply
    <3>2. gos' \subseteq Streamer
      BY <2>3, <3>1, GoFacts
    <3> QED BY <1>3, <2>1, <2>2, <3>2, Zenon DEF FollowReply
  <2> QED BY <2>4, <2>5
<1>4. CASE \E f \in Files : SubscribeConversation(c, f)
  <2>1. PICK f \in Files : SubscribeConversation(c, f)
    BY <1>4
  <2>2. PICK x, i : /\ Registers(c, x, i) /\ i \in DOMAIN bufs
                    /\ view' = [view EXCEPT ![c][Len(subs[c]) + 1] = Snapshot(f, bufs[i].next)]
                    /\ gos' = gos \cup {GoStream(c, Len(subs[c]) + 1, 1)}
    BY <2>1, SubscribeRegisters, Zenon
  <2>3. Len(subs[c]) + 1 \in 1..MaxSubs /\ Len(subs[c]) + 1 \in Nat
    <3>1. Len(subs[c]) \in Nat /\ Len(subs[c]) < MaxSubs
      BY <2>2 DEF Registers
    <3> QED BY <3>1, ServerAssumption
  <2>4. Snapshot(f, bufs[i].next) \in View
    <3>1. bufs[i] \in Buffer
      BY <2>2
    <3> QED BY <3>1, SnapshotFacts, Zenon DEF Buffer
  <2>5. view' \in [Clients -> [1..MaxSubs -> View]]
    BY <2>2, <2>3, <2>4, ViewSet
  <2>6. gos' \subseteq Streamer
    BY <2>2, <2>3, GoFacts
  <2> QED BY <2>1, <2>5, <2>6 DEF SubscribeConversation
<1>5. CASE \E s \in 1..MaxSubs : Unsubscribe(c, s)
  <2>1. PICK s \in 1..MaxSubs : Unsubscribe(c, s)
    BY <1>5
  <2>2. s \in DOMAIN subs[c] /\ subs[c][s] \in Subscription
    BY <2>1 DEF Unsubscribe
  <2>3. CASE subs[c][s].agent = None
    BY <2>1, <2>3 DEF Unsubscribe
  <2>4. CASE subs[c][s].agent # None
    <3>1. subs[c][s].agent \in Agents /\ 0 \in 0..MaxSubs
      BY <2>2, <2>4, SubFacts, ServerAssumption
    <3>2. follows' = [follows EXCEPT ![c][subs[c][s].agent] = 0]
      BY <2>1, <2>4 DEF Unsubscribe
    <3>3. follows' \in [Clients -> [Agents -> 0..MaxSubs]]
      BY <3>1, <3>2, FollowSet
    <3> QED BY <2>1, <3>3 DEF Unsubscribe
  <2> QED BY <2>3, <2>4
<1>6. CASE \E a \in Agents : UnsubscribeAgent(c, a)
  <2>1. PICK a \in Agents : UnsubscribeAgent(c, a)
    BY <1>6
  <2>2. follows' = [follows EXCEPT ![c][a] = 0] /\ 0 \in 0..MaxSubs
    BY <2>1, ServerAssumption DEF UnsubscribeAgent
  <2>3. follows' \in [Clients -> [Agents -> 0..MaxSubs]]
    BY <2>2, FollowSet
  <2> QED BY <2>1, <2>3 DEF UnsubscribeAgent
<1>7. CASE Disconnect(c)
  BY <1>7 DEF Disconnect
<1>8. CASE RemoveClient(c)
  <2>1. [a \in Agents |-> 0] \in [Agents -> 0..MaxSubs]
    BY ServerAssumption
  <2>2. follows' \in [Clients -> [Agents -> 0..MaxSubs]]
    BY <1>8, <2>1 DEF RemoveClient
  <2> QED BY <1>8, <2>2 DEF RemoveClient
<1> QED BY <1>1, <1>2, <1>3, <1>4, <1>5, <1>6, <1>7, <1>8 DEF Client

LEMMA OwnTypesStep ==
  ASSUME ServerInv, ServerNext
  PROVE  OwnTypes'
<1>0. /\ ServerTypeOK /\ OwnTypes /\ WatcherInv /\ BroadcastOK /\ GosOK /\ ReadsOwn
      /\ events \in Seq(LifecycleEvent) /\ pool \in Seq(Stream)
      /\ subs \in [Clients -> Seq(Subscription)] /\ bufs \in Seq(Buffer)
      /\ DOMAIN pool = DOMAIN bufs
  BY DEF ServerInv, ServerTypeOK, OwnTypes, WatcherInv, TypeOK
<1> USE <1>0 DEF OwnTypes
<1>1. CASE Watcher \/ \E i \in DOMAIN pool : Pump(i)
  BY <1>1 DEF Watcher, Pump, clientVars
<1>2. CASE BroadcastNext
  <2>1. Head(events) \in LifecycleEvent
    BY <1>2 DEF BroadcastNext
  <2>2. bcast' \in Broadcaster
    <3>1. NoBroadcast \in Broadcaster
      BY DEF NoBroadcast, Broadcaster
    <3>2. [event |-> Head(events), todo |-> clients, at |-> None] \in Broadcaster
      BY <2>1 DEF Broadcaster
    <3> QED BY <1>2, <3>1, <3>2 DEF BroadcastNext
  <2> QED BY <1>2, <2>2 DEF BroadcastNext
<1>3. ASSUME NEW c \in Clients, DeliverStarted(c) \/ DeliverSwitchedTo(c)
      PROVE  OwnTypes'
  <2>1. bcast' \in Broadcaster
    BY <1>3, ServedFacts DEF DeliverStarted, DeliverSwitchedTo
  <2>2. CASE UNCHANGED <<bufs, subs, gos>>
    BY <1>3, <2>1, <2>2 DEF DeliverStarted, DeliverSwitchedTo
  <2>3. CASE \E s, f, i : Serves(c, s, f, i)
    <3>1. PICK s, f, i : Serves(c, s, f, i)
      BY <2>3
    <3>2. gos' \subseteq Streamer
      BY <3>1, AttachTypes DEF Serves
    <3> QED BY <1>3, <2>1, <3>2 DEF DeliverStarted, DeliverSwitchedTo
  <2>4. ServerInv
    OBVIOUS
  <2> QED BY <1>3, <2>2, <2>3, <2>4, Attaches
<1>4. ASSUME NEW c \in Clients, DeliverSwitched(c)
      PROVE  OwnTypes'
  <2> DEFINE s == follows[c][bcast.event.agent]
  <2>1. bcast.event.agent \in Agents
    BY <1>4, AtClient, BroadcastFacts
  <2>2. s \in 0..MaxSubs
    BY <2>1
  <2>3. CASE s = 0
    BY <1>4, <2>3, ServedFacts DEF DeliverSwitched
  <2>4. CASE s # 0
    <3>2. bcast' = [bcast EXCEPT !.at = c]
      BY <1>4, <2>4 DEF DeliverSwitched
    <3>3. bcast' \in Broadcaster
      BY <3>2, Zenon DEF Broadcaster
    <3> QED BY <1>4, <3>3 DEF DeliverSwitched
  <2> QED BY <2>3, <2>4
<1>5. ASSUME NEW c \in Clients, Client(c)
      PROVE  OwnTypes'
  BY <1>5, ClientTypes
<1>6. CASE Streaming
  <2>1. PICK g \in gos : \/ StreamEnter(g) \/ StreamReceive(g)
                    \/ StreamSend(g) \/ StreamDrop(g) \/ StreamEnd(g)
    BY <1>6 DEF Streaming
  <2>2. /\ g \in Streamer /\ g.client \in Clients /\ g.sub \in Nat /\ g.gen \in Nat
        /\ g.chan \in Nat \X Nat /\ g.seq \in Nat
    BY DEF Streamer
  <2>3. g.sub \in DOMAIN subs[g.client]
    BY DEF GosOK
  <2>4. subs[g.client][g.sub] \in Subscription /\ g.sub \in 1..MaxSubs
    BY <2>2, <2>3, Numbers
  <2>5. CASE StreamEnter(g)
    <3> DEFINE h == [client |-> g.client, sub |-> g.sub, gen |-> g.gen, pc |-> "wait",
                     chan |-> subs[g.client][g.sub].chan, seq |-> 0]
    <3>1. h \in Streamer
      BY <2>2, <2>4, SubFacts DEF Streamer
    <3>2. gos' = Replaced(g, h)
      BY <2>5 DEF StreamEnter
    <3> HIDE DEF h
    <3> QED BY <2>5, <3>1, <3>2 DEF StreamEnter, Replaced
  <2>6. CASE StreamReceive(g)
    <3> DEFINE h == [client |-> g.client, sub |-> g.sub, gen |-> g.gen, pc |-> "send",
                     chan |-> g.chan, seq |-> Head(Channel(g.chan).q)]
    <3>1. Channel(g.chan).q \in Seq(Nat) /\ Channel(g.chan).q # <<>>
      BY <2>6, ChannelFacts DEF StreamReceive, ReadsOwn
    <3>2. Head(Channel(g.chan).q) \in Nat
      BY <3>1
    <3>3. h \in Streamer
      BY <2>2, <3>2 DEF Streamer
    <3>4. gos' = Replaced(g, h)
      BY <2>6 DEF StreamReceive
    <3> HIDE DEF h
    <3> QED BY <2>6, <3>3, <3>4 DEF StreamReceive, Replaced
  <2>7. CASE StreamSend(g)
    <3> DEFINE v == view[g.client][g.sub]
               e == v.exact /\ v.next <= g.seq /\ AllLost(g.chan, v.next, g.seq - 1)
               w == [told |-> v.told, next |-> g.seq + 1,
                     label |-> subs[g.client][g.sub].conv, from |-> pool[g.chan[1]].conv,
                     exact |-> e]
    <3>1. v \in View
      BY <2>2, <2>4, Zenon
    <3>2. pool[g.chan[1]].conv \in Files
      <4>1. g.chan[1] \in DOMAIN pool
        BY <2>7 DEF StreamSend, ReadsOwn, Made
      <4>2. pool[g.chan[1]] \in Stream
        BY <4>1
      <4> QED BY <4>2 DEF Stream
    <3>3. e \in BOOLEAN
      OBVIOUS
    <3>4. v.told \in Files \cup {None} /\ subs[g.client][g.sub].conv \in Files \cup {None}
          /\ g.seq + 1 \in Nat
      BY <2>2, <2>4, <3>1, SubFacts DEF View
    <3>5. w \in View
      <4> HIDE DEF v, e
      <4> QED BY <3>2, <3>3, <3>4, Zenon DEF View
    <3>6. /\ view' = view \/ view' = [view EXCEPT ![g.client][g.sub] = w]
          /\ gos' = Replaced(g, GoStream(g.client, g.sub, g.gen))
      BY <2>7, Zenon DEF StreamSend
    <3> HIDE DEF w
    <3>7. view' \in [Clients -> [1..MaxSubs -> View]]
      BY <2>2, <2>4, <3>5, <3>6, ViewSet
    <3>8. gos' \subseteq Streamer
      <4>1. GoStream(g.client, g.sub, g.gen) \in Streamer
        BY <2>2, GoFacts
      <4> QED BY <3>6, <4>1 DEF Replaced
    <3> QED BY <2>7, <3>7, <3>8 DEF StreamSend
  <2>8. CASE StreamEnd(g)
    BY <2>8 DEF StreamEnd
  <2>9. CASE StreamDrop(g)
    <3>1. gos' \subseteq Streamer
      BY <2>2, <2>9, GoFacts DEF StreamDrop, Replaced
    <3> QED BY <2>9, <3>1 DEF StreamDrop
  <2> QED BY <2>1, <2>5, <2>6, <2>7, <2>8, <2>9
<1> QED BY <1>1, <1>2, <1>3, <1>4, <1>5, <1>6 DEF ServerNext, Broadcast

----------------------------------------------------------------------------
(* c.follows and c.subs. *)

\* What a handler or Broadcast does for one client leaves the others alone.
LEMMA Others ==
  ASSUME ServerInv, NEW c \in Clients, NEW d \in Clients \ {c},
         Client(c) \/ DeliverStarted(c) \/ DeliverSwitched(c) \/ DeliverSwitchedTo(c)
  PROVE  subs'[d] = subs[d] /\ follows'[d] = follows[d] /\ handler'[d] = handler[d]
<1>0. /\ subs \in [Clients -> Seq(Subscription)]
      /\ follows \in [Clients -> [Agents -> 0..MaxSubs]] /\ handler \in [Clients -> Handler]
  BY DEF ServerInv, ServerTypeOK
<1>1. CASE \E a \in Agents : FollowAgent(c, a) \/ UnsubscribeAgent(c, a)
  BY <1>0, <1>1 DEF FollowAgent, UnsubscribeAgent
<1>2. CASE FollowRegister(c)
  BY <1>0, <1>2 DEF FollowRegister
<1>3. CASE FollowReply(c) \/ Disconnect(c) \/ RemoveClient(c)
  BY <1>0, <1>3 DEF FollowReply, Disconnect, RemoveClient
<1>4. CASE \E f \in Files : SubscribeConversation(c, f)
  BY <1>0, <1>4 DEF SubscribeConversation
<1>5. CASE \E s \in 1..MaxSubs : Unsubscribe(c, s)
  BY <1>0, <1>5 DEF Unsubscribe
<1>6. CASE DeliverStarted(c) \/ DeliverSwitched(c) \/ DeliverSwitchedTo(c)
  BY <1>0, <1>6, Zenon DEF DeliverStarted, DeliverSwitched, DeliverSwitchedTo, Attach
<1> QED BY <1>1, <1>2, <1>3, <1>4, <1>5, <1>6 DEF Client

\* A step that is no client's own changes none of this.
LEMMA OthersStep ==
  ASSUME ServerNext
  PROVE  \/ \E c \in Clients :
              Client(c) \/ DeliverStarted(c) \/ DeliverSwitched(c) \/ DeliverSwitchedTo(c)
         \/ /\ UNCHANGED <<subs, follows, handler, closing>>
            /\ BroadcastNext \/ UNCHANGED bcast
  BY Zenon DEF ServerNext, Watcher, Pump, Broadcast, BroadcastNext, Streaming, StreamEnter,
         StreamReceive, StreamSend, StreamDrop, StreamEnd, clientVars

\* Broadcast changes at most the follow of the client it is with.
LEMMA DeliverMoves ==
  ASSUME ServerInv, NEW c \in Clients,
         DeliverStarted(c) \/ DeliverSwitched(c) \/ DeliverSwitchedTo(c)
  PROVE  \/ subs' = subs
         \/ \E s \in DOMAIN subs[c], x \in Subscription :
              /\ subs' = [subs EXCEPT ![c][s] = x] /\ SubMoves(subs[c][s], x)
              /\ x.agent = subs[c][s].agent /\ x.listed = subs[c][s].listed /\ x.agent # None
<1>0. ServerTypeOK /\ BroadcastOK /\ FollowsOf(c) /\ None \notin Agents
      /\ subs \in [Clients -> Seq(Subscription)]
  BY WatcherAssumption DEF ServerInv, FollowsOK, ServerTypeOK
<1>1. CASE DeliverSwitched(c) /\ subs' # subs
  <2> DEFINE s == follows[c][bcast.event.agent]
  <2>1. bcast.event.agent \in Agents
    BY <1>0, <1>1, AtClient, BroadcastFacts
  <2>2. s # 0 /\ subs' = [subs EXCEPT ![c][s] = Superseded(subs[c][s])]
    BY <1>1 DEF DeliverSwitched
  <2>3. s \in DOMAIN subs[c] /\ subs[c][s] \in Subscription /\ subs[c][s].agent # None
    BY <1>0, <2>1, <2>2 DEF FollowsOf
  <2> HIDE DEF s
  <2> QED BY <2>2, <2>3, SupersededFacts, Zenon
<1>2. CASE (DeliverStarted(c) \/ DeliverSwitchedTo(c)) /\ subs' # subs
  <2>1. PICK s, f, i : Serves(c, s, f, i)
    BY <1>2, Attaches
  <2>2. PICK new : new = NextChan(i)
    OBVIOUS
  <2>3. /\ s \in DOMAIN subs[c] /\ f \in Files /\ i \in DOMAIN bufs
        /\ subs[c][s].agent # None /\ Attach(c, s, f, i)
    BY <1>0, <2>1 DEF Serves
  <2>4. ServerTypeOK
    BY <1>0
  <2>5. PICK x \in Subscription :
           /\ subs' = [subs EXCEPT ![c][s] = x]
           /\ x.agent = subs[c][s].agent /\ x.conv = f /\ x.conv # None /\ x.chan = new
           /\ x.gen = subs[c][s].gen + 1 /\ x.listed = subs[c][s].listed
           /\ SubMoves(subs[c][s], x)
    BY <2>2, <2>3, <2>4, AttachFacts
  <2> QED BY <2>3, <2>5, Zenon
<1> QED BY <1>1, <1>2

LEMMA FollowsSame ==
  ASSUME NEW c \in Clients, subs[c] \in Seq(Subscription), FollowsOf(c),
         DOMAIN subs'[c] = DOMAIN subs[c], follows'[c] = follows[c],
         \A s \in DOMAIN subs[c] : /\ subs'[c][s].agent = subs[c][s].agent
                                   /\ subs'[c][s].listed = subs[c][s].listed,
         \A a : Following(c, a)' = Following(c, a)
  PROVE  FollowsOf(c)'
<1>1. ASSUME NEW a \in Agents, NEW s, s = follows'[c][a], s # 0
      PROVE  s \in DOMAIN subs'[c] /\ subs'[c][s].agent = a
             /\ (~Following(c, a)' => subs'[c][s].listed)
  BY <1>1 DEF FollowsOf
<1>2. ASSUME NEW s \in DOMAIN subs'[c], NEW a, a = subs'[c][s].agent, a # None, subs'[c][s].listed
      PROVE  follows'[c][a] = s /\ ~Following(c, a)'
  BY <1>2 DEF FollowsOf
<1> QED BY <1>1, <1>2 DEF FollowsOf, Following

\* The subscriptions of a client that drops one of them.
LEMMA DropFacts ==
  ASSUME subs \in [Clients -> Seq(Subscription)], NEW c \in Clients, NEW s \in DOMAIN subs[c],
         subs' = [subs EXCEPT ![c][s] = Dropped(subs[c][s])]
  PROVE  /\ DOMAIN subs'[c] = DOMAIN subs[c] /\ s \in Nat \ {0}
         /\ ~subs'[c][s].listed /\ subs'[c][s].agent = subs[c][s].agent
         /\ \A t \in DOMAIN subs[c] : t # s => subs'[c][t] = subs[c][t]
<1>1. subs[c] \in Seq(Subscription) /\ subs[c][s] \in Subscription /\ s \in Nat \ {0}
  OBVIOUS
<1>2. Dropped(subs[c][s]) \in Subscription
  BY <1>1, DroppedFacts
<1> QED BY <1>1, <1>2, DroppedFacts, OneSub

LEMMA FollowsOwn ==
  ASSUME ServerInv, NEW c \in Clients,
         Client(c) \/ DeliverStarted(c) \/ DeliverSwitched(c) \/ DeliverSwitchedTo(c)
  PROVE  FollowsOf(c)'
<1>0. /\ ServerTypeOK /\ HandlerOK /\ BroadcastOK /\ FollowsOf(c)
      /\ subs \in [Clients -> Seq(Subscription)] /\ subs[c] \in Seq(Subscription)
      /\ DOMAIN subs[c] = 1..Len(subs[c]) /\ Len(subs[c]) \in Nat
      /\ follows \in [Clients -> [Agents -> 0..MaxSubs]] /\ handler \in [Clients -> Handler]
      /\ None \notin Agents
  BY WatcherAssumption DEF ServerInv, ServerTypeOK, FollowsOK
<1>a. \A s \in DOMAIN subs[c] : subs[c][s].agent \in Agents \cup {None}
  BY <1>0, SubFacts
\* It is enough to show the two halves.
<1>b. ASSUME \A a \in Agents : \A s \in {follows'[c][a]} :
               s # 0 => s \in DOMAIN subs'[c] /\ subs'[c][s].agent = a
                        /\ (~Following(c, a)' => subs'[c][s].listed),
             \A s \in DOMAIN subs'[c] : \A a \in Agents :
               subs'[c][s].agent = a /\ subs'[c][s].listed => follows'[c][a] = s /\ ~Following(c, a)',
             \A s \in DOMAIN subs'[c] : subs'[c][s].agent \in Agents \cup {None}
      PROVE  FollowsOf(c)'
  BY <1>b DEF FollowsOf, Following
<1>c. \A a \in Agents : \A s \in {follows[c][a]} :
        s # 0 => s \in DOMAIN subs[c] /\ subs[c][s].agent = a
                 /\ (~Following(c, a) => subs[c][s].listed)
  <2> SUFFICES ASSUME NEW a \in Agents, follows[c][a] # 0
               PROVE  /\ follows[c][a] \in DOMAIN subs[c] /\ subs[c][follows[c][a]].agent = a
                      /\ (~Following(c, a) => subs[c][follows[c][a]].listed)
    OBVIOUS
  <2> QED BY <1>0 DEF FollowsOf
<1>d. \A s \in DOMAIN subs[c] : \A a \in Agents :
        subs[c][s].agent = a /\ subs[c][s].listed => follows[c][a] = s /\ ~Following(c, a)
  <2> SUFFICES ASSUME NEW s \in DOMAIN subs[c], subs[c][s].agent \in Agents, subs[c][s].listed
               PROVE  follows[c][subs[c][s].agent] = s /\ ~Following(c, subs[c][s].agent)
    OBVIOUS
  <2> QED BY <1>0 DEF FollowsOf
<1>e. CanHandle(c) => \A a : ~Following(c, a)
  BY DEF CanHandle, Following
<1>1. CASE \E a \in Agents : FollowAgent(c, a)
  <2>1. PICK a \in Agents : FollowAgent(c, a)
    BY <1>1
  <2>2. \A b : Following(c, b)' <=> b = a
    <3>1. handler'[c].pc = "follow" /\ handler'[c].agent = a
      BY <1>0, <2>1 DEF FollowAgent, AtRest
    <3> QED BY <3>1 DEF Following
  <2>3. follows' = follows /\ CanHandle(c)
    BY <2>1 DEF FollowAgent
  <2>4. CASE follows[c][a] = 0
    <3>1. subs' = subs
      BY <2>1, <2>4 DEF FollowAgent
    <3> QED BY <1>0, <1>a, <1>b, <1>c, <1>d, <1>e, <2>2, <2>3, <2>4, <3>1
  <2>5. CASE follows[c][a] # 0
    <3>1. PICK s \in DOMAIN subs[c] : s = follows[c][a] /\ subs[c][s].agent = a
      BY <1>c, <2>5
    <3>2. subs' = [subs EXCEPT ![c][s] = Dropped(subs[c][s])]
      BY <2>1, <2>5, <3>1 DEF FollowAgent
    <3>3. /\ DOMAIN subs'[c] = DOMAIN subs[c]
          /\ ~subs'[c][s].listed /\ subs'[c][s].agent = subs[c][s].agent
          /\ \A t \in DOMAIN subs[c] : t # s => subs'[c][t] = subs[c][t]
      BY <1>0, <3>2, DropFacts, Zenon
    <3>4. \A b \in Agents : \A t \in {follows'[c][b]} :
             t # 0 => t \in DOMAIN subs'[c] /\ subs'[c][t].agent = b
                      /\ (~Following(c, b)' => subs'[c][t].listed)
      BY <1>c, <1>e, <2>2, <2>3, <3>1, <3>3
    <3>5. \A t \in DOMAIN subs'[c] : \A b \in Agents :
             subs'[c][t].agent = b /\ subs'[c][t].listed => follows'[c][b] = t /\ ~Following(c, b)'
      BY <1>d, <2>2, <2>3, <3>1, <3>3
    <3>6. \A t \in DOMAIN subs'[c] : subs'[c][t].agent \in Agents \cup {None}
      BY <1>a, <3>3
    <3> QED BY <1>b, <3>4, <3>5, <3>6
  <2> QED BY <2>4, <2>5
<1>2. CASE FollowRegister(c)
  <2>1. PICK x, i : /\ Registers(c, x, i)
                    /\ x.agent = handler[c].agent /\ x.agent \in Agents /\ x.agent # None
                    /\ \E h \in Handler : /\ handler' = [handler EXCEPT ![c] = h]
                                          /\ h.pc = "reply" /\ h.conv = x.conv
    BY <1>2, FollowRegisters
  <2>2. PICK n : n = Len(subs[c])
    BY Zenon
  <2>3. /\ n \in Nat /\ DOMAIN subs[c] = 1..n
        /\ Len(subs'[c]) = n + 1 /\ DOMAIN subs'[c] = 1..(n + 1) /\ subs'[c][n + 1] = x
        /\ \A t \in DOMAIN subs[c] : t \in DOMAIN subs'[c] /\ subs'[c][t] = subs[c][t]
    BY <1>0, <2>1, <2>2, NewSub DEF Registers
  <2>4. n + 1 \in 0..MaxSubs
    BY <2>1, <2>2, <2>3, ServerAssumption DEF Registers
  <2>5. follows' = [follows EXCEPT ![c][x.agent] = n + 1]
    BY <1>2, <2>1, <2>2 DEF FollowRegister
  <2>6. follows'[c][x.agent] = n + 1 /\ \A b \in Agents : b # x.agent => follows'[c][b] = follows[c][b]
    BY <1>0, <2>1, <2>4, <2>5, FollowSet
  <2>7. \A b : /\ Following(c, b) <=> b = x.agent
               /\ ~Following(c, b)'
    <3>1. handler[c].pc = "follow"
      BY <1>2 DEF FollowRegister
    <3>2. handler'[c].pc = "reply"
      BY <1>0, <2>1
    <3> QED BY <2>1, <3>1, <3>2 DEF Following
  <2>8. x.listed
    BY <2>1 DEF Registers
  <2>9. \A b \in Agents : \A t \in {follows'[c][b]} :
             t # 0 => t \in DOMAIN subs'[c] /\ subs'[c][t].agent = b
                      /\ (~Following(c, b)' => subs'[c][t].listed)
    BY <1>c, <2>3, <2>6, <2>7, <2>8
  <2>10. \A t \in DOMAIN subs'[c] : \A b \in Agents :
           subs'[c][t].agent = b /\ subs'[c][t].listed => follows'[c][b] = t /\ ~Following(c, b)'
    BY <1>d, <2>3, <2>6, <2>7
  <2>11. \A t \in DOMAIN subs'[c] : subs'[c][t].agent \in Agents \cup {None}
    BY <1>a, <2>1, <2>3
  <2> QED BY <1>b, <2>9, <2>10, <2>11
<1>3. CASE FollowReply(c) \/ Disconnect(c)
  <2>1. subs' = subs /\ follows' = follows
    BY <1>3 DEF FollowReply, Disconnect
  <2>2. \A a : Following(c, a)' = Following(c, a)
    <3>1. CASE FollowReply(c)
      BY <1>0, <3>1 DEF FollowReply, Following, AtRest
    <3>2. CASE Disconnect(c)
      BY <3>2 DEF Disconnect, Following
    <3> QED BY <1>3, <3>1, <3>2
  <2> QED BY <1>0, <2>1, <2>2, FollowsSame
<1>4. CASE \E f \in Files : SubscribeConversation(c, f)
  <2>1. PICK f \in Files : SubscribeConversation(c, f)
    BY <1>4
  <2>2. PICK x, i : Registers(c, x, i) /\ x.agent = None
    BY <2>1, SubscribeRegisters
  <2>3. PICK n : n = Len(subs[c])
    BY Zenon
  <2>4. /\ n \in Nat /\ DOMAIN subs[c] = 1..n
        /\ Len(subs'[c]) = n + 1 /\ DOMAIN subs'[c] = 1..(n + 1) /\ subs'[c][n + 1] = x
        /\ \A t \in DOMAIN subs[c] : t \in DOMAIN subs'[c] /\ subs'[c][t] = subs[c][t]
    BY <1>0, <2>2, <2>3, NewSub DEF Registers
  <2>5. follows' = follows /\ handler' = handler
    BY <2>1 DEF SubscribeConversation
  <2>6. \A b : Following(c, b)' = Following(c, b)
    BY <2>5 DEF Following
  <2>7. \A b \in Agents : \A t \in {follows'[c][b]} :
             t # 0 => t \in DOMAIN subs'[c] /\ subs'[c][t].agent = b
                      /\ (~Following(c, b)' => subs'[c][t].listed)
    BY <1>c, <2>4, <2>5, <2>6
  <2>8. \A t \in DOMAIN subs'[c] : \A b \in Agents :
           subs'[c][t].agent = b /\ subs'[c][t].listed => follows'[c][b] = t /\ ~Following(c, b)'
    BY <1>0, <1>d, <2>2, <2>4, <2>5, <2>6
  <2>9. \A t \in DOMAIN subs'[c] : subs'[c][t].agent \in Agents \cup {None}
    BY <1>a, <2>2, <2>4
  <2> QED BY <1>b, <2>7, <2>8, <2>9
<1>5. ASSUME NEW s \in DOMAIN subs[c], CanHandle(c), UNCHANGED handler,
             subs' = [subs EXCEPT ![c][s] = Dropped(subs[c][s])],
             \A a \in Agents : follows'[c][a] = IF a = subs[c][s].agent THEN 0 ELSE follows[c][a],
             subs[c][s].agent \in Agents => follows[c][subs[c][s].agent] = s
      PROVE  FollowsOf(c)'
  <2>1. /\ DOMAIN subs'[c] = DOMAIN subs[c]
        /\ ~subs'[c][s].listed /\ subs'[c][s].agent = subs[c][s].agent
        /\ \A t \in DOMAIN subs[c] : t # s => subs'[c][t] = subs[c][t]
    BY <1>0, <1>5, DropFacts, Zenon
  <2>2. \A b : ~Following(c, b)' /\ ~Following(c, b)
    BY <1>5 DEF CanHandle, Following
  <2>3. \A b \in Agents : \A t \in {follows'[c][b]} :
             t # 0 => t \in DOMAIN subs'[c] /\ subs'[c][t].agent = b
                      /\ (~Following(c, b)' => subs'[c][t].listed)
    BY <1>c, <1>5, <2>1, <2>2
  <2>4. \A t \in DOMAIN subs'[c] : \A b \in Agents :
           subs'[c][t].agent = b /\ subs'[c][t].listed => follows'[c][b] = t /\ ~Following(c, b)'
    BY <1>d, <1>5, <2>1, <2>2
  <2>5. \A t \in DOMAIN subs'[c] : subs'[c][t].agent \in Agents \cup {None}
    BY <1>a, <2>1
  <2> QED BY <1>b, <2>3, <2>4, <2>5
<1>6. CASE \E s \in 1..MaxSubs : Unsubscribe(c, s)
  <2>1. PICK s \in 1..MaxSubs : Unsubscribe(c, s)
    BY <1>6
  <2>2. /\ s \in DOMAIN subs[c] /\ subs[c][s].listed /\ CanHandle(c) /\ UNCHANGED handler
        /\ subs' = [subs EXCEPT ![c][s] = Dropped(subs[c][s])]
    BY <2>1 DEF Unsubscribe
  <2>3. subs[c][s].agent \in Agents => follows[c][subs[c][s].agent] = s
    BY <1>d, <2>2
  <2>4. \A a \in Agents : follows'[c][a] = IF a = subs[c][s].agent THEN 0 ELSE follows[c][a]
    <3>1. CASE subs[c][s].agent = None
      BY <1>0, <2>1, <3>1 DEF Unsubscribe
    <3>2. CASE subs[c][s].agent # None
      <4>1. subs[c][s].agent \in Agents
        BY <1>a, <2>2, <3>2
      <4>2. follows' = [follows EXCEPT ![c][subs[c][s].agent] = 0]
        BY <2>1, <3>2 DEF Unsubscribe
      <4> QED BY <1>0, <4>1, <4>2
    <3> QED BY <3>1, <3>2
  <2> QED BY <1>5, <2>2, <2>3, <2>4, Zenon
<1>7. CASE \E a \in Agents : UnsubscribeAgent(c, a)
  <2>1. PICK a \in Agents : UnsubscribeAgent(c, a)
    BY <1>7
  <2>2. PICK s \in DOMAIN subs[c] : s = follows[c][a] /\ subs[c][s].agent = a
    BY <1>c, <2>1 DEF UnsubscribeAgent
  <2>3. /\ CanHandle(c) /\ UNCHANGED handler
        /\ subs' = [subs EXCEPT ![c][s] = Dropped(subs[c][s])]
        /\ follows' = [follows EXCEPT ![c][a] = 0]
    BY <2>1, <2>2 DEF UnsubscribeAgent
  <2>4. \A b \in Agents : follows'[c][b] = IF b = subs[c][s].agent THEN 0 ELSE follows[c][b]
    BY <1>0, <2>2, <2>3
  <2> QED BY <1>5, <2>2, <2>3, <2>4, Zenon
<1>8. CASE RemoveClient(c)
  <2>1. \A s \in DOMAIN subs'[c] : s \in DOMAIN subs[c] /\ subs'[c][s] = Dropped(subs[c][s])
    BY <1>0, <1>8, RemoveFacts
  <2>2. \A s \in DOMAIN subs'[c] : ~subs'[c][s].listed
    BY <1>0, <2>1, DroppedFacts
  <2>3. \A a \in Agents : follows'[c][a] = 0
    BY <1>0, <1>8 DEF RemoveClient
  <2>4. \A s \in DOMAIN subs'[c] : subs'[c][s].agent \in Agents \cup {None}
    <3>1. \A s \in DOMAIN subs[c] : subs[c][s] \in Subscription
      BY <1>0
    <3> QED BY <1>a, <2>1, <3>1, DroppedFacts
  <2> QED BY <1>b, <2>2, <2>3, <2>4
<1>9. CASE DeliverStarted(c) \/ DeliverSwitched(c) \/ DeliverSwitchedTo(c)
  <2>1. follows' = follows /\ handler' = handler
    BY <1>9, Zenon DEF DeliverStarted, DeliverSwitched, DeliverSwitchedTo
  <2>2. \A a : Following(c, a)' = Following(c, a)
    BY <2>1 DEF Following
  <2>3. CASE subs' = subs
    BY <1>0, <2>1, <2>2, <2>3, FollowsSame
  <2>4. ASSUME NEW s \in DOMAIN subs[c], NEW x \in Subscription, subs' = [subs EXCEPT ![c][s] = x],
               x.agent = subs[c][s].agent, x.listed = subs[c][s].listed
        PROVE  FollowsOf(c)'
    <3>1. /\ subs'[c][s] = x /\ DOMAIN subs'[c] = DOMAIN subs[c]
          /\ \A t \in DOMAIN subs[c] : t # s => subs'[c][t] = subs[c][t]
      BY <1>0, <2>4, OneSub
    <3>2. \A t \in DOMAIN subs[c] : /\ subs'[c][t].agent = subs[c][t].agent
                                    /\ subs'[c][t].listed = subs[c][t].listed
      BY <2>4, <3>1
    <3> QED BY <1>0, <2>1, <2>2, <3>1, <3>2, FollowsSame, Zenon
  <2> QED BY <1>9, <2>3, <2>4, DeliverMoves
<1> QED BY <1>1, <1>2, <1>3, <1>4, <1>6, <1>7, <1>8, <1>9 DEF Client

LEMMA FollowsStep ==
  ASSUME ServerInv, ServerNext
  PROVE  FollowsOK'
<1> SUFFICES ASSUME NEW d \in Clients PROVE FollowsOf(d)'
  BY DEF FollowsOK
<1>0. subs[d] \in Seq(Subscription) /\ FollowsOf(d)
  BY DEF ServerInv, ServerTypeOK, FollowsOK
<1>1. CASE UNCHANGED <<subs, follows, handler, closing>>
  <2>1. \A a : Following(d, a)' = Following(d, a)
    BY <1>1 DEF Following
  <2> QED BY <1>0, <1>1, <2>1, FollowsSame
<1>2. ASSUME NEW c \in Clients, c # d,
             Client(c) \/ DeliverStarted(c) \/ DeliverSwitched(c) \/ DeliverSwitchedTo(c)
      PROVE  FollowsOf(d)'
  <2>1. subs'[d] = subs[d] /\ follows'[d] = follows[d] /\ handler'[d] = handler[d]
    BY <1>2, Others
  <2>2. \A a : Following(d, a)' = Following(d, a)
    BY <2>1 DEF Following
  <2> QED BY <1>0, <2>1, <2>2, FollowsSame
<1> QED BY <1>1, <1>2, FollowsOwn, OthersStep

----------------------------------------------------------------------------
(* What handlers and Broadcast have in hand. *)

\* A step of client c's own handler, or one that leaves the handler be.
LEMMA HandlerKinds ==
  ASSUME ServerInv, ServerNext, NEW c \in Clients
  PROVE  \/ \E a \in Agents : FollowAgent(c, a)
         \/ FollowRegister(c)
         \/ FollowReply(c)
         \/ /\ handler'[c] = handler[c]
            /\ handler[c].pc # "idle" => Len(subs'[c]) = Len(subs[c])
            /\ c \in closing' => c \in closing \/ handler[c].pc = "idle"
            /\ bcast'.at = c => bcast.at = c \/ Free(c)
<1>0. /\ ServerTypeOK /\ HandlerOK /\ subs \in [Clients -> Seq(Subscription)]
      /\ bcast \in Broadcaster /\ None \notin Clients
  BY ServerAssumption DEF ServerInv, ServerTypeOK
<1>1. CASE UNCHANGED <<subs, follows, handler, closing>> /\ (BroadcastNext \/ UNCHANGED bcast)
  <2>1. BroadcastNext => bcast'.at = None
    BY DEF BroadcastNext, NoBroadcast
  <2> QED BY <1>0, <1>1, <2>1
<1>2. ASSUME NEW d \in Clients, DeliverStarted(d) \/ DeliverSwitched(d) \/ DeliverSwitchedTo(d)
      PROVE  /\ UNCHANGED <<handler, closing>> /\ Len(subs'[c]) = Len(subs[c])
             /\ bcast'.at = c => c = d /\ Free(c)
  <2>1. UNCHANGED <<handler, closing>>
    BY <1>2 DEF DeliverStarted, DeliverSwitched, DeliverSwitchedTo
  <2>2. Len(subs'[c]) = Len(subs[c])
    <3>1. CASE subs' = subs
      BY <3>1
    <3>2. CASE subs' # subs
      <4>1. PICK s \in DOMAIN subs[d], x \in Subscription : subs' = [subs EXCEPT ![d][s] = x]
        BY <1>2, <3>2, DeliverMoves
      <4> QED BY <1>0, <4>1, OneSub
    <3> QED BY <3>1, <3>2
  <2>3. Served(d).at = None
    BY <1>0 DEF Served, NoBroadcast, Broadcaster
  <2>4. DeliverSwitched(d) => Free(d) /\ (bcast'.at = None \/ bcast'.at = d)
    BY <1>0, <2>3 DEF DeliverSwitched, Broadcaster
  <2>5. DeliverStarted(d) \/ DeliverSwitchedTo(d) => bcast'.at = None
    BY <2>3 DEF DeliverStarted, DeliverSwitchedTo
  <2> QED BY <1>0, <1>2, <2>1, <2>2, <2>4, <2>5
<1>3. ASSUME NEW d \in Clients, d # c, Client(d)
      PROVE  /\ handler'[c] = handler[c] /\ subs'[c] = subs[c] /\ bcast' = bcast
             /\ c \in closing' => c \in closing
  <2>1. handler'[c] = handler[c] /\ subs'[c] = subs[c]
    BY <1>3, Others
  <2>2. bcast' = bcast /\ closing' \subseteq closing \cup {d}
    BY <1>3, Zenon DEF Client, FollowAgent, UnsubscribeAgent, FollowRegister, FollowReply,
                SubscribeConversation, Unsubscribe, Disconnect, RemoveClient
  <2> QED BY <1>3, <2>1, <2>2
<1>4. CASE Client(c)
  <2>1. CASE (\E a \in Agents : FollowAgent(c, a)) \/ FollowRegister(c) \/ FollowReply(c)
    BY <2>1
  <2>2. CASE \/ \E a \in Agents : UnsubscribeAgent(c, a)
             \/ \E f \in Files : SubscribeConversation(c, f)
             \/ \E s \in 1..MaxSubs : Unsubscribe(c, s)
             \/ Disconnect(c)
    BY <2>2, Zenon DEF UnsubscribeAgent, SubscribeConversation, Unsubscribe, Disconnect, CanHandle
  <2>3. CASE RemoveClient(c)
    BY <1>0, <2>3 DEF RemoveClient, HandlerOK, HandlerOf
  <2> QED BY <1>4, <2>1, <2>2, <2>3 DEF Client
<1> QED BY <1>1, <1>2, <1>3, <1>4, OthersStep

\* What a step does to the goroutines.
Starts(c, s, n) ==
  /\ gos' = gos \cup {GoStream(c, s, n)}
  /\ s \in DOMAIN subs'[c] /\ n \in 1..subs'[c][s].gen
  /\ \A g \in gos : ~(g.client = c /\ g.sub = s /\ g.gen = n)
  /\ n = 1 /\ handler'[c].pc = "reply" /\ s = Len(subs'[c]) => handler'[c].conv = None

LEMMA GoKinds ==
  ASSUME ServerInv, ServerNext
  PROVE  \/ gos' \subseteq gos
         \/ \E g \in gos : \E h : /\ gos' = Replaced(g, h)
                                  /\ h.client = g.client /\ h.sub = g.sub /\ h.gen = g.gen
         \/ \E c \in Clients : \E s, n : Starts(c, s, n)
<1>0. /\ ServerTypeOK /\ HandlerOK /\ GosOK /\ gos \subseteq Streamer
      /\ subs \in [Clients -> Seq(Subscription)] /\ handler \in [Clients -> Handler]
  BY DEF ServerInv, ServerTypeOK
<1>1. CASE Streaming
  <2>1. PICK g \in gos : \/ StreamEnter(g) \/ StreamReceive(g)
                    \/ StreamSend(g) \/ StreamDrop(g) \/ StreamEnd(g)
    BY <1>1 DEF Streaming
  <2>2. CASE StreamEnter(g)
    <3> DEFINE h == [client |-> g.client, sub |-> g.sub, gen |-> g.gen, pc |-> "wait",
                     chan |-> subs[g.client][g.sub].chan, seq |-> 0]
    <3>1. gos' = Replaced(g, h) /\ h.client = g.client /\ h.sub = g.sub /\ h.gen = g.gen
      BY <2>2 DEF StreamEnter
    <3> HIDE DEF h
    <3> QED BY <3>1
  <2>3. CASE StreamReceive(g)
    <3> DEFINE h == [client |-> g.client, sub |-> g.sub, gen |-> g.gen, pc |-> "send",
                     chan |-> g.chan, seq |-> Head(Channel(g.chan).q)]
    <3>1. gos' = Replaced(g, h) /\ h.client = g.client /\ h.sub = g.sub /\ h.gen = g.gen
      BY <2>3 DEF StreamReceive
    <3> HIDE DEF h
    <3> QED BY <3>1
  <2>4. CASE StreamSend(g) \/ StreamDrop(g)
    <3> DEFINE h == GoStream(g.client, g.sub, g.gen)
    <3>1. gos' = Replaced(g, h) /\ h.client = g.client /\ h.sub = g.sub /\ h.gen = g.gen
      BY <2>4 DEF StreamSend, StreamDrop, GoStream
    <3> HIDE DEF h
    <3> QED BY <3>1
  <2>5. CASE StreamEnd(g)
    BY <2>5 DEF StreamEnd
  <2> QED BY <2>1, <2>2, <2>3, <2>4, <2>5
<1>2. CASE Watcher \/ BroadcastNext \/ \E i \in DOMAIN pool : Pump(i)
  BY <1>2 DEF Watcher, BroadcastNext, Pump, clientVars
<1>3. CASE \E c \in Clients : DeliverSwitched(c)
  BY <1>3 DEF DeliverSwitched
<1>4. ASSUME NEW c \in Clients, DeliverStarted(c) \/ DeliverSwitchedTo(c)
      PROVE  gos' \subseteq gos \/ \E s, n : Starts(c, s, n)
  <2>1. CASE UNCHANGED gos
    BY <2>1
  <2>2. ASSUME NEW s, NEW f, NEW i, Serves(c, s, f, i)
        PROVE  \E n : Starts(c, s, n)
    <3>1. PICK new : new = NextChan(i)
      OBVIOUS
    <3>2. /\ s \in DOMAIN subs[c] /\ f \in Files /\ i \in DOMAIN bufs
          /\ subs[c][s].agent # None /\ Attach(c, s, f, i)
      BY <2>2, WatcherAssumption DEF Serves
    <3>3. ServerTypeOK
      BY <1>0
    <3>4. PICK x \in Subscription :
             /\ subs' = [subs EXCEPT ![c][s] = x]
             /\ x.agent = subs[c][s].agent /\ x.conv = f /\ x.conv # None /\ x.chan = new
             /\ x.gen = subs[c][s].gen + 1 /\ x.listed = subs[c][s].listed
             /\ SubMoves(subs[c][s], x)
      BY <3>1, <3>2, <3>3, AttachFacts
    <3>5. subs'[c][s] = x /\ Len(subs'[c]) = Len(subs[c]) /\ s \in DOMAIN subs'[c]
      BY <1>0, <3>2, <3>4, OneSub
    <3>6. PICK n : n = subs[c][s].gen + 1
      OBVIOUS
    <3>7. subs[c][s].gen \in Nat
      BY <1>0, <3>2, SubFacts
    <3>8. gos' = gos \cup {GoStream(c, s, n)}
      BY <3>2, <3>6 DEF Attach
    <3>9. \A g \in gos : ~(g.client = c /\ g.sub = s /\ g.gen = n)
      BY <1>0, <3>6, <3>7 DEF GosOK
    <3>10. n = 1 /\ handler'[c].pc = "reply" /\ s = Len(subs'[c]) => handler'[c].conv = None
      <4>1. handler' = handler
        BY <1>4 DEF DeliverStarted, DeliverSwitchedTo
      <4> QED BY <1>0, <3>5, <3>6, <3>7, <4>1 DEF HandlerOK, HandlerOf
    <3> QED BY <3>4, <3>5, <3>6, <3>7, <3>8, <3>9, <3>10 DEF Starts
  <2> QED BY <1>4, <2>1, <2>2, Attaches
<1>6. ASSUME NEW c \in Clients, NEW f \in Files, SubscribeConversation(c, f)
      PROVE  \E s, n : Starts(c, s, n)
  <2>1. PICK x, i : Registers(c, x, i) /\ x.agent = None /\ x.conv = f
                    /\ gos' = gos \cup {GoStream(c, Len(subs[c]) + 1, 1)}
    BY <1>6, SubscribeRegisters
  <2>2. PICK n : n = Len(subs[c])
    BY Zenon
  <2>3. /\ n \in Nat /\ DOMAIN subs[c] = 1..n
        /\ DOMAIN subs'[c] = 1..(n + 1) /\ subs'[c][n + 1] = x
    BY <1>0, <2>1, <2>2, NewSub DEF Registers
  <2>4. x.gen = 1
    BY <2>1, WatcherAssumption DEF Registers
  <2>5. handler'[c].pc = "idle"
    BY <1>6 DEF SubscribeConversation, CanHandle
  <2>6. \A g \in gos : ~(g.client = c /\ g.sub = n + 1 /\ g.gen = 1)
    BY <1>0, <2>3 DEF GosOK
  <2>7. Starts(c, n + 1, 1)
    BY <2>1, <2>2, <2>3, <2>4, <2>5, <2>6 DEF Starts
  <2> QED BY <2>7
<1>7. ASSUME NEW c \in Clients, FollowReply(c)
      PROVE  gos' \subseteq gos \/ \E s, n : Starts(c, s, n)
  <2>1. CASE handler[c].conv = None
    BY <1>7, <2>1 DEF FollowReply
  <2>2. CASE handler[c].conv # None
    <3>1. PICK n : n = Len(subs[c])
      BY Zenon
    <3>2. /\ n > 0 /\ subs[c][n].gen > 0 /\ n \in Nat
          /\ \A g \in gos : g.client = c /\ g.sub = n => g.gen # 1
      BY <1>0, <1>7, <2>2, <3>1 DEF FollowReply, HandlerOK, HandlerOf
    <3>3. n \in DOMAIN subs[c] /\ subs[c][n].gen \in Nat
      BY <1>0, <3>1, <3>2, SubFacts
    <3>4. gos' = gos \cup {GoStream(c, n, 1)} /\ subs' = subs
      BY <1>7, <2>2, <3>1 DEF FollowReply
    <3>5. handler'[c].pc = "idle"
      BY <1>0, <1>7 DEF FollowReply, AtRest
    <3>6. Starts(c, n, 1)
      BY <3>2, <3>3, <3>4, <3>5 DEF Starts
    <3> QED BY <3>6
  <2> QED BY <2>1, <2>2
<1>8. ASSUME NEW c \in Clients, Client(c)
      PROVE  gos' \subseteq gos \/ \E s, n : Starts(c, s, n)
  BY <1>6, <1>7, <1>8, Zenon DEF Client, FollowAgent, UnsubscribeAgent, FollowRegister, Unsubscribe,
                          Disconnect, RemoveClient
<1> QED BY <1>1, <1>2, <1>3, <1>4, <1>8 DEF ServerNext, Broadcast

LEMMA GosStep ==
  ASSUME ServerInv, ServerNext
  PROVE  GosOK'
<1>0. /\ GosOK /\ subs \in [Clients -> Seq(Subscription)] /\ gos \subseteq Streamer
  BY DEF ServerInv, ServerTypeOK
<1>1. ASSUME NEW g \in gos
      PROVE  g.sub \in DOMAIN subs'[g.client] /\ g.gen \in 1..subs'[g.client][g.sub].gen
  <2>1. g.client \in Clients /\ g.sub \in DOMAIN subs[g.client]
        /\ g.gen \in 1..subs[g.client][g.sub].gen
    BY <1>0, <1>1 DEF GosOK, Streamer
  <2>2. /\ g.sub \in DOMAIN subs'[g.client] /\ subs' \in [Clients -> Seq(Subscription)]
        /\ SubMoves(subs[g.client][g.sub], subs'[g.client][g.sub])
    BY <2>1, SubsStep
  <2>3. subs[g.client][g.sub].gen \in Nat /\ subs'[g.client][g.sub].gen \in Nat
    BY <1>0, <2>1, <2>2, SubFacts
  <2> QED BY <2>1, <2>2, <2>3 DEF SubMoves
<1>2. CASE gos' \subseteq gos
  BY <1>0, <1>1, <1>2 DEF GosOK
<1>3. ASSUME NEW g \in gos, NEW h, gos' = Replaced(g, h), h.client = g.client, h.sub = g.sub,
             h.gen = g.gen
      PROVE  GosOK'
  <2>1. \A k \in gos' : k = h \/ (k \in gos /\ k # g)
    BY <1>3 DEF Replaced
  <2>2. \A k \in gos' : /\ k.sub \in DOMAIN subs'[k.client]
                        /\ k.gen \in 1..subs'[k.client][k.sub].gen
    BY <1>1, <1>3, <2>1
  <2>3. ASSUME NEW k \in gos', NEW l \in gos', k.client = l.client, k.sub = l.sub, k.gen = l.gen
        PROVE  k = l
    BY <1>0, <1>3, <2>1, <2>3 DEF GosOK
  <2> QED BY <2>2, <2>3 DEF GosOK
<1>4. ASSUME NEW c \in Clients, NEW s, NEW n, Starts(c, s, n)
      PROVE  GosOK'
  <2>1. PICK h : h = GoStream(c, s, n)
    OBVIOUS
  <2>2. h.client = c /\ h.sub = s /\ h.gen = n
    BY <2>1 DEF GoStream
  <2>3. \A k \in gos' : k = h \/ k \in gos
    BY <1>4, <2>1 DEF Starts
  <2>4. \A k \in gos' : /\ k.sub \in DOMAIN subs'[k.client]
                        /\ k.gen \in 1..subs'[k.client][k.sub].gen
    BY <1>1, <1>4, <2>2, <2>3 DEF Starts
  <2>5. ASSUME NEW k \in gos', NEW l \in gos', k.client = l.client, k.sub = l.sub, k.gen = l.gen
        PROVE  k = l
    BY <1>0, <1>4, <2>2, <2>3, <2>5 DEF GosOK, Starts
  <2> QED BY <2>4, <2>5 DEF GosOK
<1> QED BY <1>2, <1>3, <1>4, GoKinds

\* No step starts the goroutine that a handler is about to start.
LEMMA FirstGo ==
  ASSUME ServerInv, ServerNext, NEW c \in Clients, handler'[c].pc = "reply",
         handler'[c].conv # None, NEW n, n = Len(subs'[c]),
         \A g \in gos : g.client = c /\ g.sub = n => g.gen # 1
  PROVE  \A g \in gos' : g.client = c /\ g.sub = n => g.gen # 1
<1>1. CASE gos' \subseteq gos
  BY <1>1
<1>2. ASSUME NEW g \in gos, NEW h, gos' = Replaced(g, h), h.client = g.client, h.sub = g.sub,
             h.gen = g.gen
      PROVE  \A k \in gos' : k.client = c /\ k.sub = n => k.gen # 1
  BY <1>2 DEF Replaced
<1>3. ASSUME NEW d \in Clients, NEW s, NEW m, Starts(d, s, m)
      PROVE  \A k \in gos' : k.client = c /\ k.sub = n => k.gen # 1
  <2>1. PICK h : h = GoStream(d, s, m)
    OBVIOUS
  <2>2. h.client = d /\ h.sub = s /\ h.gen = m
    BY <2>1 DEF GoStream
  <2>3. \A k \in gos' : k = h \/ k \in gos
    BY <1>3, <2>1 DEF Starts
  <2>4. ~(d = c /\ s = n /\ m = 1)
    BY <1>3 DEF Starts
  <2> QED BY <2>2, <2>3, <2>4
<1> QED BY <1>1, <1>2, <1>3, GoKinds

LEMMA HandlerStep ==
  ASSUME ServerInv, ServerNext
  PROVE  HandlerOK'
<1> SUFFICES ASSUME NEW c \in Clients PROVE HandlerOf(c)'
  BY DEF HandlerOK
<1>0. /\ ServerTypeOK /\ HandlerOf(c) /\ GosOK /\ subs \in [Clients -> Seq(Subscription)]
      /\ handler \in [Clients -> Handler] /\ subs' \in [Clients -> Seq(Subscription)]
      /\ bcast \in Broadcaster /\ None \notin Clients
  BY SubsStep, ServerAssumption, Zenon DEF ServerInv, ServerTypeOK, HandlerOK
<1>1. CASE \E a \in Agents : FollowAgent(c, a)
  <2>1. PICK a \in Agents : FollowAgent(c, a)
    BY <1>1
  <2>2. handler'[c].pc = "follow" /\ handler'[c].agent = a
    BY <1>0, <2>1 DEF FollowAgent, AtRest
  <2>3. Len(subs[c]) < MaxSubs /\ bcast'.at # c /\ c \notin closing'
    BY <2>1 DEF FollowAgent, CanHandle, Free
  <2>4. Len(subs'[c]) = Len(subs[c])
    <3>1. CASE subs' = subs
      BY <3>1
    <3>2. CASE subs' # subs
      <4>1. PICK s : s = follows[c][a]
        OBVIOUS
      <4>2. s # 0 /\ subs' = [subs EXCEPT ![c][s] = Dropped(subs[c][s])]
        BY <2>1, <3>2, <4>1 DEF FollowAgent
      <4>3. s \in DOMAIN subs[c]
        BY <4>1, <4>2 DEF ServerInv, FollowsOK, FollowsOf
      <4>4. subs[c][s] \in Subscription
        BY <1>0, <4>3
      <4>5. Dropped(subs[c][s]) \in Subscription
        BY <4>4, DroppedFacts
      <4> QED BY <1>0, <4>2, <4>3, <4>5, OneSub
    <3> QED BY <3>1, <3>2
  <2> QED BY <2>2, <2>3, <2>4 DEF HandlerOf
<1>2. CASE FollowRegister(c)
  <2>1. PICK x, i : /\ Registers(c, x, i)
                    /\ x.agent = handler[c].agent /\ x.agent \in Agents /\ x.agent # None
                    /\ \E h \in Handler : /\ handler' = [handler EXCEPT ![c] = h]
                                          /\ h.pc = "reply" /\ h.conv = x.conv
    BY <1>2, FollowRegisters
  <2>2. PICK n : n = Len(subs[c])
    BY Zenon
  <2>3. /\ n \in Nat /\ DOMAIN subs[c] = 1..n
        /\ Len(subs'[c]) = n + 1 /\ DOMAIN subs'[c] = 1..(n + 1) /\ subs'[c][n + 1] = x
    BY <1>0, <2>1, <2>2, NewSub DEF Registers
  <2>4. handler'[c].pc = "reply" /\ handler'[c].conv = x.conv
    BY <1>0, <2>1
  <2>5. c \notin closing'
    BY <1>0, <1>2 DEF FollowRegister, HandlerOf
  <2>6. x.conv # None => x.gen = 1
    BY <2>1 DEF Registers
  <2>7. \A g \in gos : ~(g.client = c /\ g.sub = n + 1)
    BY <1>0, <2>3 DEF GosOK
  <2>8. gos' = gos
    BY <1>2 DEF FollowRegister
  <2> QED BY <2>1, <2>3, <2>4, <2>5, <2>6, <2>7, <2>8 DEF HandlerOf
<1>3. CASE FollowReply(c)
  <2>1. handler'[c].pc = "idle"
    BY <1>0, <1>3 DEF FollowReply, AtRest
  <2> QED BY <2>1 DEF HandlerOf
<1>4. CASE /\ handler'[c] = handler[c]
           /\ handler[c].pc # "idle" => Len(subs'[c]) = Len(subs[c])
           /\ c \in closing' => c \in closing \/ handler[c].pc = "idle"
           /\ bcast'.at = c => bcast.at = c \/ Free(c)
  <2>1. CASE handler[c].pc = "idle"
    BY <1>4, <2>1 DEF HandlerOf
  <2>2. CASE handler[c].pc = "follow"
    BY <1>0, <1>4, <2>2 DEF HandlerOf, Free
  <2>3. CASE handler[c].pc = "reply"
    <3>1. PICK n : n = Len(subs[c])
      BY Zenon
    <3>2. n = Len(subs'[c]) /\ n > 0 /\ subs[c][n].agent # None /\ n \in Nat
      BY <1>0, <1>4, <2>3, <3>1 DEF HandlerOf
    <3>3. n \in DOMAIN subs[c] /\ SubMoves(subs[c][n], subs'[c][n]) /\ n \in DOMAIN subs'[c]
      <4>1. n \in DOMAIN subs[c]
        <5>1. subs[c] \in Seq(Subscription) /\ n \in 1..Len(subs[c])
          BY <1>0, <3>1, <3>2
        <5> QED BY <5>1
      <4> QED BY <4>1, SubsStep
    <3>4. subs[c][n].gen \in Nat /\ subs'[c][n].gen \in Nat
      BY <1>0, <3>3, SubFacts
    <3>5. subs'[c][n].agent # None
      BY <3>2, <3>3 DEF SubMoves
    <3>6. handler'[c].conv # None => subs'[c][n].gen > 0
      BY <1>0, <1>4, <2>3, <3>1, <3>3, <3>4 DEF SubMoves, HandlerOf
    <3>7. handler'[c].conv # None => \A g \in gos' : g.client = c /\ g.sub = n => g.gen # 1
      BY <1>0, <1>4, <2>3, <3>1, <3>2, FirstGo, Zenon DEF HandlerOf
    <3>8. c \notin closing'
      BY <1>0, <1>4, <2>3 DEF HandlerOf
    <3> QED BY <1>4, <2>3, <3>2, <3>5, <3>6, <3>7, <3>8 DEF HandlerOf
  <2>4. handler[c] \in Handler
    BY <1>0
  <2> QED BY <2>1, <2>2, <2>3, <2>4 DEF Handler
<1> QED BY <1>1, <1>2, <1>3, <1>4, HandlerKinds

LEMMA BroadcastStep ==
  ASSUME ServerInv, ServerNext
  PROVE  BroadcastOK'
<1>0. /\ ServerTypeOK /\ BroadcastOK /\ HandlerOK /\ bcast \in Broadcaster /\ None \notin Clients
      /\ events \in Seq(LifecycleEvent)
  BY ServerAssumption DEF ServerInv, ServerTypeOK, WatcherInv, TypeOK
<1>1. CASE UNCHANGED <<follows, bcast>>
  BY <1>0, <1>1 DEF BroadcastOK
<1>2. CASE BroadcastNext
  <2>1. Head(events) \in LifecycleEvent
    BY <1>0, <1>2 DEF BroadcastNext
  <2>2. bcast' = NoBroadcast \/ (bcast'.event = Head(events) /\ bcast'.at = None /\ Head(events).new # None)
    BY <1>2 DEF BroadcastNext
  <2> QED BY <2>1, <2>2 DEF BroadcastOK
<1>3. ASSUME NEW c \in Clients, DeliverStarted(c) \/ DeliverSwitched(c) \/ DeliverSwitchedTo(c)
      PROVE  BroadcastOK'
  <2>1. bcast # NoBroadcast /\ bcast.event \in LifecycleEvent /\ bcast.event.new # None
    BY <1>0, <1>3, AtClient DEF BroadcastOK
  <2>2. Served(c) = NoBroadcast \/ (Served(c).event = bcast.event /\ Served(c).at = None)
    BY <1>0 DEF Served, Broadcaster
  <2>3. CASE bcast' = Served(c)
    BY <2>1, <2>2, <2>3 DEF BroadcastOK
  <2>4. CASE bcast' # Served(c)
    <3>1. /\ bcast' = [bcast EXCEPT !.at = c] /\ follows[c][bcast.event.agent] # 0
          /\ c \in bcast.todo /\ UNCHANGED follows
      BY <1>3, <2>4 DEF DeliverStarted, DeliverSwitched, DeliverSwitchedTo
    <3>2. bcast'.event = bcast.event /\ bcast'.at = c /\ bcast'.todo = bcast.todo
      BY <1>0, <3>1 DEF Broadcaster
    <3> QED BY <2>1, <3>1, <3>2 DEF BroadcastOK
  <2> QED BY <2>3, <2>4
<1>4. ASSUME NEW c \in Clients, Client(c)
      PROVE  BroadcastOK'
  <2>1. bcast' = bcast
    BY <1>4, Zenon DEF Client, FollowAgent, UnsubscribeAgent, FollowRegister, FollowReply,
                SubscribeConversation, Unsubscribe, Disconnect, RemoveClient
  <2>2. CASE bcast = NoBroadcast
    BY <2>1, <2>2 DEF BroadcastOK
  <2>3. CASE bcast # NoBroadcast /\ bcast.at # None
    <3> DEFINE d == bcast.at
    <3>1. d \in Clients
      BY <1>0, <2>3, BroadcastFacts
    <3>2. follows'[d] = follows[d]
      <4>1. CASE c = d
        <5>1. ~CanHandle(c)
          BY <4>1 DEF CanHandle, Free
        <5>2. ~FollowRegister(c)
          BY <1>0, <4>1 DEF FollowRegister, HandlerOK, HandlerOf
        <5>3. ~RemoveClient(c)
          BY <2>3 DEF RemoveClient
        <5>4. FollowReply(c)
          BY <1>4, <5>1, <5>2, <5>3, Zenon DEF Client, FollowAgent, UnsubscribeAgent,
             SubscribeConversation, Unsubscribe, Disconnect
        <5> QED BY <5>4 DEF FollowReply
      <4>2. CASE c # d
        BY <1>4, <3>1, <4>2, Others
      <4> QED BY <4>1, <4>2
    <3> QED BY <1>0, <2>1, <2>3, <3>2 DEF BroadcastOK
  <2>4. CASE bcast # NoBroadcast /\ bcast.at = None
    BY <1>0, <2>1, <2>4 DEF BroadcastOK
  <2> QED BY <2>2, <2>3, <2>4
<1> QED BY <1>1, <1>2, <1>3, <1>4, OthersStep

----------------------------------------------------------------------------
(* The goroutines and what they read. *)

\* Goroutine g after it has entered the select, and after it received an event.
Waits(g) == [client |-> g.client, sub |-> g.sub, gen |-> g.gen, pc |-> "wait",
             chan |-> subs[g.client][g.sub].chan, seq |-> 0]

Holds(g) == [client |-> g.client, sub |-> g.sub, gen |-> g.gen, pc |-> "send",
             chan |-> g.chan, seq |-> Head(Channel(g.chan).q)]

\* A client makes a subscription of a conversation, its s-th.
MakesConversation(c, s) ==
  s = Len(subs[c]) + 1 /\ \E f \in Files : SubscribeConversation(c, f)

\* Where the goroutines come from.
LEMMA NewGo ==
  ASSUME ServerInv, ServerNext, NEW h \in gos'
  PROVE  \/ h \in gos
         \/ \E g \in gos : \/ StreamEnter(g) /\ h = Waits(g)
                           \/ StreamReceive(g) /\ h = Holds(g)
                           \/ (StreamSend(g) \/ StreamDrop(g)) /\ h = GoStream(g.client, g.sub, g.gen)
         \/ \E c \in Clients : \E s, n :
              /\ h = GoStream(c, s, n)
              /\ subs'[c][s].agent # None \/ (MakesConversation(c, s) /\ n = 1)
<1>0. /\ ServerTypeOK /\ HandlerOK /\ subs \in [Clients -> Seq(Subscription)]
      /\ None \notin Agents
  BY WatcherAssumption DEF ServerInv, ServerTypeOK
<1>1. CASE Streaming
  <2>1. PICK g \in gos : \/ StreamEnter(g) \/ StreamReceive(g)
                    \/ StreamSend(g) \/ StreamDrop(g) \/ StreamEnd(g)
    BY <1>1 DEF Streaming
  <2>2. CASE StreamEnter(g)
    <3>1. gos' = Replaced(g, Waits(g))
      BY <2>2 DEF StreamEnter, Waits
    <3> QED BY <2>2, <3>1 DEF Replaced
  <2>3. CASE StreamReceive(g)
    <3>1. gos' = Replaced(g, Holds(g))
      BY <2>3 DEF StreamReceive, Holds
    <3> QED BY <2>3, <3>1 DEF Replaced
  <2>4. CASE StreamSend(g) \/ StreamDrop(g)
    <3>1. gos' = Replaced(g, GoStream(g.client, g.sub, g.gen))
      BY <2>4 DEF StreamSend, StreamDrop
    <3> QED BY <2>4, <3>1 DEF Replaced
  <2>5. CASE StreamEnd(g)
    BY <2>5 DEF StreamEnd
  <2> QED BY <2>1, <2>2, <2>3, <2>4, <2>5
<1>2. CASE gos' = gos
  BY <1>2
<1>3. CASE Watcher \/ BroadcastNext \/ \E i \in DOMAIN pool : Pump(i)
  BY <1>2, <1>3 DEF Watcher, BroadcastNext, Pump, clientVars
<1>4. ASSUME NEW c \in Clients, DeliverStarted(c) \/ DeliverSwitched(c) \/ DeliverSwitchedTo(c),
             h \notin gos
      PROVE  \E s, n : h = GoStream(c, s, n) /\ subs'[c][s].agent # None
  <2>1. ~DeliverSwitched(c)
    BY <1>4 DEF DeliverSwitched
  <2>2. PICK s, f, i : Serves(c, s, f, i)
    BY <1>4, <2>1, Attaches
  <2>3. s \in DOMAIN subs[c] /\ subs[c][s].agent # None /\ Attach(c, s, f, i)
    BY <1>0, <2>2 DEF Serves
  <2>4. h = GoStream(c, s, subs[c][s].gen + 1)
    BY <1>4, <2>3 DEF Attach
  <2>5. subs'[c][s].agent # None
    <3>1. SubMoves(subs[c][s], subs'[c][s])
      BY <2>3, SubsStep
    <3> QED BY <2>3, <3>1 DEF SubMoves
  <2> QED BY <2>4, <2>5
<1>5. ASSUME NEW c \in Clients, Client(c), h \notin gos
      PROVE  \E s, n : /\ h = GoStream(c, s, n)
                       /\ subs'[c][s].agent # None \/ (MakesConversation(c, s) /\ n = 1)
  <2>1. CASE FollowReply(c)
    <3>1. /\ h = GoStream(c, Len(subs[c]), 1) /\ handler[c].pc = "reply" /\ subs' = subs
      BY <1>5, <2>1 DEF FollowReply
    <3>2. subs[c][Len(subs[c])].agent # None
      BY <1>0, <3>1 DEF HandlerOK, HandlerOf
    <3> QED BY <3>1, <3>2
  <2>2. CASE \E f \in Files : SubscribeConversation(c, f)
    <3>1. PICK f \in Files : SubscribeConversation(c, f)
      BY <2>2
    <3>2. h = GoStream(c, Len(subs[c]) + 1, 1)
      BY <1>5, <3>1 DEF SubscribeConversation
    <3>3. MakesConversation(c, Len(subs[c]) + 1)
      BY <3>1 DEF MakesConversation
    <3> QED BY <3>2, <3>3
  <2> QED BY <1>5, <2>1, <2>2, Zenon DEF Client, FollowAgent, UnsubscribeAgent, FollowRegister,
                                   Unsubscribe, Disconnect, RemoveClient
<1> QED BY <1>1, <1>3, <1>4, <1>5 DEF ServerNext, Broadcast

\* g, in the select or past it, has a channel that is its subscription's own.
Owns(g) ==
  /\ Made(g.chan)
  /\ subs[g.client][g.sub].agent = None => g.chan = subs[g.client][g.sub].chan
  /\ \A d \in Clients : \A t \in DOMAIN subs[d] :
       subs[d][t].chan = g.chan => d = g.client /\ t = g.sub

LEMMA OwnsStays ==
  ASSUME ServerInv, ServerNext, NEW g, g.client \in Clients,
         g.sub \in DOMAIN subs[g.client], Owns(g)
  PROVE  Owns(g)'
<1>0. bufs \in Seq(Buffer)
  BY DEF ServerInv, ServerTypeOK
<1>1. Made(g.chan)'
  BY BufsStep DEF Owns
<1>2. subs'[g.client][g.sub].agent = None => g.chan = subs'[g.client][g.sub].chan
  <2>1. SubMoves(subs[g.client][g.sub], subs'[g.client][g.sub])
    BY SubsStep
  <2> QED BY <2>1 DEF SubMoves, Owns
<1>3. ASSUME NEW d \in Clients, NEW t \in DOMAIN subs'[d], subs'[d][t].chan = g.chan
      PROVE  d = g.client /\ t = g.sub
  <2>1. CASE Stays(d, t)
    BY <1>3, <2>1 DEF Stays, Owns
  <2>2. CASE Changes(d, t)
    <3>1. ~Made(<<0, 0>>)
      BY <1>0 DEF Made
    <3>2. ~Made(subs'[d][t].chan)
      BY <2>2, <3>1 DEF Changes
    <3> QED BY <1>3, <3>2 DEF Owns
  <2> QED BY <2>1, <2>2, SubsStep
<1> QED BY <1>1, <1>2, <1>3 DEF Owns

LEMMA ReadsOwnStep ==
  ASSUME ServerInv, ServerNext
  PROVE  ReadsOwn'
<1> SUFFICES ASSUME NEW h \in gos', h.pc # "enter"
             PROVE  Owns(h)'
  BY DEF ReadsOwn, Owns
<1>0. /\ ServerTypeOK /\ GosOK /\ ReadsOwn /\ ChansApart /\ gos \subseteq Streamer
      /\ subs \in [Clients -> Seq(Subscription)]
  BY DEF ServerInv, ServerTypeOK
<1>1. \A g \in gos : /\ g.client \in Clients /\ g.sub \in DOMAIN subs[g.client]
                     /\ g.pc # "enter" => Owns(g)
  BY <1>0 DEF GosOK, ReadsOwn, Owns, Streamer
<1>2. CASE h \in gos
  BY <1>1, <1>2, OwnsStays
<1>3. ASSUME NEW g \in gos, StreamEnter(g), h = Waits(g)
      PROVE  Owns(h)'
  <2>1. /\ h.client = g.client /\ h.sub = g.sub /\ h.chan = subs[g.client][g.sub].chan
    BY <1>3 DEF Waits
  <2>2. Connected(subs[g.client][g.sub]) /\ subs[g.client][g.sub].gen > 0
    <3>1. Connected(subs[g.client][g.sub]) /\ subs[g.client][g.sub].gen \in Nat
      BY <1>1, ConnectedNow, SubFacts
    <3> QED BY <1>0, <3>1 DEF GosOK
  <2>3. subs[g.client][g.sub].conv # None /\ Made(h.chan)
    BY <2>1, <2>2 DEF Connected
  <2>4. Owns(h)
    BY <1>0, <1>1, <2>1, <2>3 DEF Owns, ChansApart
  <2> QED BY <1>1, <2>1, <2>4, OwnsStays
<1>4. ASSUME NEW g \in gos, StreamReceive(g), h = Holds(g)
      PROVE  Owns(h)'
  <2>1. /\ h.client = g.client /\ h.sub = g.sub /\ h.chan = g.chan
    BY <1>4 DEF Holds
  <2>2. Owns(g)
    BY <1>1, <1>4 DEF StreamReceive
  <2>3. Owns(h)
    BY <2>1, <2>2 DEF Owns
  <2> QED BY <1>1, <2>1, <2>3, OwnsStays
<1>5. ASSUME NEW c, NEW s, NEW n PROVE h # GoStream(c, s, n)
  BY DEF GoStream
<1> QED BY <1>2, <1>3, <1>4, <1>5, NewGo

----------------------------------------------------------------------------
(* What the subscribers of a conversation are sent. *)

\* Only appending, receiving and dropping change what is in a channel or was
\* lost from it.
LEMMA QueueStays ==
  ASSUME ServerInv, ServerNext, ~\E i \in DOMAIN pool : Pump(i),
         ~\E g \in gos : StreamReceive(g) \/ StreamDrop(g),
         NEW ch, Made(ch)
  PROVE  /\ Channel(ch)'.q = Channel(ch).q /\ Channel(ch)'.lost = Channel(ch).lost
         /\ Channel(ch)'.open => Channel(ch).open
         /\ bufs'[ch[1]].next = bufs[ch[1]].next
<1>0. bufs \in Seq(Buffer) /\ Len(bufs) = Len(pool) /\ ServerTypeOK
  BY DEF ServerInv, ServerTypeOK
<1>1. CASE Watcher
  <2>1. PoolGrows
    BY ServerStepMaps, PoolStep DEF ServerInv
  <2> QED BY <1>0, <1>1, <2>1, WatcherFacts
<1>2. CASE UNCHANGED bufs
  BY <1>2 DEF Channel
<1>3. ASSUME NEW i \in DOMAIN bufs, bufs' = Subscribed(i)
      PROVE  Channel(ch)' = Channel(ch) /\ bufs'[ch[1]].next = bufs[ch[1]].next
  <2>1. PICK new : new = NextChan(i)
    OBVIOUS
  <2> QED BY <1>0, <1>3, <2>1, SubscribedFacts
<1>4. ASSUME NEW ss, bufs' = Unsubscribed(ss)
      PROVE  /\ Channel(ch)'.q = Channel(ch).q /\ Channel(ch)'.lost = Channel(ch).lost
             /\ Channel(ch)'.open => Channel(ch).open
             /\ bufs'[ch[1]].next = bufs[ch[1]].next
  BY <1>0, <1>4, UnsubscribedFacts
<1>5. ASSUME NEW c \in Clients, NEW x, NEW i, Registers(c, x, i)
      PROVE  Channel(ch)' = Channel(ch) /\ bufs'[ch[1]].next = bufs[ch[1]].next
  BY <1>2, <1>3, <1>5 DEF Registers, Channel
<1>6. ASSUME NEW c \in Clients, NEW s, NEW f, NEW i, Serves(c, s, f, i)
      PROVE  Channel(ch)' = Channel(ch) /\ bufs'[ch[1]].next = bufs[ch[1]].next
  BY <1>3, <1>6, Zenon DEF Serves, Attach
<1>7. CASE \E c \in Clients : RemoveClient(c) \/ \E s : Detaches(c, s)
  BY <1>4, <1>7, Zenon DEF RemoveClient, Detaches
<1> QED BY <1>1, <1>2, <1>5, <1>6, <1>7, Kinds

\* Only sending changes what a conversation's client was sent.
LEMMA ViewStays ==
  ASSUME ServerInv, ServerNext, ~\E g \in gos : StreamSend(g),
         NEW c \in Clients, NEW s \in DOMAIN subs[c]
  PROVE  view'[c][s] = view[c][s]
<1>0. /\ ServerTypeOK /\ subs \in [Clients -> Seq(Subscription)]
      /\ view \in [Clients -> [1..MaxSubs -> View]]
  BY DEF ServerInv, ServerTypeOK
<1>1. s \in 1..MaxSubs
  BY <1>0, Numbers
<1>2. CASE view' = view
  BY <1>2
<1>3. ASSUME NEW d \in Clients, NEW f \in Files, SubscribeConversation(d, f)
      PROVE  view'[c][s] = view[c][s]
  <2>1. view' = [view EXCEPT ![d][Len(subs[d]) + 1] = Snapshot(f, bufs[streams[f]].next)]
    BY <1>3 DEF SubscribeConversation
  <2>2. Len(subs[d]) + 1 \notin DOMAIN subs[d]
    <3>1. subs[d] \in Seq(Subscription)
      BY <1>0
    <3> QED BY <3>1
  <2> QED BY <1>0, <1>1, <2>1, <2>2
<1>4. CASE \E d \in Clients : Client(d)
  BY <1>2, <1>3, <1>4, Zenon DEF Client, FollowAgent, UnsubscribeAgent, FollowRegister,
                                 FollowReply, Unsubscribe, Disconnect, RemoveClient
<1>5. CASE Watcher \/ Broadcast \/ \E i \in DOMAIN pool : Pump(i)
  BY <1>2, <1>5, Zenon DEF Watcher, Broadcast, BroadcastNext, DeliverStarted,
                           DeliverSwitched, DeliverSwitchedTo, Pump, clientVars
<1>6. CASE Streaming
  BY <1>2, <1>6 DEF Streaming, StreamEnter, StreamReceive, StreamDrop, StreamEnd
<1> QED BY <1>4, <1>5, <1>6 DEF ServerNext

\* A conversation's new subscription starts where its snapshot ends.
StartsHere(c, n, f) ==
  /\ n \notin DOMAIN subs[c]
  /\ subs'[c][n].agent = None /\ subs'[c][n].conv = f
  /\ view'[c][n].told = f /\ view'[c][n].label = None /\ view'[c][n].exact
  /\ view'[c][n].next \in Nat
  /\ \E ch : /\ subs'[c][n].chan = ch
             /\ Channel(ch)'.q = <<>> /\ bufs'[ch[1]].next = view'[c][n].next

LEMMA ConversationMade ==
  ASSUME ServerInv, NEW c \in Clients, NEW f \in Files, SubscribeConversation(c, f),
         NEW n, n = Len(subs[c]) + 1
  PROVE  StartsHere(c, n, f)
<1>0. /\ ServerTypeOK /\ subs \in [Clients -> Seq(Subscription)] /\ bufs \in Seq(Buffer)
      /\ view \in [Clients -> [1..MaxSubs -> View]]
  BY DEF ServerInv, ServerTypeOK
<1>1. PICK x, i : /\ Registers(c, x, i) /\ x.agent = None /\ x.conv = f /\ i \in DOMAIN bufs
                  /\ view' = [view EXCEPT ![c][Len(subs[c]) + 1] = Snapshot(f, bufs[i].next)]
  BY SubscribeRegisters
<1>2. PICK m : m = Len(subs[c])
  BY Zenon
<1>3. /\ m \in Nat /\ DOMAIN subs[c] = 1..m /\ subs'[c][m + 1] = x /\ n = m + 1
  BY <1>0, <1>1, <1>2, NewSub DEF Registers
<1>4. x.chan = NextChan(i) /\ bufs' = Subscribed(i)
  BY <1>1, WatcherAssumption DEF Registers
<1>5. PICK ch : ch = NextChan(i)
  OBVIOUS
<1>6. /\ ch[1] = i /\ Channel(ch)'.q = <<>>
      /\ bufs'[i].next = bufs[i].next
  BY <1>0, <1>1, <1>4, <1>5, SubscribedFacts
<1>7. bufs[i].next \in Nat
  <2>1. bufs[i] \in Buffer
    BY <1>0, <1>1
  <2> QED BY <2>1 DEF Buffer
<1>8. n \in 1..MaxSubs
  <2>1. m < MaxSubs
    BY <1>1, <1>2 DEF Registers
  <2> QED BY <1>3, <2>1, ServerAssumption
<1>9. PICK v : v = Snapshot(f, bufs[i].next)
  OBVIOUS
<1>10. /\ view'[c][n].told = f /\ view'[c][n].label = None /\ view'[c][n].exact = TRUE
       /\ view'[c][n].next = bufs[i].next
  <2>1. v \in View /\ v.told = f /\ v.label = None /\ v.exact = TRUE /\ v.next = bufs[i].next
    <3>1. PICK k \in Nat : k = bufs[i].next
      BY <1>7
    <3>2. v = Snapshot(f, k) /\ f \in Files \cup {None}
      BY <1>9, <3>1
    <3> QED BY <3>1, <3>2, SnapshotFacts, ZenonT(30)
  <2>2. view' = [view EXCEPT ![c][n] = v]
    BY <1>1, <1>9
  <2>3. view'[c][n] = v
    BY <1>0, <1>8, <2>1, <2>2, ViewSet, Zenon
  <2> QED BY <2>1, <2>3
<1>11. n \notin DOMAIN subs[c]
  BY <1>3
<1> QED BY <1>1, <1>3, <1>4, <1>5, <1>6, <1>7, <1>10, <1>11 DEF StartsHere

\* Only a client's own request makes a conversation's subscription.
LEMMA NewSubs ==
  ASSUME ServerInv, ServerNext, NEW c \in Clients, NEW s \in DOMAIN subs'[c],
         s \notin DOMAIN subs[c], subs'[c][s].agent = None
  PROVE  MakesConversation(c, s)
<1>0. ServerTypeOK /\ subs \in [Clients -> Seq(Subscription)]
  BY DEF ServerInv, ServerTypeOK
<1>1. ~UNCHANGED subs
  OBVIOUS
<1>2. ASSUME NEW d \in Clients, DeliverStarted(d) \/ DeliverSwitched(d) \/ DeliverSwitchedTo(d)
      PROVE  FALSE
  <2>1. PICK t \in DOMAIN subs[d], x \in Subscription : subs' = [subs EXCEPT ![d][t] = x]
    BY <1>1, <1>2, DeliverMoves
  <2> QED BY <1>0, <2>1, OneSub
<1>3. ASSUME NEW d \in Clients, d # c, Client(d)
      PROVE  FALSE
  BY <1>3, Others
<1>4. CASE Client(c)
  <2>1. CASE FollowRegister(c)
    <3>1. PICK x, i : Registers(c, x, i) /\ x.agent # None
      BY <2>1, FollowRegisters
    <3>2. PICK n : n = Len(subs[c])
      BY Zenon
    <3>3. /\ n \in Nat /\ DOMAIN subs[c] = 1..n
          /\ DOMAIN subs'[c] = 1..(n + 1) /\ subs'[c][n + 1] = x
      BY <1>0, <3>1, <3>2, NewSub DEF Registers
    <3> QED BY <3>1, <3>3
  <2>2. CASE \E f \in Files : SubscribeConversation(c, f)
    <3>1. PICK f \in Files : SubscribeConversation(c, f)
      BY <2>2
    <3>2. PICK x, i : Registers(c, x, i)
      BY <3>1, SubscribeRegisters
    <3>3. PICK n : n = Len(subs[c])
      BY Zenon
    <3>4. n \in Nat /\ DOMAIN subs[c] = 1..n /\ DOMAIN subs'[c] = 1..(n + 1)
      BY <1>0, <3>2, <3>3, NewSub DEF Registers
    <3> QED BY <3>1, <3>3, <3>4 DEF MakesConversation
  <2>3. CASE RemoveClient(c)
    BY <1>0, <2>3, RemoveFacts
  <2>4. CASE \E a \in Agents : FollowAgent(c, a) \/ UnsubscribeAgent(c, a)
    BY <1>0, <2>4 DEF FollowAgent, UnsubscribeAgent
  <2>5. CASE FollowReply(c) \/ Disconnect(c) \/ \E t \in 1..MaxSubs : Unsubscribe(c, t)
    BY <1>0, <2>5, Zenon DEF FollowReply, Disconnect, Unsubscribe
  <2> QED BY <1>4, <2>1, <2>2, <2>3, <2>4, <2>5 DEF Client
<1> QED BY <1>1, <1>2, <1>3, <1>4, OthersStep

\* A goroutine of a conversation, the subscription's only one.
LEMMA ConversationGo ==
  ASSUME ServerInv, NEW g \in gos, subs[g.client][g.sub].agent = None
  PROVE  /\ g \in Streamer /\ g.client \in Clients /\ g.sub \in DOMAIN subs[g.client]
         /\ g.sub \in 1..MaxSubs
         /\ g.gen = 1 /\ InStep(g)
         /\ \A c \in Clients : \A s, ch : c = g.client /\ s = g.sub /\ ch = subs[c][s].chan =>
              /\ subs[c][s] \in Subscription /\ Connected(subs[c][s])
              /\ subs[c][s].conv # None /\ Made(ch) /\ ch \in Nat \X Nat
              /\ g.pc # "enter" => g.chan = ch
         /\ \A h \in gos : h.client = g.client /\ h.sub = g.sub => h = g
<1>0. ServerTypeOK /\ GosOK /\ StreamsInStep /\ ReadsOwn /\ gos \subseteq Streamer
  BY DEF ServerInv, ServerTypeOK
<1>1. g \in Streamer /\ g.client \in Clients /\ g.sub \in DOMAIN subs[g.client]
  BY <1>0 DEF GosOK, Streamer
<1>2. subs[g.client][g.sub] \in Subscription /\ Connected(subs[g.client][g.sub])
  BY <1>1, ConnectedNow
<1>3. subs[g.client][g.sub].gen = 1
  BY <1>2 DEF Connected
<1>4. \A h \in gos : h.client = g.client /\ h.sub = g.sub => h.gen = 1
  BY <1>0, <1>3 DEF GosOK
<1>5. \A h \in gos : h.client = g.client /\ h.sub = g.sub => h = g
  BY <1>0, <1>4 DEF GosOK
<1>6. subs[g.client][g.sub].conv # None /\ Made(subs[g.client][g.sub].chan)
      /\ subs[g.client][g.sub].chan \in Nat \X Nat
  BY <1>2, <1>3, SubFacts DEF Connected
<1>7. g.pc # "enter" => g.chan = subs[g.client][g.sub].chan
  BY <1>0 DEF ReadsOwn
<1> QED BY <1>0, <1>1, <1>2, <1>4, <1>5, <1>6, <1>7, Numbers DEF StreamsInStep

LEMMA InStepIsSteps ==
  ASSUME NEW g
  PROVE  /\ \A v, ch : v = view[g.client][g.sub].next /\ ch = subs[g.client][g.sub].chan =>
              (InStep(g) <=> Steps(v, Channel(ch), bufs[ch[1]].next, g.pc = "send", g.seq))
         /\ \A v, ch, x, n : /\ v = view'[g.client][g.sub].next /\ ch = subs'[g.client][g.sub].chan
                            /\ x = Channel(ch)' /\ n = bufs'[ch[1]].next =>
              (InStep(g)' <=> Steps(v, x, n, g.pc = "send", g.seq))
  BY DEF InStep, Steps

\* The channel is as it was, or has been closed; or it was closed already.
LEMMA StepsKeep ==
  ASSUME NEW v, NEW x, NEW y, NEW n, NEW m, NEW b, NEW e, Steps(v, x, n, b, e),
         y.open => x.open /\ m = n, y.q = x.q, y.lost = x.lost
  PROVE  Steps(v, y, m, b, e) /\ (~b => \A d : Steps(v, y, m, b, d))
<1>1. PICK end \in Nat : (x.open => end = n) /\ UpTo(v, x.q, x.lost, end, b, e)
  BY DEF Steps
<1>2. ~b => \A d : UpTo(v, x.q, x.lost, end, b, d)
  BY <1>1 DEF UpTo
<1> QED BY <1>1, <1>2, Zenon DEF Steps

\* The event in hand is sent: what is skipped was dropped.
LEMMA StepsSent ==
  ASSUME NEW v \in Nat, NEW x \in LiveChannel, NEW n, NEW e \in Nat, Steps(v, x, n, TRUE, e)
  PROVE  v <= e /\ (\A k \in v..(e - 1) : k \in x.lost) /\ \A d : Steps(e + 1, x, n, FALSE, d)
<1>1. PICK end \in Nat : (x.open => end = n) /\ UpTo(v, x.q, x.lost, end, TRUE, e)
  BY DEF Steps
<1>2. PICK q, lost : q = x.q /\ lost = x.lost
  OBVIOUS
<1>3. \A k \in DOMAIN q : q[k] \in Nat
  BY <1>2 DEF LiveChannel
<1>4. UpTo(v, q, lost, end, TRUE, e)
  BY <1>1, <1>2
<1>5. v <= e /\ \A k \in v..(e - 1) : k \in lost
  <2>1. v <= e /\ e < end /\ \A k \in DOMAIN q : e < q[k]
    BY <1>4 DEF UpTo
  <2>2. \A k \in v..(end - 1) : k \in lost \/ k = e \/ \E j \in DOMAIN q : q[j] = k
    BY <1>4 DEF UpTo
  <2> QED BY <1>3, <2>1, <2>2
<1>6. \A d : UpTo(e + 1, q, lost, end, FALSE, d)
  BY <1>3, <1>4 DEF UpTo
<1> QED BY <1>1, <1>2, <1>5, <1>6, Zenon DEF Steps

\* The event in hand is dropped.
LEMMA StepsDropped ==
  ASSUME NEW v \in Nat, NEW x \in LiveChannel, NEW y, NEW n, NEW e \in Nat,
         Steps(v, x, n, TRUE, e), y.open = x.open, y.q = x.q, y.lost = x.lost \cup {e}
  PROVE  \A d : Steps(v, y, n, FALSE, d)
<1>1. PICK end \in Nat : (x.open => end = n) /\ UpTo(v, x.q, x.lost, end, TRUE, e)
  BY DEF Steps
<1>2. \A d : UpTo(v, x.q, x.lost \cup {e}, end, FALSE, d)
  BY <1>1 DEF UpTo
<1> QED BY <1>1, <1>2, Zenon DEF Steps

\* The next event is appended, or dropped where the channel is full.
LEMMA StepsOffered ==
  ASSUME NEW v \in Nat, NEW x \in LiveChannel, NEW y \in LiveChannel, NEW n \in Nat,
         NEW b \in BOOLEAN, NEW e \in Nat, Steps(v, x, n, b, e), Offering(x, y, n)
  PROVE  Steps(v, y, n + 1, b, e)
<1>1. PICK end \in Nat : (x.open => end = n) /\ UpTo(v, x.q, x.lost, end, b, e)
  BY DEF Steps
<1>2. PICK q, lost : q = x.q /\ lost = x.lost /\ q \in Seq(Nat)
  BY DEF LiveChannel
<1>3. PICK m \in Nat : m = Len(q) /\ DOMAIN q = 1..m
  BY <1>2
<1>4. UpTo(v, q, lost, end, b, e) /\ \A k \in 1..m : q[k] \in Nat
  BY <1>1, <1>2, <1>3
<1>5. CASE ~x.open
  <2>1. ~y.open /\ y.q = x.q /\ y.lost = x.lost
    BY <1>5 DEF Offering
  <2> QED BY <1>1, <2>1, Zenon DEF Steps
<1>6. CASE x.open /\ y.q = Append(x.q, n) /\ y.lost = x.lost
  <2>1. /\ DOMAIN Append(q, n) = 1..(m + 1) /\ Append(q, n)[m + 1] = n
        /\ \A k \in 1..m : Append(q, n)[k] = q[k]
    BY <1>2, <1>3
  <2>2. UpTo(v, q, lost, n, b, e)
    BY <1>1, <1>4, <1>6
  <2> DEFINE r == Append(q, n)
  <2> HIDE DEF r
  <2>3. v <= n + 1 /\ v <= n
    BY <2>2 DEF UpTo
  <2>4. b => v <= e /\ e < n + 1 /\ \A k \in 1..(m + 1) : e < r[k]
    <3> SUFFICES ASSUME b PROVE v <= e /\ e < n + 1 /\ \A k \in 1..(m + 1) : e < r[k]
      OBVIOUS
    <3>1. v <= e /\ e < n /\ \A k \in 1..m : e < q[k]
      BY <1>3, <2>2 DEF UpTo
    <3> QED BY <2>1, <3>1 DEF r
  <2>5. ASSUME NEW k \in 1..(m + 1)
        PROVE  v <= r[k] /\ r[k] < n + 1 /\ \A j \in 1..(k - 1) : r[j] < r[k]
    <3>1. \A i \in 1..m : v <= q[i] /\ q[i] < n /\ \A j \in 1..(i - 1) : q[j] < q[i]
      BY <1>3, <2>2 DEF UpTo
    <3>2. CASE k = m + 1
      BY <1>4, <2>1, <2>3, <3>1, <3>2 DEF r
    <3>3. CASE k \in 1..m
      <4>1. \A j \in 1..(k - 1) : j \in 1..m
        BY <3>3
      <4> QED BY <1>4, <2>1, <3>1, <3>3, <4>1 DEF r
    <3> QED BY <3>2, <3>3
  <2>6. ASSUME NEW k \in v..n
        PROVE  k \in lost \/ (b /\ k = e) \/ \E j \in 1..(m + 1) : r[j] = k
    <3>1. CASE k = n
      BY <2>1, <3>1 DEF r
    <3>2. CASE k # n
      <4>1. k \in v..(n - 1)
        BY <3>2
      <4>2. k \in lost \/ (b /\ k = e) \/ \E j \in 1..m : q[j] = k
        BY <1>3, <2>2, <4>1 DEF UpTo
      <4> QED BY <2>1, <4>2 DEF r
    <3> QED BY <3>1, <3>2
  <2>7. DOMAIN r = 1..(m + 1)
    BY <2>1 DEF r
  <2>8. UpTo(v, r, lost, n + 1, b, e)
    <3>1. (n + 1) - 1 = n
      OBVIOUS
    <3> QED BY <2>3, <2>4, <2>5, <2>6, <2>7, <3>1, Zenon DEF UpTo
  <2>9. y.q = r /\ y.lost = lost /\ n + 1 \in Nat
    BY <1>2, <1>6 DEF r
  <2> QED BY <2>8, <2>9, Zenon DEF Steps
<1>7. CASE x.open /\ y.q = x.q /\ y.lost = x.lost \cup {n}
  <2>1. UpTo(v, q, lost \cup {n}, n + 1, b, e)
    BY <1>1, <1>2, <1>3, <1>4, <1>7 DEF UpTo
  <2>2. y.q = q /\ y.lost = lost \cup {n} /\ n + 1 \in Nat
    BY <1>2, <1>7
  <2> QED BY <2>1, <2>2, Zenon DEF Steps
<1> QED BY <1>5, <1>6, <1>7 DEF Offering

\* The first event of the channel is received.
LEMMA StepsTail ==
  ASSUME NEW v \in Nat, NEW x \in LiveChannel, NEW y \in LiveChannel, NEW n \in Nat,
         NEW d, Steps(v, x, n, FALSE, d), y.open = x.open, x.q # <<>>, y.q = Tail(x.q),
         y.lost = x.lost, NEW e, e = Head(x.q)
  PROVE  Steps(v, y, n, TRUE, e)
<1>1. PICK end \in Nat : (x.open => end = n) /\ UpTo(v, x.q, x.lost, end, FALSE, d)
  BY DEF Steps
<1>2. PICK q, lost : q = x.q /\ lost = x.lost /\ q \in Seq(Nat) /\ q # <<>>
  BY DEF LiveChannel
<1>3. PICK m \in Nat : m = Len(q) /\ DOMAIN q = 1..m /\ m > 0
  BY <1>2
<1>4. UpTo(v, q, lost, end, FALSE, d) /\ \A k \in 1..m : q[k] \in Nat
  <2>1. UpTo(v, q, lost, end, FALSE, d)
    BY <1>1, <1>2, Zenon
  <2>2. \A k \in 1..m : q[k] \in Nat
    BY <1>2, <1>3
  <2> QED BY <2>1, <2>2
<1>5. PICK r : r = Tail(q)
  OBVIOUS
<1>6. /\ DOMAIN r = 1..(m - 1) /\ e = q[1]
      /\ \A k \in 1..(m - 1) : r[k] = q[k + 1]
  BY <1>2, <1>3, <1>5
<1>7. \A i \in 1..m : v <= q[i] /\ q[i] < end /\ \A j \in 1..(i - 1) : q[j] < q[i]
  BY <1>3, <1>4 DEF UpTo
<1>8. \A k \in 1..(m - 1) : k + 1 \in 1..m /\ 1 \in 1..k
  BY <1>3
<1>9. v <= end /\ v <= e /\ e < end
  BY <1>3, <1>4, <1>6, <1>7 DEF UpTo
<1>10. \A k \in 1..(m - 1) : e < r[k]
  BY <1>6, <1>7, <1>8
<1>11. ASSUME NEW k \in 1..(m - 1)
       PROVE  v <= r[k] /\ r[k] < end /\ \A j \in 1..(k - 1) : r[j] < r[k]
  <2>1. \A j \in 1..(k - 1) : j \in 1..(m - 1) /\ j + 1 \in 1..((k + 1) - 1)
    BY <1>3
  <2> QED BY <1>6, <1>7, <1>8, <2>1
<1>12. ASSUME NEW i \in v..(end - 1)
       PROVE  i \in lost \/ i = e \/ \E k \in 1..(m - 1) : r[k] = i
  <2>1. i \in lost \/ \E k \in 1..m : q[k] = i
    BY <1>3, <1>4 DEF UpTo
  <2>2. ASSUME NEW k \in 1..m, q[k] = i, k # 1
        PROVE  \E j \in 1..(m - 1) : r[j] = i
    <3>1. k - 1 \in 1..(m - 1) /\ (k - 1) + 1 = k
      BY <2>2
    <3> QED BY <1>6, <2>2, <3>1
  <2> QED BY <1>6, <2>1, <2>2
<1>13. UpTo(v, r, lost, end, TRUE, e)
  BY <1>6, <1>9, <1>10, <1>11, <1>12, Zenon DEF UpTo
<1> QED BY <1>1, <1>2, <1>5, <1>13, Zenon DEF Steps

\* A goroutine of a conversation goes on from where it was.
LEMMA InStepStays ==
  ASSUME ServerInv, ServerNext, NEW g \in gos, subs[g.client][g.sub].agent = None,
         NEW h, h.client = g.client, h.sub = g.sub,
         \/ h = g
         \/ StreamEnter(g) /\ h = Waits(g)
         \/ StreamReceive(g) /\ h = Holds(g)
         \/ (StreamSend(g) \/ StreamDrop(g)) /\ h = GoStream(g.client, g.sub, g.gen),
         h \in gos'
  PROVE  InStep(h)'
<1>0. /\ ServerTypeOK /\ bufs \in Seq(Buffer) /\ gos \subseteq Streamer
      /\ view \in [Clients -> [1..MaxSubs -> View]] /\ ReadsOwn /\ GosOK
      /\ DOMAIN pool = DOMAIN bufs /\ Len(bufs) = Len(pool) /\ bufs' \in Seq(Buffer)
  BY BufsStep DEF ServerInv, ServerTypeOK, WatcherInv, TypeOK
<1>1. PICK c, s, ch : c = g.client /\ s = g.sub /\ ch = subs[c][s].chan
  OBVIOUS
<1>2. /\ g \in Streamer /\ c \in Clients /\ s \in DOMAIN subs[c] /\ s \in 1..MaxSubs
      /\ g.gen = 1 /\ InStep(g) /\ Made(ch) /\ ch \in Nat \X Nat
      /\ g.pc # "enter" => g.chan = ch
      /\ \A k \in gos : k.client = c /\ k.sub = s => k = g
  BY <1>1, ConversationGo
<1>3. PICK v, x, n : v = view[c][s].next /\ x = Channel(ch) /\ n = bufs[ch[1]].next
  OBVIOUS
<1>4. PICK w, y, m : w = view'[c][s].next /\ y = Channel(ch)' /\ m = bufs'[ch[1]].next
  OBVIOUS
<1>5. ch = subs'[c][s].chan
  <2>1. SubMoves(subs[c][s], subs'[c][s])
    BY <1>2, SubsStep
  <2> QED BY <1>1, <2>1 DEF SubMoves
<1>6. Steps(v, x, n, g.pc = "send", g.seq)
  BY <1>1, <1>2, <1>3, InStepIsSteps
<1>7. InStep(h)' <=> Steps(w, y, m, h.pc = "send", h.seq)
  BY <1>1, <1>4, <1>5, InStepIsSteps, Zenon
<1>8. v \in Nat /\ x \in LiveChannel /\ n \in Nat /\ g.seq \in Nat /\ y \in LiveChannel
  <2>1. view[c][s] \in View
    BY <1>0, <1>2, Zenon
  <2>2. v \in Nat
    BY <1>3, <2>1 DEF View
  <2>3. x \in LiveChannel /\ n \in Nat
    BY <1>0, <1>2, <1>3, ChannelFacts
  <2>4. g.seq \in Nat
    BY <1>2 DEF Streamer
  <2>5. y \in LiveChannel
    <3>1. Made(ch)'
      BY <1>2, BufsStep
    <3>2. bufs'[ch[1]] \in Buffer /\ ch[2] \in DOMAIN bufs'[ch[1]].chans
      BY <1>0, <3>1 DEF Made
    <3>3. bufs'[ch[1]].chans \in Seq(LiveChannel)
      BY <3>2 DEF Buffer
    <3> QED BY <1>4, <3>2, <3>3 DEF Channel
  <2> QED BY <2>2, <2>3, <2>4, <2>5
<1>9. (g.pc = "send") \in BOOLEAN
  OBVIOUS
<1>10. ASSUME h = g, w = v, m = n, y.q = x.q, y.lost = x.lost, y.open => x.open
       PROVE  InStep(h)'
  BY <1>6, <1>7, <1>10, StepsKeep
<1>11. CASE h = g /\ \E i \in DOMAIN pool : Pump(i)
  <2>1. PICK i \in DOMAIN bufs : Pump(i)
    BY <1>0, <1>11
  <2>2. w = v
    BY <1>3, <1>4, <2>1 DEF Pump, clientVars
  <2>3. /\ ch[1] = i => Offering(x, y, n) /\ m = n + 1
        /\ ch[1] # i => y = x /\ m = n
    BY <1>0, <1>2, <1>3, <1>4, <2>1, PumpFacts, Zenon
  <2>4. CASE ch[1] = i
    <3>1. PICK b \in BOOLEAN : b = (g.pc = "send")
      BY Zenon
    <3>2. Steps(v, x, n, b, g.seq) /\ Offering(x, y, n)
      BY <1>6, <2>3, <2>4, <3>1
    <3>3. Steps(v, y, n + 1, b, g.seq)
      BY <1>8, <3>2, StepsOffered
    <3> QED BY <1>7, <1>11, <2>2, <2>3, <2>4, <3>1, <3>3
  <2>5. CASE ch[1] # i
    BY <1>10, <1>11, <2>2, <2>3, <2>5
  <2> QED BY <2>4, <2>5
<1>12. CASE h = g /\ \E k \in gos : StreamReceive(k) \/ StreamDrop(k)
  <2>1. PICK k \in gos : StreamReceive(k) \/ StreamDrop(k)
    BY <1>12
  <2>2. k # g
    <3> SUFFICES ASSUME k = g PROVE FALSE
      OBVIOUS
    <3>1. CASE StreamReceive(g)
      <4>1. gos' = Replaced(g, Holds(g)) /\ g.pc = "wait"
        BY <3>1 DEF StreamReceive, Holds
      <4>2. g = Holds(g)
        BY <1>12, <4>1 DEF Replaced
      <4>3. Holds(g).pc = "send"
        BY DEF Holds
      <4> QED BY <4>1, <4>2, <4>3
    <3>2. CASE StreamDrop(g)
      <4>1. gos' = Replaced(g, GoStream(g.client, g.sub, g.gen)) /\ g.pc = "send"
        BY <3>2 DEF StreamDrop
      <4>2. g = GoStream(g.client, g.sub, g.gen)
        BY <1>12, <4>1 DEF Replaced
      <4>3. GoStream(g.client, g.sub, g.gen).pc = "enter"
        BY DEF GoStream
      <4> QED BY <4>1, <4>2, <4>3
    <3> QED BY <2>1, <3>1, <3>2
  <2>3. /\ k.pc # "enter" /\ k.chan \in Nat \X Nat /\ view' = view
        /\ bufs' = bufs \/ Touches(k)
    <3>1. view' = view
      BY <2>1 DEF StreamReceive, StreamDrop
    <3>2. k.chan \in Nat \X Nat
      BY <1>0 DEF Streamer
    <3> QED BY <2>1, <3>1, <3>2, Touching
  <2>4. k.chan # ch
    BY <1>0, <1>1, <1>2, <2>2, <2>3 DEF ReadsOwn
  <2>5. ~(ch[1] = k.chan[1] /\ ch[2] = k.chan[2])
    BY <1>2, <2>3, <2>4
  <2>6. y = x /\ m = n
    <3>1. CASE bufs' = bufs
      BY <1>3, <1>4, <3>1 DEF Channel
    <3>2. CASE Touches(k)
      BY <1>0, <1>2, <1>3, <1>4, <2>5, <3>2, TouchedFacts
    <3> QED BY <2>3, <3>1, <3>2
  <2>7. w = v
    BY <1>3, <1>4, <2>3
  <2> QED BY <1>10, <1>12, <2>6, <2>7
<1>13. CASE h = g /\ \E k \in gos : StreamSend(k)
  <2>1. PICK k \in gos : StreamSend(k)
    BY <1>13
  <2>2. k # g
    <3> SUFFICES ASSUME k = g PROVE FALSE
      OBVIOUS
    <3>1. gos' = Replaced(g, GoStream(g.client, g.sub, g.gen)) /\ g.pc = "send"
      BY <2>1 DEF StreamSend
    <3>2. g = GoStream(g.client, g.sub, g.gen)
      BY <1>13, <3>1 DEF Replaced
    <3>3. GoStream(g.client, g.sub, g.gen).pc = "enter"
      BY DEF GoStream
    <3> QED BY <3>1, <3>2, <3>3
  <2>3. k.client # c \/ k.sub # s
    BY <1>2, <2>2
  <2>4. PICK e : view' = view \/ view' = [view EXCEPT ![k.client][k.sub] = e]
    BY <2>1, Zenon DEF StreamSend
  <2>5. view'[c][s] = view[c][s]
    <3>1. CASE view' = view
      BY <3>1
    <3>2. CASE view' = [view EXCEPT ![k.client][k.sub] = e]
      BY <1>0, <1>2, <2>3, <3>2
    <3> QED BY <2>4, <3>1, <3>2
  <2>6. bufs' = bufs
    BY <2>1 DEF StreamSend
  <2>7. y = x /\ m = n
    BY <1>3, <1>4, <2>6 DEF Channel
  <2> QED BY <1>3, <1>4, <1>10, <1>13, <2>5, <2>7
<1>14. CASE /\ h = g /\ ~\E i \in DOMAIN pool : Pump(i)
            /\ ~\E k \in gos : StreamReceive(k) \/ StreamDrop(k)
            /\ ~\E k \in gos : StreamSend(k)
  <2>1. y.q = x.q /\ y.lost = x.lost /\ (y.open => x.open) /\ m = n
    BY <1>2, <1>3, <1>4, <1>14, QueueStays
  <2>2. view'[c][s] = view[c][s]
    BY <1>2, <1>14, ViewStays
  <2> QED BY <1>3, <1>4, <1>10, <1>14, <2>1, <2>2
<1>15. CASE StreamEnter(g) /\ h = Waits(g)
  <2>1. g.pc # "send" /\ h.pc # "send" /\ bufs' = bufs /\ view' = view
    BY <1>15 DEF StreamEnter, Waits
  <2>2. w = v /\ y = x /\ m = n
    BY <1>3, <1>4, <2>1 DEF Channel
  <2>3. (g.pc = "send") = FALSE /\ (h.pc = "send") = FALSE
    BY <2>1
  <2>4. Steps(v, x, n, FALSE, g.seq)
    BY <1>6, <2>3, Zenon
  <2>5. Steps(v, x, n, FALSE, h.seq)
    BY <2>4, StepsKeep, Zenon
  <2> QED BY <1>7, <2>2, <2>3, <2>5, Zenon
<1>16. CASE StreamReceive(g) /\ h = Holds(g)
  <2>1. g.pc = "wait" /\ h.pc = "send" /\ h.seq = Head(Channel(g.chan).q) /\ view' = view
        /\ bufs' = WithChannel(g.chan, Received(Channel(g.chan))) /\ Channel(g.chan).q # <<>>
    BY <1>16 DEF StreamReceive, Holds
  <2>2. g.chan = ch
    BY <1>2, <2>1
  <2>3. w = v
    BY <1>3, <1>4, <2>1
  <2>4. y.open = x.open /\ y.q = Tail(x.q) /\ y.lost = x.lost /\ m = n
    BY <1>0, <1>2, <1>3, <1>4, <2>1, <2>2, ReceivedFacts
  <2>5. (g.pc = "send") = FALSE /\ (h.pc = "send") = TRUE
    BY <2>1
  <2>6. Steps(v, x, n, FALSE, g.seq)
    BY <1>6, <2>5, Zenon
  <2>7. x.q # <<>> /\ h.seq = Head(x.q)
    BY <1>3, <2>1, <2>2
  <2>8. Steps(v, y, n, TRUE, h.seq)
    BY <1>8, <2>4, <2>6, <2>7, StepsTail, Zenon
  <2> QED BY <1>7, <2>3, <2>4, <2>5, <2>8, Zenon
<1>17. CASE StreamSend(g) /\ h = GoStream(g.client, g.sub, g.gen)
  <2>1. g.pc = "send" /\ h.pc = "enter" /\ bufs' = bufs
    BY <1>17 DEF StreamSend, GoStream
  <2>2. y = x /\ m = n
    BY <1>3, <1>4, <2>1 DEF Channel
  <2>3. (g.pc = "send") = TRUE /\ (h.pc = "send") = FALSE
    BY <2>1
  <2>4. w = g.seq + 1
    BY <1>0, <1>1, <1>2, <1>4, <1>17, Zenon DEF StreamSend
  <2>5. Steps(v, x, n, TRUE, g.seq)
    BY <1>6, <2>3, Zenon
  <2>6. Steps(g.seq + 1, x, n, FALSE, h.seq)
    BY <1>8, <2>5, StepsSent, Zenon
  <2> QED BY <1>7, <2>2, <2>3, <2>4, <2>6, Zenon
<1>18. CASE StreamDrop(g) /\ h = GoStream(g.client, g.sub, g.gen)
  <2>1. /\ g.pc = "send" /\ h.pc = "enter" /\ view' = view
        /\ bufs' = WithChannel(g.chan, Losing(Channel(g.chan), g.seq))
    BY <1>18 DEF StreamDrop, GoStream
  <2>2. g.chan = ch
    BY <1>2, <2>1
  <2>3. w = v
    BY <1>3, <1>4, <2>1
  <2>4. y.open = x.open /\ y.q = x.q /\ y.lost = x.lost \cup {g.seq} /\ m = n
    BY <1>0, <1>2, <1>3, <1>4, <1>8, <2>1, <2>2, LosingFacts
  <2>5. (g.pc = "send") = TRUE /\ (h.pc = "send") = FALSE
    BY <2>1
  <2>6. Steps(v, x, n, TRUE, g.seq)
    BY <1>6, <2>5, Zenon
  <2>7. Steps(v, y, n, FALSE, h.seq)
    BY <1>8, <2>4, <2>6, StepsDropped, Zenon
  <2> QED BY <1>7, <2>3, <2>4, <2>5, <2>7, Zenon
<1> QED BY <1>11, <1>12, <1>13, <1>14, <1>15, <1>16, <1>17, <1>18

LEMMA StreamsStep ==
  ASSUME ServerInv, ServerNext
  PROVE  StreamsInStep'
<1> SUFFICES ASSUME NEW h \in gos', subs'[h.client][h.sub].agent = None
             PROVE  InStep(h)'
  BY DEF StreamsInStep
<1>0. GosOK /\ gos \subseteq Streamer /\ subs \in [Clients -> Seq(Subscription)]
  BY DEF ServerInv, ServerTypeOK
<1>1. ASSUME NEW g \in gos, h.client = g.client, h.sub = g.sub,
             \/ h = g
             \/ StreamEnter(g) /\ h = Waits(g)
             \/ StreamReceive(g) /\ h = Holds(g)
             \/ (StreamSend(g) \/ StreamDrop(g)) /\ h = GoStream(g.client, g.sub, g.gen)
      PROVE  InStep(h)'
  <2>1. g.client \in Clients /\ g.sub \in DOMAIN subs[g.client]
    BY <1>0 DEF GosOK, Streamer
  <2>2. subs[g.client][g.sub].agent = None
    <3>1. SubMoves(subs[g.client][g.sub], subs'[g.client][g.sub])
      BY <2>1, SubsStep
    <3> QED BY <1>1, <3>1 DEF SubMoves
  <2> QED BY <1>1, <2>2, InStepStays
<1>2. ASSUME NEW c \in Clients, NEW s, h = GoStream(c, s, 1), MakesConversation(c, s)
      PROVE  InStep(h)'
  <2>1. h.client = c /\ h.sub = s /\ (h.pc = "send") = FALSE
    BY <1>2 DEF GoStream
  <2>2. PICK f \in Files : SubscribeConversation(c, f)
    BY <1>2 DEF MakesConversation
  <2>3. s = Len(subs[c]) + 1
    BY <1>2 DEF MakesConversation
  <2>4. StartsHere(c, s, f)
    BY <2>2, <2>3, ConversationMade
  <2>5. PICK ch : /\ subs'[c][s].chan = ch /\ view'[c][s].next \in Nat
                  /\ Channel(ch)'.q = <<>> /\ bufs'[ch[1]].next = view'[c][s].next
    BY <2>4 DEF StartsHere
  <2>6. PICK v, x : v = view'[c][s].next /\ x = Channel(ch)'
    OBVIOUS
  <2>7. Steps(v, x, v, FALSE, h.seq)
    <3>1. x.q = <<>> /\ v \in Nat /\ Len(x.q) = 0 /\ DOMAIN x.q = {}
      BY <2>5, <2>6
    <3> QED BY <3>1 DEF Steps, UpTo
  <2> QED BY <2>1, <2>5, <2>6, <2>7, InStepIsSteps, Zenon
<1>3. \A g : /\ Waits(g).client = g.client /\ Waits(g).sub = g.sub
             /\ Holds(g).client = g.client /\ Holds(g).sub = g.sub
             /\ GoStream(g.client, g.sub, g.gen).client = g.client
             /\ GoStream(g.client, g.sub, g.gen).sub = g.sub
  BY DEF Waits, Holds, GoStream
<1>4. \A c, s, n : GoStream(c, s, n).client = c /\ GoStream(c, s, n).sub = s
  BY DEF GoStream
<1> QED BY <1>1, <1>2, <1>3, <1>4, NewGo

LEMMA ExactStep ==
  ASSUME ServerInv, ServerNext
  PROVE  ConversationIsExact'
<1> SUFFICES ASSUME NEW c \in Clients, NEW s \in DOMAIN subs'[c], subs'[c][s].agent = None
             PROVE  /\ view'[c][s].exact /\ view'[c][s].told = subs'[c][s].conv
                    /\ view'[c][s].label # None =>
                         view'[c][s].label = view'[c][s].told /\ view'[c][s].from = view'[c][s].told
  BY DEF ConversationIsExact
<1>0. /\ ServerTypeOK /\ ConversationIsExact
      /\ subs \in [Clients -> Seq(Subscription)]
      /\ view \in [Clients -> [1..MaxSubs -> View]]
  BY DEF ServerInv, ServerTypeOK
<1>1. CASE s \notin DOMAIN subs[c]
  <2>1. MakesConversation(c, s)
    BY <1>1, NewSubs
  <2>2. PICK f \in Files : SubscribeConversation(c, f)
    BY <2>1 DEF MakesConversation
  <2>3. s = Len(subs[c]) + 1
    BY <2>1 DEF MakesConversation
  <2>4. StartsHere(c, s, f)
    BY <2>2, <2>3, ConversationMade
  <2> QED BY <2>4 DEF StartsHere
<1>2. CASE s \in DOMAIN subs[c]
  <2>1. subs[c][s].agent = None /\ subs'[c][s].conv = subs[c][s].conv
    <3>1. SubMoves(subs[c][s], subs'[c][s])
      BY <1>2, SubsStep
    <3> QED BY <3>1 DEF SubMoves
  <2>2. CASE view'[c][s] = view[c][s]
    <3>1. /\ view[c][s].exact /\ view[c][s].told = subs[c][s].conv
          /\ view[c][s].label # None =>
               view[c][s].label = view[c][s].told /\ view[c][s].from = view[c][s].told
      BY <1>0, <1>2, <2>1 DEF ConversationIsExact
    <3> QED BY <2>1, <2>2, <3>1
  <2>3. CASE view'[c][s] # view[c][s]
    <3>1. PICK g \in gos : StreamSend(g)
      BY <1>2, <2>3, ViewStays
    <3>2. PICK v, w : /\ v = view[g.client][g.sub]
                      /\ w = [told |-> v.told, next |-> g.seq + 1,
                              label |-> subs[g.client][g.sub].conv, from |-> pool[g.chan[1]].conv,
                              exact |-> /\ v.exact /\ v.next <= g.seq
                                        /\ AllLost(g.chan, v.next, g.seq - 1)]
      BY Zenon
    <3>3. view' = [view EXCEPT ![g.client][g.sub] = w]
      <4>1. view' = view \/ view' = [view EXCEPT ![g.client][g.sub] = w]
        BY <3>1, <3>2, Zenon DEF StreamSend
      <4> QED BY <2>3, <4>1
    <3>4. s \in 1..MaxSubs
      BY <1>0, <1>2, Numbers
    <3>5. g.client = c /\ g.sub = s
      BY <1>0, <2>3, <3>3, <3>4
    <3>6. view'[c][s] = w
      BY <1>0, <3>3, <3>4, <3>5, Zenon
    <3>7. subs[g.client][g.sub].agent = None
      BY <2>1, <3>5
    <3>8. PICK ch : ch = subs[c][s].chan
      OBVIOUS
    <3>9. InStep(g) /\ Connected(subs[c][s]) /\ subs[c][s].conv # None /\ g.chan = ch
      BY <3>1, <3>5, <3>7, <3>8, ConversationGo DEF StreamSend
    <3>10. v.next <= g.seq /\ AllLost(g.chan, v.next, g.seq - 1)
      <4>1. /\ g.seq \in Nat /\ v.next \in Nat /\ Made(ch) /\ bufs \in Seq(Buffer)
        <5>1. g \in Streamer /\ Made(ch)
          BY <3>1, <3>5, <3>7, <3>8, ConversationGo
        <5>2. v \in View
          BY <1>0, <3>2, <3>4, <3>5, Zenon
        <5> QED BY <1>0, <5>1, <5>2 DEF Streamer, View, ServerTypeOK
      <4>2. PICK x, n : x = Channel(ch) /\ n = bufs[ch[1]].next
        OBVIOUS
      <4>3. x \in LiveChannel
        BY <4>1, <4>2, ChannelFacts
      <4>4. Steps(v.next, x, n, g.pc = "send", g.seq)
        BY <3>2, <3>5, <3>8, <3>9, <4>2, InStepIsSteps
      <4>5. (g.pc = "send") = TRUE
        BY <3>1 DEF StreamSend
      <4>6. Steps(v.next, x, n, TRUE, g.seq)
        BY <4>4, <4>5, Zenon
      <4> QED BY <3>9, <4>1, <4>2, <4>3, <4>6, StepsSent, Zenon DEF AllLost
    <3>11. pool[g.chan[1]].conv = subs[c][s].conv
      BY <3>8, <3>9 DEF Connected
    <3>12. v.exact /\ v.told = subs[c][s].conv
      BY <1>0, <1>2, <2>1, <3>2, <3>5 DEF ConversationIsExact
    <3>13. /\ w.told = v.told /\ w.label = subs[c][s].conv /\ w.from = pool[g.chan[1]].conv
           /\ w.exact
      BY <3>2, <3>5, <3>10, <3>12, Zenon
    <3> QED BY <2>1, <3>6, <3>11, <3>12, <3>13
  <2> QED BY <2>2, <2>3
<1> QED BY <1>1, <1>2

----------------------------------------------------------------------------
(* The invariant. *)

LEMMA ServerTypesStep ==
  ASSUME ServerInv, ServerNext
  PROVE  ServerTypeOK'
<1>1. TypeOK'
  <2>1. WatcherInv'
    BY ServerStepMaps, NextWatcherInv DEF ServerInv
  <2> QED BY <2>1 DEF WatcherInv
<1>2. bufs' \in Seq(Buffer) /\ Len(bufs') = Len(pool')
  BY BufsStep
<1>3. subs' \in [Clients -> Seq(Subscription)] /\ \A c \in Clients : Len(subs'[c]) <= MaxSubs
  BY SubsStep
<1>4. ASSUME NEW c \in Clients, NEW s \in DOMAIN subs'[c], NEW x, x = subs'[c][s]
      PROVE  IF x.conv = None THEN x.chan = <<0, 0>> /\ x.gen = 0
             ELSE x.gen > 0 /\ Made(x.chan)'
  <2>1. Connected(x)'
    BY <1>4, ConnectedStep
  <2> QED BY <2>1 DEF Connected
<1>5. OwnTypes'
  BY OwnTypesStep
<1> QED BY <1>1, <1>2, <1>3, <1>4, <1>5 DEF ServerTypeOK, OwnTypes

LEMMA InitServerInv == ServerInit => ServerInv
<1> SUFFICES ASSUME ServerInit PROVE ServerInv
  OBVIOUS
<1>0. WatcherInv /\ pool = <<>> /\ MaxSubs \in Nat
  BY InitWatcherInv, ServerAssumption, Zenon DEF ServerInit, Init
<1> USE <1>0 DEF ServerInit
<1>1. \A c \in Clients : subs[c] = <<>> /\ DOMAIN subs[c] = {} /\ Len(subs[c]) = 0
  OBVIOUS
<1>2. subs \in [Clients -> Seq(Subscription)] /\ follows \in [Clients -> [Agents -> 0..MaxSubs]]
  OBVIOUS
<1>3. handler \in [Clients -> Handler] /\ \A c \in Clients : handler[c].pc = "idle"
  BY DEF AtRest, Handler
<1>4. bcast \in Broadcaster
  BY DEF NoBroadcast, Broadcaster
<1>5. view \in [Clients -> [1..MaxSubs -> View]]
  <2>1. NoView \in View
    BY DEF NoView, View
  <2> QED BY <2>1
<1>6. bufs \in Seq(Buffer) /\ Len(bufs) = Len(pool)
  OBVIOUS
<1>7. ServerTypeOK
  <2>1. \A c \in Clients : Len(subs[c]) <= MaxSubs
    BY <1>1
  <2>2. TypeOK /\ clients \subseteq Clients /\ closing \subseteq Clients /\ gos \subseteq Streamer
    BY DEF WatcherInv
  <2> HIDE <1>0 DEF ServerInit
  <2> QED BY <1>1, <1>2, <1>3, <1>4, <1>5, <1>6, <2>1, <2>2 DEF ServerTypeOK
<1>8. SubsOK /\ ChansApart /\ NobodyElseDetaches /\ ConversationIsExact
  BY <1>1 DEF SubsOK, ChansApart, NobodyElseDetaches, ConversationIsExact
<1>9. FollowsOK
  BY <1>1 DEF FollowsOK, FollowsOf
<1>10. HandlerOK
  BY <1>3 DEF HandlerOK, HandlerOf
<1>11. BroadcastOK /\ GosOK /\ ReadsOwn /\ StreamsInStep
  BY DEF BroadcastOK, GosOK, ReadsOwn, StreamsInStep
<1> QED BY <1>7, <1>8, <1>9, <1>10, <1>11 DEF ServerInv

LEMMA ServerInvStutters ==
  ASSUME ServerInv, UNCHANGED serverVars
  PROVE  ServerInv'
<1>1. /\ UNCHANGED <<bufs, clients, closing, subs, follows, handler, bcast, gos, view>>
      /\ UNCHANGED pool /\ UNCHANGED watcherVars
  BY DEF serverVars, clientVars, watcherVars
<1>2. WatcherInv'
  BY <1>1, NextWatcherInv DEF ServerInv
<1>3. ServerTypeOK'
  <2>1. TypeOK'
    BY <1>2 DEF WatcherInv
  <2> QED BY <1>1, <2>1 DEF ServerInv, ServerTypeOK, Made
<1>4. SubsOK' /\ ChansApart'
  BY <1>1 DEF ServerInv, SubsOK, ChansApart
<1>5. FollowsOK' /\ HandlerOK'
  BY <1>1 DEF ServerInv, FollowsOK, FollowsOf, Following, HandlerOK, HandlerOf
<1>6. BroadcastOK' /\ GosOK'
  BY <1>1 DEF ServerInv, BroadcastOK, GosOK
<1>7. ReadsOwn'
  BY <1>1 DEF ServerInv, ReadsOwn, Made
<1>8. StreamsInStep'
  BY <1>1, Zenon DEF ServerInv, StreamsInStep, InStep, Channel
<1>9. NobodyElseDetaches'
  BY <1>1, Zenon DEF ServerInv, NobodyElseDetaches, StreamedOnce, Channel
<1>10. ConversationIsExact'
  BY <1>1 DEF ServerInv, ConversationIsExact
<1> QED BY <1>2, <1>3, <1>4, <1>5, <1>6, <1>7, <1>8, <1>9, <1>10 DEF ServerInv

LEMMA ServerInvStep ==
  ASSUME ServerInv, ServerNext
  PROVE  ServerInv'
<1>1. WatcherInv'
  BY ServerStepMaps, NextWatcherInv DEF ServerInv
<1>2. ServerTypeOK' /\ SubsOK' /\ ChansApart'
  BY ServerTypesStep, SubsOKStep, ChansApartStep
<1>3. FollowsOK' /\ HandlerOK' /\ BroadcastOK' /\ GosOK' /\ ReadsOwn'
  BY FollowsStep, HandlerStep, BroadcastStep, GosStep, ReadsOwnStep
<1>4. StreamsInStep' /\ NobodyElseDetaches' /\ ConversationIsExact'
  BY StreamsStep, OpenStep, ExactStep
<1> QED BY <1>1, <1>2, <1>3, <1>4 DEF ServerInv

\* The invariant holds in every state of the server.
THEOREM ServerInvariant == ServerSpec => []ServerInv
<1>1. ServerInv /\ [ServerNext]_serverVars => ServerInv'
  BY ServerInvStep, ServerInvStutters
<1> QED BY <1>1, InitServerInv, PTL DEF ServerSpec

\* Types, and channels that exist: no goroutine reads a channel that no buffer
\* made.
THEOREM ServerTypes == ServerSpec => []ServerTypeOK
<1>1. ServerInv => ServerTypeOK
  BY DEF ServerInv
<1> QED BY <1>1, ServerInvariant, PTL

\* Two goroutines of a subscription do not both have a context that is not
\* cancelled.
LEMMA OneStream ==
  ASSUME ServerInv, NEW g \in gos, NEW h \in gos, g.client = h.client, g.sub = h.sub,
         ~Cancelled(g), ~Cancelled(h)
  PROVE  g = h
<1>0. GosOK /\ SubsOK /\ gos \subseteq Streamer
  BY DEF ServerInv, ServerTypeOK
<1>1. PICK c, s : c = g.client /\ s = g.sub
  OBVIOUS
<1>2. c \in Clients /\ s \in DOMAIN subs[c] /\ g.gen \in Nat /\ h.gen \in Nat
  BY <1>0, <1>1 DEF GosOK, Streamer
<1>3. subs[c][s].gen \in Nat
  BY <1>2, ConnectedNow, SubFacts
<1>4. /\ g.gen \in 1..subs[c][s].gen /\ h.gen \in 1..subs[c][s].gen
  BY <1>0, <1>1 DEF GosOK
<1>5. CASE subs[c][s].agent = None
  <2>1. subs[c][s].gen = 1
    BY <1>0, <1>2, <1>5 DEF SubsOK
  <2>2. g.gen = h.gen
    BY <1>4, <2>1
  <2> QED BY <1>0, <2>2 DEF GosOK
<1>6. CASE subs[c][s].agent # None
  <2>1. ~(g.gen < subs[c][s].gen) /\ ~(h.gen < subs[c][s].gen)
    BY <1>1, <1>6 DEF Cancelled
  <2>2. g.gen = h.gen
    BY <1>2, <1>3, <1>4, <2>1
  <2> QED BY <1>0, <2>2 DEF GosOK
<1> QED BY <1>5, <1>6

LEMMA FollowsMatchNow == ServerInv => FollowsMatchSubs
<1> SUFFICES ASSUME ServerInv, NEW c \in Clients
             PROVE  /\ \A a \in Agents : ~(handler[c].pc = "follow" /\ handler[c].agent = a) =>
                         {s \in DOMAIN subs[c] : subs[c][s].listed /\ subs[c][s].agent = a} =
                           {follows[c][a]} \ {0}
                    /\ \A s \in DOMAIN subs[c] :
                         Cardinality({g \in gos : g.client = c /\ g.sub = s /\ ~Cancelled(g)}) <= 1
  BY DEF FollowsMatchSubs
<1>0. FollowsOf(c) /\ subs[c] \in Seq(Subscription) /\ None \notin Agents
  BY WatcherAssumption DEF ServerInv, FollowsOK, ServerTypeOK
<1>1. ASSUME NEW a \in Agents, ~(handler[c].pc = "follow" /\ handler[c].agent = a)
      PROVE  {s \in DOMAIN subs[c] : subs[c][s].listed /\ subs[c][s].agent = a} =
               {follows[c][a]} \ {0}
  <2>1. ~Following(c, a)
    BY <1>1 DEF Following
  <2>2. ASSUME NEW s \in DOMAIN subs[c], subs[c][s].listed, subs[c][s].agent = a
        PROVE  s = follows[c][a] /\ s # 0
    <3>1. s # 0
      BY <1>0
    <3> QED BY <1>0, <2>2, <3>1 DEF FollowsOf
  <2>3. follows[c][a] # 0 =>
          /\ follows[c][a] \in DOMAIN subs[c] /\ subs[c][follows[c][a]].agent = a
          /\ subs[c][follows[c][a]].listed
    BY <1>0, <2>1 DEF FollowsOf
  <2> QED BY <2>2, <2>3
<1>2. ASSUME NEW s \in DOMAIN subs[c]
      PROVE  Cardinality({g \in gos : g.client = c /\ g.sub = s /\ ~Cancelled(g)}) <= 1
  <2> DEFINE S == {g \in gos : g.client = c /\ g.sub = s /\ ~Cancelled(g)}
  <2>1. \A g, h \in S : g = h
    BY OneStream
  <2>2. CASE S = {}
    <3>1. Cardinality(S) = 0
      BY <2>2, FS_EmptySet
    <3> QED BY <3>1
  <2>3. CASE S # {}
    <3>1. PICK g \in S : TRUE
      BY <2>3
    <3>2. S = {g}
      BY <2>1, <3>1
    <3>3. Cardinality(S) = 1
      <4> HIDE DEF S
      <4> QED BY <3>2, FS_Singleton, Zenon
    <3> QED BY <3>3
  <2> QED BY <2>2, <2>3
<1> QED BY <1>1, <1>2

\* c.follows has one follow per agent and client, the one in c.subs, and a
\* subscription has one stream at most that is not cancelled.
THEOREM FollowsMatch == ServerSpec => []FollowsMatchSubs
  BY FollowsMatchNow, ServerInvariant, PTL

\* No other client, and no step of the server, detaches the subscription of a
\* conversation that was streamed once.
THEOREM NobodyDetaches == ServerSpec => []NobodyElseDetaches
<1>1. ServerInv => NobodyElseDetaches
  BY DEF ServerInv
<1> QED BY <1>1, ServerInvariant, PTL

\* The subscriber of a conversation is sent each event after its snapshot, once
\* and in order, under the conversation's own name.
THEOREM ExactStream == ServerSpec => []ConversationIsExact
<1>1. ServerInv => ConversationIsExact
  BY DEF ServerInv
<1> QED BY <1>1, ServerInvariant, PTL

----------------------------------------------------------------------------
(* Wake-ups of pending follows. *)

\* A file that is created or written changes no conversation, and no discovery
\* but for the events it holds.
LEMMA EnvironmentMoves ==
  ASSUME WatcherInv, Environment
  PROVE  /\ UNCHANGED <<active, events, pool, loop, streams>>
         /\ \A w \in Workers : /\ workers'[w].pc = workers[w].pc
                               /\ workers[w].pc # "swap" => workers'[w] = workers[w]
<1>0. workers \in [Workers -> Worker]
  BY DEF WatcherInv, TypeOK
<1>1. UNCHANGED <<active, events, pool, loop, streams>>
  BY Zenon DEF Environment, AgentAdded, AgentRemoved, CreateFile, WriteFile
<1>2. ASSUME NEW w \in Workers, ~UNCHANGED workers
      PROVE  /\ workers'[w].pc = workers[w].pc
             /\ workers[w].pc # "swap" => workers'[w] = workers[w]
  <2>1. PICK f \in Files : CreateFile(f)
    BY <1>2, Zenon DEF Environment, AgentAdded, AgentRemoved, WriteFile
  <2>2. workers'[w] = IF workers[w].pc = "swap" /\ workers[w].agent = Owner[f]
                      THEN [workers[w] EXCEPT !.held = @ + 1] ELSE workers[w]
    BY <2>1 DEF CreateFile
  <2>3. [workers[w] EXCEPT !.held = @ + 1].pc = workers[w].pc
    <3>1. workers[w] \in Worker
      BY <1>0
    <3> QED BY <3>1 DEF Worker
  <2> QED BY <2>2, <2>3
<1> QED BY <1>1, <1>2

\* The event that f became agent a's conversation is on its way to Broadcast,
OnTheWay(a, f) ==
  \/ \E w \in Workers : workers[w].pc = "emit" /\ workers[w].agent = a /\ workers[w].main = f
  \/ \E k \in DOMAIN events : events[k].agent = a /\ events[k].new = f

\* or Broadcast has it in hand and has not been to client c.
InHand(c, a, f) ==
  /\ bcast # NoBroadcast /\ bcast.event.agent = a /\ bcast.event.new = f
  /\ c \in bcast.todo

\* Client c has, or is about to have, a follow of agent a without a stream of
\* its active conversation.
Awaits(c, a) ==
  \/ Pending(c, a)
  \/ Following(c, a) /\ handler[c].conv # active[a]

\* What must come is the event of the conversation that is active now.
Woken ==
  \A c \in clients : \A a \in Agents :
    active[a] # None /\ Awaits(c, a) => OnTheWay(a, active[a]) \/ InHand(c, a, active[a])

\* A step of the watcher keeps the event on its way, or sends another one.
LEMMA WatcherWakes ==
  ASSUME WatcherInv, WatcherNext, NEW a \in Agents, NEW f, f = active'[a], f # None
  PROVE  OnTheWay(a, f)' \/ (active[a] = f /\ (OnTheWay(a, f) => OnTheWay(a, f)'))
<1>0. /\ active \in [Agents -> Files \cup {None}] /\ workers \in [Workers -> Worker]
      /\ events \in Seq(LifecycleEvent)
  BY DEF WatcherInv, TypeOK
\* It is enough that active stays, and so do events and discoveries at "emit".
<1>a. ASSUME active' = active, \A w \in Workers : workers[w].pc = "emit" => workers'[w] = workers[w],
             events' = events \/ \E e : events' = Append(events, e)
      PROVE  active[a] = f /\ (OnTheWay(a, f) => OnTheWay(a, f)')
  <2>1. \A k \in DOMAIN events : k \in DOMAIN events' /\ events'[k] = events[k]
    <3>1. CASE events' = events
      BY <3>1
    <3>2. CASE events' # events
      <4>1. PICK e : events' = Append(events, e)
        BY <1>a, <3>2
      <4> QED BY <1>0, <4>1
    <3> QED BY <3>1, <3>2
  <2> QED BY <1>a, <2>1 DEF OnTheWay
<1>1. CASE Environment
  BY <1>a, <1>1, EnvironmentMoves
<1>2. ASSUME active' = active, events' = events \/ \E e : events' = Append(events, e),
             workers' = workers \/ \E b : Spawn(b)
      PROVE  active[a] = f /\ (OnTheWay(a, f) => OnTheWay(a, f)')
  <2>1. CASE workers' = workers
    BY <1>0, <1>2, <1>a, <2>1
  <2>2. CASE workers' # workers
    <3>1. PICK b : Spawn(b)
      BY <1>2, <2>2
    <3>2. PICK u \in Workers : workers[u].pc = "idle"
                               /\ workers' = [workers EXCEPT ![u] = Job("scan", b, {})]
      BY <3>1, Zenon DEF Spawn
    <3> QED BY <1>0, <1>2, <1>a, <3>2
  <2> QED BY <2>1, <2>2
<1>3. CASE WatchLoop
  <2>1. CASE LoopRemoved
    <3>1. UNCHANGED <<events, workers>>
      BY <2>1 DEF LoopRemoved
    <3>2. active[a] = f
      BY <1>0, <2>1, Zenon DEF LoopRemoved
    <3> QED BY <3>1, <3>2 DEF OnTheWay
  <2>2. CASE \E b \in Agents : StartAgent(b)
    BY <1>2, <2>2 DEF StartAgent
  <2>3. CASE LoopAdded
    BY <1>2, <2>3 DEF LoopAdded
  <2>4. CASE StartDone \/ LoopCancel \/ LoopEmitRemoved
    BY <1>2, <2>4 DEF StartDone, LoopCancel, LoopEmitRemoved
  <2> QED BY <1>3, <2>1, <2>2, <2>3, <2>4 DEF WatchLoop
<1>4. CASE \E b \in Agents : DirEvent(b)
  BY <1>2, <1>4 DEF DirEvent
<1>5. ASSUME NEW w \in Workers, Discovery(w)
      PROVE  OnTheWay(a, f)' \/ (active[a] = f /\ (OnTheWay(a, f) => OnTheWay(a, f)'))
  <2>1. CASE InstallMain(w)
    <3>1. /\ active' = [active EXCEPT ![workers[w].agent] = workers[w].main]
          /\ workers'[w].pc = "emit" /\ workers'[w].agent = workers[w].agent
          /\ workers'[w].main = workers[w].main
      BY <1>0, <2>1 DEF InstallMain, Worker
    <3>2. CASE workers[w].agent = a
      BY <1>0, <3>1, <3>2 DEF OnTheWay
    <3>3. CASE workers[w].agent # a
      <4>1. active[a] = f /\ events' = events
        BY <1>0, <2>1, <3>1, <3>3 DEF InstallMain
      <4>2. \A v \in Workers : workers[v].pc = "emit" => workers'[v] = workers[v]
        BY <1>0, <2>1 DEF InstallMain
      <4> QED BY <4>1, <4>2 DEF OnTheWay
    <3> QED BY <3>2, <3>3
  <2>2. CASE Emit(w)
    <3>1. PICK e : e = [type |-> IF workers[w].old = None THEN "conversation-started"
                                 ELSE "conversation-switched",
                        agent |-> workers[w].agent, old |-> workers[w].old,
                        new |-> workers[w].main]
      BY Zenon
    <3>2. events' = Append(events, e) /\ active' = active
      BY <2>2, <3>1 DEF Emit
    <3>3. Len(events) + 1 \in DOMAIN events' /\ events'[Len(events) + 1] = e
      BY <1>0, <3>2
    <3>4. \A k \in DOMAIN events : k \in DOMAIN events' /\ events'[k] = events[k]
      BY <1>0, <3>2
    <3>5. \A v \in Workers : v # w => workers'[v] = workers[v]
      BY <1>0, <2>2 DEF Emit
    <3>6. e.agent = workers[w].agent /\ e.new = workers[w].main
      BY <3>1
    <3> QED BY <3>2, <3>3, <3>4, <3>5, <3>6 DEF OnTheWay
  <2>3. ASSUME \/ Scan(w) \/ Watch(w) \/ Swap(w) \/ Retry(w) \/ TailerFails(w)
               \/ \E g \in Files : InstallSub(w, g)
        PROVE  active[a] = f /\ (OnTheWay(a, f) => OnTheWay(a, f)')
    <3>1. active' = active /\ events' = events /\ workers[w].pc # "emit"
      BY <2>3, Zenon DEF Scan, Watch, Swap, Retry, TailerFails, InstallSub
    <3>2. \A v \in Workers : v # w => workers'[v] = workers[v]
      BY <1>0, <2>3, Zenon DEF Scan, Watch, Swap, Retry, TailerFails, InstallSub
    <3> QED BY <3>1, <3>2 DEF OnTheWay
  <2> QED BY <1>5, <2>1, <2>2, <2>3 DEF Discovery
<1> QED BY <1>1, <1>3, <1>4, <1>5 DEF WatcherNext

\* A client's follow of an agent stays the same, is given up, or is the one
\* that its handler registers.
LEMMA FollowKinds ==
  ASSUME ServerInv, ServerNext, NEW c \in Clients, NEW a \in Agents, c \in clients'
  PROVE  \/ follows'[c][a] = follows[c][a] \/ follows'[c][a] = 0
         \/ FollowRegister(c) /\ handler[c].agent = a
<1>0. follows \in [Clients -> [Agents -> 0..MaxSubs]]
  BY DEF ServerInv, ServerTypeOK
<1>1. ASSUME NEW d \in Clients, DeliverStarted(d) \/ DeliverSwitched(d) \/ DeliverSwitchedTo(d)
      PROVE  follows' = follows
  BY <1>1 DEF DeliverStarted, DeliverSwitched, DeliverSwitchedTo
<1>2. ASSUME NEW d \in Clients, d # c, Client(d)
      PROVE  follows'[c] = follows[c]
  BY <1>2, Others
<1>3. CASE Client(c)
  <2>1. CASE \E b \in Agents : FollowAgent(c, b) \/ UnsubscribeAgent(c, b)
    BY <1>0, <2>1 DEF FollowAgent, UnsubscribeAgent
  <2>2. CASE FollowRegister(c)
    BY <1>0, <2>2 DEF FollowRegister
  <2>3. CASE FollowReply(c) \/ Disconnect(c) \/ \E f \in Files : SubscribeConversation(c, f)
    BY <2>3 DEF FollowReply, Disconnect, SubscribeConversation
  <2>4. CASE \E s \in 1..MaxSubs : Unsubscribe(c, s)
    <3>1. PICK b : follows' = follows \/ follows' = [follows EXCEPT ![c][b] = 0]
      BY <2>4, Zenon DEF Unsubscribe
    <3> QED BY <1>0, <3>1
  <2>5. CASE RemoveClient(c)
    BY <2>5 DEF RemoveClient
  <2> QED BY <1>3, <2>1, <2>2, <2>3, <2>4, <2>5 DEF Client
<1> QED BY <1>1, <1>2, <1>3, OthersStep

\* While the active conversation stays, no step makes a client wait for it.
LEMMA AwaitsKept ==
  ASSUME ServerInv, ServerNext, NEW c \in Clients, NEW a \in Agents, c \in clients',
         active'[a] = active[a], active[a] # None, Awaits(c, a)'
  PROVE  Awaits(c, a)
<1>0. /\ ServerTypeOK /\ HandlerOK /\ FollowsOf(c) /\ MainStreamIsActive
      /\ handler \in [Clients -> Handler]
      /\ subs \in [Clients -> Seq(Subscription)]
      /\ active \in [Agents -> Files \cup {None}]
  BY Zenon DEF ServerInv, ServerTypeOK, FollowsOK, WatcherInv, TypeOK
<1>1. streams[active[a]] # 0
  BY <1>0 DEF MainStreamIsActive
<1>2. CASE Following(c, a)' /\ handler'[c].conv # active'[a]
  <2>1. ASSUME NEW b \in Agents, FollowAgent(c, b)
        PROVE  FALSE
    <3>1. handler'[c].agent = b /\ handler'[c].conv = active[b]
      BY <1>0, <2>1 DEF FollowAgent, AtRest
    <3> QED BY <1>2, <3>1 DEF Following
  <2>2. ~FollowRegister(c) /\ ~FollowReply(c)
    <3>1. ASSUME FollowRegister(c) PROVE handler'[c].pc = "reply"
      BY <1>0, <3>1, FollowRegisters
    <3>2. ASSUME FollowReply(c) PROVE handler'[c].pc = "idle"
      BY <1>0, <3>2 DEF FollowReply, AtRest
    <3> QED BY <1>2, <3>1, <3>2 DEF Following
  <2>3. handler'[c] = handler[c]
    BY <2>1, <2>2, HandlerKinds
  <2> QED BY <1>2, <2>3 DEF Following, Awaits
<1>3. CASE Pending(c, a)'
  <2>1. CASE follows'[c][a] = follows[c][a]
    <3>1. follows[c][a] # 0 /\ subs'[c][follows[c][a]].conv = None
      BY <1>3, <2>1 DEF Pending
    <3>2. follows[c][a] \in DOMAIN subs[c]
      BY <1>0, <3>1 DEF FollowsOf
    <3>3. SubMoves(subs[c][follows[c][a]], subs'[c][follows[c][a]])
      BY <3>2, SubsStep
    <3> QED BY <3>1, <3>3 DEF SubMoves, Pending, Awaits
  <2>2. CASE FollowRegister(c) /\ handler[c].agent = a
    <3>1. PICK x, i : Registers(c, x, i)
      BY <2>2, FollowRegisters
    <3>2. PICK n : n = Len(subs[c])
      BY Zenon
    <3>3. subs'[c][n + 1] = x /\ follows'[c][a] = n + 1
      <4>1. x \in Subscription /\ subs' = [subs EXCEPT ![c] = Append(subs[c], x)]
        BY <3>1 DEF Registers
      <4>2. follows \in [Clients -> [Agents -> 0..MaxSubs]]
        BY <1>0 DEF ServerTypeOK
      <4>3. subs'[c][n + 1] = x
        BY <1>0, <3>2, <4>1, NewSub
      <4> QED BY <2>2, <3>2, <4>2, <4>3 DEF FollowRegister
    <3>4. x.conv = None
      BY <1>3, <3>3 DEF Pending
    <3>5. handler[c].conv # active[a]
      <4>1. SUFFICES ASSUME handler[c].conv = active[a] PROVE FALSE
        OBVIOUS
      <4>2. subs' = [subs EXCEPT ![c] = Append(@, Fresh(handler[c].agent, active[a],
                                                   NextChan(streams[active[a]]), 1))]
        BY <1>1, <2>2, <4>1 DEF FollowRegister
      <4>3. x = Fresh(handler[c].agent, active[a], NextChan(streams[active[a]]), 1)
        BY <1>0, <3>2, <3>3, <4>2
      <4> QED BY <3>4, <4>3 DEF Fresh
    <3>6. Following(c, a)
      BY <2>2 DEF FollowRegister, Following
    <3> QED BY <3>5, <3>6 DEF Awaits
  <2>3. follows'[c][a] # 0
    BY <1>3 DEF Pending
  <2> QED BY <2>1, <2>2, <2>3, FollowKinds
<1> QED BY <1>2, <1>3 DEF Awaits

\* Broadcast is through with a client: it still has the event for the others.
LEMMA ServedKeeps ==
  ASSUME bcast \in Broadcaster, NEW d, bcast' = Served(d), NEW c, c # d, NEW a, NEW f,
         InHand(c, a, f)
  PROVE  InHand(c, a, f)'
<1>1. bcast.todo # {d}
  BY DEF InHand
<1>2. bcast' = [bcast EXCEPT !.todo = @ \ {d}, !.at = None]
  BY <1>1 DEF Served
<1>3. bcast'.event = bcast.event /\ bcast'.todo = bcast.todo \ {d} /\ c \in bcast'.todo
  BY <1>2 DEF Broadcaster, InHand
<1>4. bcast' # NoBroadcast
  BY <1>3 DEF NoBroadcast
<1> QED BY <1>3, <1>4 DEF InHand

\* When Broadcast comes to a client with the event of the active conversation,
\* the client stops waiting or keeps Broadcast with it.
LEMMA DeliverWakes ==
  ASSUME ServerInv, NEW d \in Clients,
         DeliverStarted(d) \/ DeliverSwitched(d) \/ DeliverSwitchedTo(d),
         NEW c \in Clients, NEW a \in Agents, NEW f, f = active[a], f # None,
         InHand(c, a, f), Awaits(c, a)'
  PROVE  InHand(c, a, f)'
<1>0. /\ ServerTypeOK /\ HandlerOK /\ BroadcastOK /\ FollowsOf(d) /\ MainStreamIsActive
      /\ bcast \in Broadcaster /\ active \in [Agents -> Files \cup {None}]
      /\ subs \in [Clients -> Seq(Subscription)] /\ None \notin Clients
      /\ UNCHANGED <<active, streams, follows, handler>>
  BY ServerAssumption, Zenon
  DEF ServerInv, ServerTypeOK, FollowsOK, WatcherInv, TypeOK, DeliverStarted, DeliverSwitched,
      DeliverSwitchedTo, watcherVars
<1>1. streams[f] # 0 /\ bcast.event.agent = a /\ bcast.event.new = f
  BY <1>0 DEF MainStreamIsActive, InHand
<1>2. CASE DeliverSwitched(d) /\ bcast' # Served(d)
  <2>1. bcast' = [bcast EXCEPT !.at = d]
    BY <1>2 DEF DeliverSwitched
  <2>2. bcast'.event = bcast.event /\ bcast'.todo = bcast.todo
    BY <1>0, <2>1 DEF Broadcaster
  <2>3. bcast' # NoBroadcast
    BY <2>2 DEF NoBroadcast, InHand
  <2> QED BY <2>2, <2>3 DEF InHand
<1>3. CASE bcast' = Served(d) /\ c # d
  BY <1>0, <1>3, ServedKeeps
<1>4. ASSUME bcast' = Served(d), c = d
      PROVE  FALSE
  <2>1. ~Following(c, a)'
    <3>1. handler[c].pc # "follow"
      BY <1>0, <1>4, AtClient DEF Free, HandlerOK, HandlerOf
    <3> QED BY <1>0, <3>1 DEF Following
  <2>2. Pending(c, a)'
    BY <2>1 DEF Awaits
  <2> DEFINE s == follows[c][a]
  <2>3. s # 0 /\ subs'[c][s].conv = None
    BY <1>0, <2>2 DEF Pending
  <2>4. s \in DOMAIN subs[c]
    BY <1>0, <1>4, <2>3 DEF FollowsOf
  <2>5. SubMoves(subs[c][s], subs'[c][s])
    <3>1. ServerNext
      BY DEF ServerNext, Broadcast
    <3> QED BY <2>4, <3>1, SubsStep
  <2>6. subs[c][s].conv = None
    BY <2>3, <2>5 DEF SubMoves
  <2>7. ~DeliverSwitched(d)
    <3>1. SUFFICES ASSUME DeliverSwitched(d) PROVE FALSE
      OBVIOUS
    <3>2. bcast' = [bcast EXCEPT !.at = d]
      BY <1>1, <1>4, <2>3, <3>1 DEF DeliverSwitched
    <3>3. bcast'.at = d
      BY <1>0, <3>2 DEF Broadcaster
    <3>4. Served(d).at = None
      BY <1>0 DEF Served, NoBroadcast, Broadcaster
    <3> QED BY <1>0, <1>4, <3>3, <3>4
  <2>8. Attach(c, s, f, streams[f])
    BY <1>1, <1>4, <2>3, <2>6, <2>7 DEF DeliverStarted, DeliverSwitchedTo
  <2>9. f \in Files
    BY <1>0
  <2>10. subs'[c][s].conv = f
    <3>1. PICK x : x.conv = f /\ subs' = [subs EXCEPT ![c][s] = x]
      BY <2>8, Zenon DEF Attach
    <3>2. subs[c] \in Seq(Subscription)
      BY <1>0
    <3> QED BY <1>0, <2>4, <3>1, <3>2
  <2> QED BY <2>3, <2>10
<1> QED BY <1>2, <1>3, <1>4 DEF DeliverStarted, DeliverSwitchedTo

\* Broadcast takes the next event.
LEMMA NextWakes ==
  ASSUME ServerInv, BroadcastNext, NEW c \in clients, NEW a, NEW f, f # None,
         OnTheWay(a, f) \/ InHand(c, a, f)
  PROVE  OnTheWay(a, f)' \/ InHand(c, a, f)'
<1>0. events \in Seq(LifecycleEvent) /\ events # <<>> /\ events' = Tail(events)
      /\ workers' = workers /\ bcast = NoBroadcast
  BY DEF ServerInv, WatcherInv, TypeOK, BroadcastNext
<1>1. CASE \E w \in Workers : workers[w].pc = "emit" /\ workers[w].agent = a /\ workers[w].main = f
  BY <1>0, <1>1 DEF OnTheWay
<1>2. ASSUME NEW k \in DOMAIN events, events[k].agent = a, events[k].new = f
      PROVE  OnTheWay(a, f)' \/ InHand(c, a, f)'
  <2>1. CASE k = 1
    <3>1. PICK e : e = Head(events) /\ e.agent = a /\ e.new = f
      BY <1>0, <1>2, <2>1
    <3>2. bcast' = [event |-> e, todo |-> clients, at |-> None]
      BY <3>1 DEF BroadcastNext
    <3>3. bcast'.event = e /\ bcast'.todo = clients
      BY <3>2
    <3>4. bcast' # NoBroadcast
      BY <3>3 DEF NoBroadcast
    <3> QED BY <3>1, <3>3, <3>4 DEF InHand
  <2>2. CASE k # 1
    <3>1. k - 1 \in DOMAIN events' /\ events'[k - 1] = events[k]
      BY <1>0, <1>2, <2>2
    <3> QED BY <1>2, <3>1 DEF OnTheWay
  <2> QED BY <2>1, <2>2
<1> QED BY <1>0, <1>1, <1>2 DEF OnTheWay, InHand

\* The server itself only takes events from the watcher.
LEMMA WatcherAlone ==
  ASSUME ServerNext, ~Watcher
  PROVE  UNCHANGED <<active, streams, workers>> /\ (BroadcastNext \/ UNCHANGED events)
<1>1. CASE \E i \in DOMAIN pool : Pump(i)
  BY <1>1 DEF Pump, watcherVars
<1>2. CASE \E c \in Clients : Client(c)
  <2>1. UNCHANGED watcherVars
    BY <1>2, ZenonT(30) DEF Client, FollowAgent, UnsubscribeAgent, FollowRegister, FollowReply,
                SubscribeConversation, Unsubscribe, Disconnect, RemoveClient
  <2> QED BY <2>1 DEF watcherVars
<1>3. CASE BroadcastNext
  BY <1>3 DEF BroadcastNext
<1>4. CASE \E c \in Clients : DeliverStarted(c) \/ DeliverSwitched(c) \/ DeliverSwitchedTo(c)
  BY <1>4 DEF DeliverStarted, DeliverSwitched, DeliverSwitchedTo, watcherVars
<1>5. CASE Streaming
  BY <1>5 DEF Streaming, StreamEnter, StreamReceive, StreamSend, StreamDrop, StreamEnd, watcherVars
<1> QED BY <1>1, <1>2, <1>3, <1>4, <1>5 DEF ServerNext, Broadcast

LEMMA WokenStep ==
  ASSUME ServerInv, Woken, ServerNext
  PROVE  Woken'
<1>1. SUFFICES ASSUME NEW c \in clients', NEW a \in Agents, NEW f, f = active'[a], f # None,
                      Awaits(c, a)'
               PROVE  OnTheWay(a, f)' \/ InHand(c, a, f)'
  BY DEF Woken
<1>0. c \in clients /\ c \in Clients
  <2>1. clients' \subseteq clients /\ clients \subseteq Clients
    BY ZenonT(30) DEF ServerInv, ServerTypeOK, ServerNext, Watcher, Pump, Client, FollowAgent,
           UnsubscribeAgent, FollowRegister, FollowReply, SubscribeConversation, Unsubscribe,
           Disconnect, RemoveClient, Broadcast, BroadcastNext, DeliverStarted, DeliverSwitched,
           DeliverSwitchedTo, Streaming, StreamEnter, StreamReceive, StreamSend, StreamDrop, StreamEnd,
           clientVars
  <2> QED BY <1>1, <2>1
<1>2. CASE Watcher
  <2>1. WatcherInv /\ WatcherNext /\ UNCHANGED <<follows, subs, handler, bcast>>
    BY <1>2 DEF ServerInv, Watcher, clientVars
  <2>2. CASE active[a] = f
    <3>1. Awaits(c, a)
      BY <1>1, <2>1, <2>2 DEF Awaits, Pending, Following
    <3>2. OnTheWay(a, f) \/ InHand(c, a, f)
      BY <1>0, <1>1, <2>2, <3>1 DEF Woken
    <3>3. InHand(c, a, f) => InHand(c, a, f)'
      BY <2>1 DEF InHand
    <3> QED BY <1>1, <2>1, <3>2, <3>3, WatcherWakes
  <2> QED BY <1>1, <2>1, <2>2, WatcherWakes
<1>3. CASE ~Watcher
  <2>1. active' = active /\ workers' = workers
    BY <1>3, WatcherAlone
  <2>2. active'[a] = active[a] /\ active[a] # None /\ active[a] = f
    BY <1>1, <2>1
  <2>3. Awaits(c, a)
    BY <1>0, <1>1, <2>2, AwaitsKept, Zenon
  <2>4. OnTheWay(a, f) \/ InHand(c, a, f)
    BY <1>0, <2>2, <2>3 DEF Woken
  <2>5. CASE BroadcastNext
    BY <1>0, <1>1, <2>4, <2>5, NextWakes
  <2>6. CASE ~BroadcastNext
    <3>1. events' = events
      BY <1>3, <2>6, WatcherAlone
    <3>2. OnTheWay(a, f) => OnTheWay(a, f)'
      BY <2>1, <3>1 DEF OnTheWay
    <3>3. CASE \E d \in Clients : DeliverStarted(d) \/ DeliverSwitched(d) \/ DeliverSwitchedTo(d)
      BY <1>0, <1>1, <2>2, <2>4, <3>2, <3>3, DeliverWakes, Zenon
    <3>4. CASE ~\E d \in Clients : DeliverStarted(d) \/ DeliverSwitched(d) \/ DeliverSwitchedTo(d)
      <4>1. bcast' = bcast
        BY <1>3, <2>6, <3>4, ZenonT(30) DEF ServerNext, Pump, Client, FollowAgent,
           UnsubscribeAgent, FollowRegister, FollowReply, SubscribeConversation, Unsubscribe,
           Disconnect, RemoveClient, Broadcast,
           Streaming, StreamEnter, StreamReceive, StreamSend, StreamDrop, StreamEnd, clientVars
      <4> QED BY <2>4, <3>2, <4>1 DEF InHand
    <3> QED BY <3>3, <3>4
  <2> QED BY <2>5, <2>6
<1> QED BY <1>2, <1>3

\* No wake-up is lost: a follow that is pending while its agent has an active
\* conversation is one to which an event of that conversation is on its way,
\* however the handler's two halves, discoveries and broadcasts interleave.
THEOREM PendingIsWoken == ServerSpec => []PendingFollowIsWoken
<1>1. ServerInit => Woken
  BY DEF ServerInit, Init, Woken
<1>2. ServerInv /\ Woken /\ [ServerNext]_serverVars => Woken'
  <2>1. ASSUME Woken, UNCHANGED serverVars PROVE Woken'
    BY <2>1 DEF serverVars, clientVars, watcherVars, Woken, Awaits, Pending, Following,
                OnTheWay, InHand
  <2> QED BY <2>1, WokenStep
<1>3. Woken => PendingFollowIsWoken
  <2> SUFFICES ASSUME Woken, NEW c \in clients, NEW a \in Agents, Pending(c, a), active[a] # None
               PROVE  Coming(c, a)
    BY DEF PendingFollowIsWoken
  <2>1. OnTheWay(a, active[a]) \/ InHand(c, a, active[a])
    BY DEF Woken, Awaits
  <2> QED BY <2>1 DEF OnTheWay, InHand, Coming
<1> QED BY <1>1, <1>2, <1>3, ServerInvariant, PTL DEF ServerSpec


----------------------------------------------------------------------------
(* A follow goes where its agent goes. *)

\* While no agent has gone, watchLoop has none to stop.
NoRemovals ==
  /\ removes \in Nat
  /\ removes = 0 => /\ \A i \in DOMAIN regEvents : regEvents[i].type = "added"
                    /\ loop.pc \in {"start", "loop"}

\* An event of a conversation names a main one of its agent,
Names(e) ==
  /\ e.type = "conversation-switched" => e.new # None
  /\ e.new # None => e.new \in MainFilesOf(e.agent)

\* and so does what is on its way to become one, or was read by a handler.
Named ==
  /\ \A k \in DOMAIN events : Names(events[k])
  /\ bcast # NoBroadcast => Names(bcast.event)
  /\ bcast.at # None => bcast.event.type = "conversation-switched"
  /\ \A w \in Workers : workers[w].pc = "emit" => pool[workers[w].obj].conv = workers[w].main
  /\ \A c \in Clients : handler[c].pc = "follow" =>
       handler[c].conv \in MainFilesOf(handler[c].agent) \cup {None}

\* Discovery w is to send a switch of agent a,
Switching(w, a) == workers[w].pc = "emit" /\ workers[w].agent = a /\ workers[w].old # None

Held(a) == \E w \in Workers : Switching(w, a)

\* or it was sent, and is in the channel
SwitchOf(e, a) == e.type = "conversation-switched" /\ e.agent = a

Queued(a) == \E k \in DOMAIN events : SwitchOf(events[k], a)

\* or in Broadcast's hands.
Current(a) == bcast # NoBroadcast /\ SwitchOf(bcast.event, a)

\* An agent without a conversation has not switched.
FirstIsNoSwitch(a) == active[a] = None => ~Held(a) /\ ~Queued(a) /\ ~Current(a)

\* Of the switches not yet sent, the one to the newest stream is to the active
\* conversation, or it has been overtaken.
NewestIsActive(a) ==
  \A w \in Workers : Switching(w, a) /\ ~Overtaken(workers[w].obj) =>
    \/ workers[w].main = active[a]
    \/ \E v \in Workers : Switching(v, a) /\ workers[v].obj > workers[w].obj

\* The last switch on its way to the clients is to the active conversation.
LastIsActive(a) ==
  /\ \A k \in DOMAIN events : SwitchOf(events[k], a) =>
       \/ events[k].new = active[a]
       \/ \E j \in DOMAIN events : j > k /\ SwitchOf(events[j], a)
       \/ Held(a)
  /\ Current(a) => bcast.event.new = active[a] \/ Queued(a) \/ Held(a)

Switches(a) ==
  removes = 0 => /\ FirstIsNoSwitch(a) /\ NewestIsActive(a)
                 /\ InOrder(a) => LastIsActive(a)

\* A switch is still to come to client c.
SwitchFor(c, a) == Held(a) \/ Queued(a) \/ (Current(a) /\ c \in bcast.todo)

\* Client c's follow of agent a is on the active conversation,
OnTrack(c, a) ==
  /\ subs[c][follows[c][a]].conv = active[a]
  /\ ~subs[c][follows[c][a]].cancelled

\* or will be told.
Tracks(c, a) ==
  removes = 0 /\ InOrder(a) /\ follows[c][a] # 0 /\ ~Following(c, a)
    /\ subs[c][follows[c][a]].conv # None => SwitchFor(c, a) \/ OnTrack(c, a)

\* A stream is late because another overtook it.
LateOK == \A i \in DOMAIN pool : pool[i].late => Overtaken(i)

\* A follow that streams conversation x.conv.
Live(x) ==
  x.listed /\ x.agent # None /\ x.conv # None /\ ~x.cancelled /\ StreamedOnce(x.conv)

\* Its channel is open,
OpenFollows ==
  \A c \in Clients : \A s \in DOMAIN subs[c] :
    Live(subs[c][s]) => Channel(subs[c][s].chan).open

\* and it has a goroutine, or the handler is about to start it.
Serving(g, c, s) ==
  /\ g.client = c /\ g.sub = s /\ g.gen = subs[c][s].gen
  /\ g.pc # "enter" => g.chan = subs[c][s].chan

AboutToServe(c, s) ==
  /\ handler[c].pc = "reply" /\ handler[c].conv # None
  /\ s = Len(subs[c]) /\ subs[c][s].gen = 1

Streamed ==
  \A c \in Clients \ closing : \A s \in DOMAIN subs[c] :
    Live(subs[c][s]) => (\E g \in gos : Serving(g, c, s)) \/ AboutToServe(c, s)

TrackInv ==
  /\ NoRemovals /\ Named /\ LateOK
  /\ \A a \in Agents : Switches(a)
  /\ \A c \in clients : \A a \in Agents : Tracks(c, a)
  /\ OpenFollows /\ Streamed

\* What a step of the watcher does to conversations and to their switches.
Calm ==
  /\ active' = active
  /\ \A w \in Workers : workers[w].pc = "emit" \/ workers'[w].pc = "emit" =>
       workers'[w] = workers[w]
  /\ \/ events' = events
     \/ \E type \in EventTypes, b \in Agents :
          /\ type \in {"agent-added", "agent-removed"}
          /\ events' = Append(events, Lifecycle(type, b))

LEMMA WatcherMoves ==
  ASSUME WatcherInv, WatcherNext, ~LoopRemoved
  PROVE  \/ Calm
         \/ \E w \in Workers : InstallMain(w) \/ Emit(w)
<1>0. /\ workers \in [Workers -> Worker] /\ WorkersOK /\ LoopOK
      /\ regEvents \in Seq([type : {"added", "removed"}, agent : Agents])
  BY DEF WatcherInv, TypeOK
<1>a. ASSUME NEW b, Spawn(b)
      PROVE  \A w \in Workers : workers[w].pc = "emit" \/ workers'[w].pc = "emit" =>
               workers'[w] = workers[w]
  <2>1. PICK u \in Workers : workers[u].pc = "idle"
                             /\ workers' = [workers EXCEPT ![u] = Job("scan", b, {})]
    BY <1>a, Zenon DEF Spawn
  <2> QED BY <1>0, <2>1 DEF Job
<1>b. ASSUME NEW w \in Workers, NEW k, workers[w].pc # "emit", k.pc # "emit",
             workers' = [workers EXCEPT ![w] = k]
      PROVE  \A v \in Workers : workers[v].pc = "emit" \/ workers'[v].pc = "emit" =>
               workers'[v] = workers[v]
  BY <1>0, <1>b
<1>1. CASE Environment
  <2>1. /\ active' = active /\ events' = events
        /\ \A w \in Workers : /\ workers'[w].pc = workers[w].pc
                              /\ workers[w].pc # "swap" => workers'[w] = workers[w]
    BY <1>1, EnvironmentMoves
  <2> QED BY <2>1 DEF Calm
<1>2. CASE \E b \in Agents : StartAgent(b)
  BY <1>a, <1>2 DEF StartAgent, Calm, EventTypes
<1>3. CASE LoopAdded
  <2>1. PICK b : b = Head(regEvents).agent
    OBVIOUS
  <2>2. b \in Agents
    <3>1. regEvents # <<>>
      BY <1>3 DEF LoopAdded
    <3> QED BY <2>1, <3>1, RegistryFacts DEF WatcherInv
  <2>3. Spawn(b) /\ events' = Append(events, Lifecycle("agent-added", b)) /\ active' = active
    BY <1>3, <2>1 DEF LoopAdded
  <2> QED BY <1>a, <2>2, <2>3 DEF Calm, EventTypes
<1>4. CASE StartDone \/ LoopCancel \/ LoopEmitRemoved
  BY <1>0, <1>4 DEF StartDone, LoopCancel, LoopEmitRemoved, Calm, EventTypes, LoopOK
<1>5. CASE \E b \in Agents : DirEvent(b)
  BY <1>a, <1>5 DEF DirEvent, Calm
<1>6. ASSUME NEW w \in Workers, Scan(w) \/ Watch(w) \/ Swap(w) \/ Retry(w)
      PROVE  Calm
  <2>1. workers[w].pc # "emit" /\ active' = active /\ events' = events
    BY <1>6, Zenon DEF Scan, Watch, Swap, Retry
  <2>2. workers'[w].pc # "emit"
    <3>1. ASSUME Scan(w) PROVE workers'[w].pc = "watch"
      <4>1. PICK m, s : workers' = [workers EXCEPT ![w].pc = "watch", ![w].main = m, ![w].subs = s]
        BY <3>1, Zenon DEF Scan
      <4> QED BY <1>0, <4>1 DEF Worker
    <3>2. ASSUME Watch(w) PROVE workers'[w].pc = "swap"
      BY <1>0, <3>2 DEF Watch, Worker
    <3>4. ASSUME Swap(w) PROVE workers'[w].pc \in {"retry", "install"}
      BY <1>0, <3>4 DEF Swap, Worker
    <3>3. ASSUME Retry(w) PROVE workers'[w].pc = "scan"
      BY <1>0, <3>3 DEF Retry, Worker
    <3> QED BY <1>6, <3>1, <3>2, <3>3, <3>4
  <2>3. \A v \in Workers : v # w => workers'[v] = workers[v]
    BY <1>0, <1>6, Zenon DEF Scan, Watch, Swap, Retry
  <2> QED BY <2>1, <2>2, <2>3 DEF Calm
<1>7. ASSUME NEW w \in Workers, TailerFails(w) \/ \E g \in Files : InstallSub(w, g)
      PROVE  Calm
  <2>1. PICK ss : workers' = [workers EXCEPT ![w] = Rest(w, ss)]
    BY <1>7, Zenon DEF TailerFails, InstallSub
  <2>2. workers[w].pc # "emit" /\ active' = active /\ events' = events
    BY <1>7, Zenon DEF TailerFails, InstallSub
  <2>3. Rest(w, ss).pc # "emit"
    BY DEF Rest, Idle, Job
  <2>4. PICK k : k = Rest(w, ss)
    OBVIOUS
  <2> QED BY <1>b, <2>1, <2>2, <2>3, <2>4 DEF Calm
<1> QED BY <1>1, <1>2, <1>3, <1>4, <1>5, <1>6, <1>7 DEF WatcherNext, WatchLoop, Discovery

\* While no agent goes, watchLoop does not stop one.
LEMMA NoRemovalsStep ==
  ASSUME WatcherInv, NoRemovals, [Next]_watcherVars
  PROVE  NoRemovals' /\ (removes' = 0 => removes = 0 /\ ~LoopRemoved)
<1>0. regEvents \in Seq([type : {"added", "removed"}, agent : Agents]) /\ removes \in Nat
  BY DEF WatcherInv, TypeOK, NoRemovals
<1>1. removes' = removes \/ (removes' = removes + 1 /\ \E b \in Agents : AgentRemoved(b))
  BY Zenon DEF Next, WatcherNext, Environment, AgentAdded, AgentRemoved, CreateFile, WriteFile,
         WatchLoop, StartAgent, StartDone, LoopAdded, LoopRemoved, LoopCancel, LoopEmitRemoved,
         DirEvent, Discovery, Scan, Watch, Swap, Retry, InstallMain, InstallSub, TailerFails, Emit, Consume,
         watcherVars
<1>2. removes' \in Nat /\ (removes' = 0 => removes = 0 /\ removes' = removes)
  BY <1>0, <1>1
<1>3. SUFFICES ASSUME removes = 0, removes' = 0
               PROVE  /\ \A i \in DOMAIN regEvents' : regEvents'[i].type = "added"
                      /\ loop'.pc \in {"start", "loop"} /\ ~LoopRemoved
  BY <1>2 DEF NoRemovals
<1>4. /\ \A i \in DOMAIN regEvents : regEvents[i].type = "added"
      /\ loop.pc \in {"start", "loop"}
  BY <1>3 DEF NoRemovals
<1>5. ~LoopRemoved
  BY <1>0, <1>4 DEF LoopRemoved
<1>6. CASE \E b \in Agents : AgentAdded(b)
  <2>1. PICK r \in [type : {"added", "removed"}, agent : Agents] :
          r.type = "added" /\ regEvents' = Append(regEvents, r)
    BY <1>6 DEF AgentAdded
  <2>2. loop' = loop
    BY <1>6 DEF AgentAdded
  <2> QED BY <1>0, <1>4, <1>5, <2>1, <2>2
<1>7. CASE LoopAdded
  <2>1. loop' = loop /\ regEvents' = Tail(regEvents) /\ regEvents # <<>>
    BY <1>7 DEF LoopAdded
  <2>2. \A i \in DOMAIN regEvents' : i + 1 \in DOMAIN regEvents /\ regEvents'[i] = regEvents[i + 1]
    BY <1>0, <2>1
  <2> QED BY <1>4, <1>5, <2>1, <2>2
<1>8. CASE StartDone \/ \E b \in Agents : StartAgent(b)
  <2>1. loop \in Loop
    BY DEF WatcherInv, TypeOK
  <2>2. regEvents' = regEvents /\ loop'.pc \in {"start", "loop"}
    BY <1>4, <1>8, <2>1 DEF StartDone, StartAgent, Loop
  <2> QED BY <1>4, <1>5, <2>2
<1>9. CASE UNCHANGED <<regEvents, loop>>
  BY <1>4, <1>5, <1>9
<1>10. ~LoopCancel /\ ~LoopEmitRemoved
  BY <1>4 DEF LoopCancel, LoopEmitRemoved
<1>11. ~\E b \in Agents : AgentRemoved(b)
  BY <1>3 DEF AgentRemoved
<1>12. CASE \/ \E f \in Files : CreateFile(f) \/ WriteFile(f)
            \/ \E b \in Agents : DirEvent(b)
            \/ Consume
  BY <1>9, <1>12 DEF CreateFile, WriteFile, DirEvent, Consume
<1>13. CASE \E w \in Workers : Discovery(w)
  BY <1>9, <1>13, Zenon DEF Discovery, Scan, Watch, Swap, Retry, InstallMain, InstallSub, TailerFails, Emit
<1>14. CASE UNCHANGED watcherVars
  BY <1>9, <1>14 DEF watcherVars
<1> QED BY <1>5, <1>6, <1>7, <1>8, <1>10, <1>11, <1>12, <1>13, <1>14
        DEF Next, WatcherNext, Environment, WatchLoop

\* What was overtaken stays overtaken, and what came late stays late.
LEMMA OrderStep ==
  ASSUME WatcherInv, LateOK, [Next]_watcherVars
  PROVE  /\ LateOK'
         /\ \A i \in DOMAIN pool : i \in DOMAIN pool' /\ (Overtaken(i) => Overtaken(i)')
         /\ \A a \in Agents : InOrder(a)' => InOrder(a)
<1>1. PoolGrows
  BY PoolStep
<1>2. \A i \in DOMAIN pool : i \in DOMAIN pool' /\ (Overtaken(i) => Overtaken(i)')
  BY <1>1 DEF PoolGrows, Overtaken
<1>3. LateOK'
  BY <1>1, <1>2 DEF PoolGrows, LateOK
<1>4. ASSUME NEW a \in Agents, InOrder(a)'
      PROVE  InOrder(a)
  BY <1>1, <1>4 DEF PoolGrows, LateOK, InOrder
<1> QED BY <1>2, <1>3, <1>4

\* The server leaves the watcher alone, but for the events that it takes.
LEMMA ServerAlone ==
  ASSUME ServerInv, ServerNext, ~Watcher, ~BroadcastNext
  PROVE  /\ UNCHANGED watcherVars
         /\ bcast' # NoBroadcast => bcast # NoBroadcast /\ bcast'.event = bcast.event
         /\ bcast'.at # None => /\ bcast'.event = bcast.event
                                /\ bcast' = bcast \/ bcast.event.type = "conversation-switched"
<1>0. bcast \in Broadcaster /\ ServerTypeOK
  BY DEF ServerInv, ServerTypeOK
<1>1. CASE \E i \in DOMAIN pool : Pump(i)
  BY <1>1 DEF Pump, clientVars
<1>2. CASE \E c \in Clients : Client(c)
  BY <1>2, ZenonT(30) DEF Client, FollowAgent, UnsubscribeAgent, FollowRegister, FollowReply,
              SubscribeConversation, Unsubscribe, Disconnect, RemoveClient
<1>3. ASSUME NEW d \in Clients, DeliverStarted(d) \/ DeliverSwitched(d) \/ DeliverSwitchedTo(d)
      PROVE  /\ UNCHANGED watcherVars
             /\ bcast' # NoBroadcast => bcast # NoBroadcast /\ bcast'.event = bcast.event
             /\ bcast'.at # None => bcast.event.type = "conversation-switched"
                                    /\ bcast'.event = bcast.event
  <2>0. UNCHANGED watcherVars
    BY <1>3 DEF DeliverStarted, DeliverSwitched, DeliverSwitchedTo
  <2>1. bcast # NoBroadcast
    BY <1>0, <1>3, AtClient
  <2>2. CASE bcast' = Served(d)
    BY <1>0, <2>0, <2>1, <2>2 DEF Served, NoBroadcast, Broadcaster
  <2>3. CASE bcast' # Served(d)
    <3>1. bcast' = [bcast EXCEPT !.at = d] /\ bcast.event.type = "conversation-switched"
      BY <1>3, <2>3 DEF DeliverStarted, DeliverSwitched, DeliverSwitchedTo
    <3> QED BY <1>0, <2>0, <2>1, <3>1 DEF Broadcaster
  <2> QED BY <2>2, <2>3
<1>4. CASE Streaming
  BY <1>4 DEF Streaming, StreamEnter, StreamReceive, StreamSend, StreamDrop, StreamEnd
<1> QED BY <1>1, <1>2, <1>3, <1>4 DEF ServerNext, Broadcast

\* Broadcast takes the first event.
LEMMA NextFacts ==
  ASSUME ServerInv, BroadcastNext, NEW e, e = Head(events)
  PROVE  /\ 1 \in DOMAIN events /\ e = events[1]
         /\ \A k \in DOMAIN events' : k + 1 \in DOMAIN events /\ events'[k] = events[k + 1]
         /\ \A k \in DOMAIN events : k # 1 => k - 1 \in DOMAIN events' /\ events'[k - 1] = events[k]
         /\ \A k \in DOMAIN events : k \in Nat
         /\ bcast = NoBroadcast /\ bcast'.at = None
         /\ bcast' # NoBroadcast => bcast'.event = e /\ bcast'.todo = clients
         /\ e.new # None /\ clients # {} => bcast' # NoBroadcast
<1>1. events \in Seq(LifecycleEvent) /\ events # <<>> /\ events' = Tail(events)
  BY DEF ServerInv, WatcherInv, TypeOK, BroadcastNext
<1>2. \/ bcast' = NoBroadcast /\ (e.new = None \/ clients = {})
      \/ bcast' = [event |-> e, todo |-> clients, at |-> None] /\ clients # {}
  BY DEF BroadcastNext
<1>3. /\ bcast'.at = None
      /\ bcast' # NoBroadcast => bcast'.event = e /\ bcast'.todo = clients
      /\ e.new # None /\ clients # {} => bcast' # NoBroadcast
  BY <1>2 DEF NoBroadcast
<1>4. bcast = NoBroadcast
  BY DEF BroadcastNext
<1> QED BY <1>1, <1>3, <1>4

\* What is said of events and of handlers stays true.
LEMMA NamedStep ==
  ASSUME ServerInv, Named, ServerNext
  PROVE  Named'
<1>0. /\ WatcherInv /\ ServerTypeOK /\ PoolGrows
      /\ events \in Seq(LifecycleEvent) /\ workers \in [Workers -> Worker]
      /\ active \in [Agents -> Files \cup {None}] /\ handler \in [Clients -> Handler]
      /\ bcast \in Broadcaster /\ WorkersOK /\ pool \in Seq(Stream)
      /\ None \notin Clients
  BY ServerStepMaps, PoolStep, ServerAssumption, Zenon DEF ServerInv, WatcherInv, TypeOK, ServerTypeOK
<1>1. ASSUME NEW c \in Clients, handler'[c].pc = "follow"
      PROVE  handler'[c].conv \in MainFilesOf(handler'[c].agent) \cup {None}
  <2>1. ASSUME NEW b \in Agents, FollowAgent(c, b)
        PROVE  handler'[c].conv \in MainFilesOf(handler'[c].agent) \cup {None}
    <3>1. handler'[c].agent = b /\ handler'[c].conv = active[b]
      BY <1>0, <2>1 DEF FollowAgent, AtRest
    <3> QED BY <1>0, <3>1 DEF WatcherInv, ActiveIsMain
  <2>2. ASSUME FollowRegister(c) PROVE handler'[c].pc = "reply"
    BY <1>0, <2>2, FollowRegisters
  <2>3. ASSUME FollowReply(c) PROVE handler'[c].pc = "idle"
    BY <1>0, <2>3 DEF FollowReply, AtRest
  <2>4. CASE handler'[c] = handler[c]
    BY <1>1, <2>4 DEF Named
  <2> QED BY <1>1, <2>1, <2>2, <2>3, <2>4, HandlerKinds
<1>2. CASE Watcher
  <2>0. WatcherNext /\ UNCHANGED <<bcast, handler>>
    BY <1>2 DEF Watcher, clientVars
  <2>1. bcast' # NoBroadcast => Names(bcast'.event)
    BY <2>0 DEF Named, Names
  <2>2. bcast'.at # None => bcast'.event.type = "conversation-switched"
    BY <2>0 DEF Named
  <2>3. CASE LoopRemoved
    BY <1>0, <1>1, <2>1, <2>2, <2>3 DEF LoopRemoved, Named
  <2>4. CASE Calm
    <3>1. \A k \in DOMAIN events' : Names(events'[k])
      <4>1. CASE events' = events
        BY <4>1 DEF Named
      <4>2. CASE events' # events
        <5>1. PICK type \in EventTypes, b \in Agents :
                /\ type \in {"agent-added", "agent-removed"}
                /\ events' = Append(events, Lifecycle(type, b))
          BY <2>4, <4>2 DEF Calm
        <5>2. PICK e : e = Lifecycle(type, b)
          OBVIOUS
        <5>3. Names(e)
          BY <5>1, <5>2 DEF Names, Lifecycle
        <5> QED BY <1>0, <5>1, <5>2, <5>3 DEF Named
      <4> QED BY <4>1, <4>2
    <3>2. \A w \in Workers : workers'[w].pc = "emit" => pool'[workers'[w].obj].conv = workers'[w].main
      <4> SUFFICES ASSUME NEW w \in Workers, workers'[w].pc = "emit"
                   PROVE  pool'[workers'[w].obj].conv = workers'[w].main
        OBVIOUS
      <4>1. workers'[w] = workers[w]
        BY <2>4 DEF Calm
      <4>2. workers[w].obj \in DOMAIN pool
        BY <1>0, <4>1 DEF WorkersOK, WorkerOK
      <4> QED BY <1>0, <4>1, <4>2 DEF Named, PoolGrows
    <3> QED BY <1>1, <2>1, <2>2, <3>1, <3>2 DEF Named
  <2>5. ASSUME NEW w \in Workers, InstallMain(w)
        PROVE  Named'
    <3>1. /\ workers[w].main \in Files /\ events' = events
          /\ \E dead : pool' = NewStream(workers[w].main, dead)
          /\ workers' = [workers EXCEPT ![w].pc = "emit", ![w].obj = Len(pool) + 1,
                                        ![w].old = workers'[w].old]
      BY <1>0, <2>5 DEF InstallMain, WorkersOK, WorkerOK, MainFilesOf, Worker
    <3>2. pool'[Len(pool) + 1].conv = workers[w].main
      BY <1>0, <3>1, NewStreamFacts
    <3>3. workers'[w].obj = Len(pool) + 1 /\ workers'[w].main = workers[w].main
      BY <1>0, <3>1 DEF Worker
    <3>4. ASSUME NEW v \in Workers, v # w, workers'[v].pc = "emit"
          PROVE  pool'[workers'[v].obj].conv = workers'[v].main
      <4>1. workers'[v] = workers[v]
        BY <1>0, <3>1, <3>4
      <4>2. workers[v].obj \in DOMAIN pool
        BY <1>0, <3>4, <4>1 DEF WorkersOK, WorkerOK
      <4> QED BY <1>0, <3>4, <4>1, <4>2 DEF Named, PoolGrows
    <3>5. \A v \in Workers : workers'[v].pc = "emit" => pool'[workers'[v].obj].conv = workers'[v].main
      BY <3>2, <3>3, <3>4
    <3>6. \A k \in DOMAIN events' : Names(events'[k])
      BY <3>1 DEF Named
    <3> QED BY <1>1, <2>1, <2>2, <3>5, <3>6 DEF Named
  <2>6. ASSUME NEW w \in Workers, Emit(w)
        PROVE  Named'
    <3>1. PICK e : e = [type |-> IF workers[w].old = None THEN "conversation-started"
                                 ELSE "conversation-switched",
                        agent |-> workers[w].agent, old |-> workers[w].old,
                        new |-> workers[w].main]
      BY Zenon
    <3>2. /\ events' = Append(events, e)
          /\ workers' = [workers EXCEPT ![w] = Rest(w, workers[w].subs)]
          /\ workers[w].pc = "emit"
      BY <2>6, <3>1 DEF Emit
    <3>3. Names(e)
      BY <1>0, <3>1, <3>2, WatcherAssumption DEF Names, WorkersOK, WorkerOK, MainFilesOf
    <3>4. \A k \in DOMAIN events' : Names(events'[k])
      BY <1>0, <3>2, <3>3 DEF Named
    <3>5. workers'[w].pc # "emit" /\ \A v \in Workers : v # w => workers'[v] = workers[v]
      BY <1>0, <3>2 DEF Rest, Idle, Job
    <3>6. ASSUME NEW v \in Workers, workers'[v].pc = "emit"
          PROVE  pool'[workers'[v].obj].conv = workers'[v].main
      <4>1. workers'[v] = workers[v]
        BY <3>5, <3>6
      <4>2. workers[v].obj \in DOMAIN pool
        BY <1>0, <3>6, <4>1 DEF WorkersOK, WorkerOK
      <4> QED BY <1>0, <3>6, <4>1, <4>2 DEF Named, PoolGrows
    <3> QED BY <1>1, <2>1, <2>2, <3>4, <3>6 DEF Named
  <2> QED BY <1>0, <2>0, <2>3, <2>4, <2>5, <2>6, WatcherMoves
<1>3. CASE ~Watcher
  <2>1. workers' = workers /\ (BroadcastNext \/ UNCHANGED events)
    BY <1>3, WatcherAlone
  <2>2. \A w \in Workers : workers'[w].pc = "emit" => pool'[workers'[w].obj].conv = workers'[w].main
    <3> SUFFICES ASSUME NEW w \in Workers, workers[w].pc = "emit"
                 PROVE  pool'[workers[w].obj].conv = workers[w].main
      BY <2>1
    <3>1. workers[w].obj \in DOMAIN pool
      BY <1>0 DEF WorkersOK, WorkerOK
    <3> QED BY <1>0, <3>1 DEF Named, PoolGrows
  <2>3. CASE BroadcastNext
    <3>1. PICK e : e = Head(events)
      OBVIOUS
    <3>2. /\ \A k \in DOMAIN events' : k + 1 \in DOMAIN events /\ events'[k] = events[k + 1]
          /\ 1 \in DOMAIN events /\ e = events[1]
          /\ bcast'.at = None /\ (bcast' # NoBroadcast => bcast'.event = e)
      BY <2>3, <3>1, NextFacts
    <3> QED BY <1>1, <2>2, <3>2 DEF Named
  <2>4. CASE ~BroadcastNext
    <3>1. events' = events
      BY <2>1, <2>4
    <3> QED BY <1>1, <1>3, <2>2, <2>4, <3>1, ServerAlone DEF Named
  <2> QED BY <2>3, <2>4
<1> QED BY <1>2, <1>3


\* While no switch of an agent starts or is sent, what is said of them stays.
LEMMA SwitchesKept ==
  ASSUME WatcherInv, LateOK, [Next]_watcherVars, NEW a \in Agents, Switches(a),
         removes' = 0 => removes = 0, active'[a] = active[a],
         \A w \in Workers : Switching(w, a)' = Switching(w, a),
         \A w \in Workers : Switching(w, a) =>
           workers'[w].obj = workers[w].obj /\ workers'[w].main = workers[w].main,
         \A k \in DOMAIN events' : SwitchOf(events'[k], a) => k \in DOMAIN events,
         \A k \in DOMAIN events : k \in DOMAIN events' /\ events'[k] = events[k],
         UNCHANGED bcast
  PROVE  Switches(a)'
<1>0. /\ \A i \in DOMAIN pool : Overtaken(i) => Overtaken(i)'
      /\ InOrder(a)' => InOrder(a)
  BY OrderStep
<1>1. SUFFICES ASSUME removes' = 0
               PROVE  (FirstIsNoSwitch(a) /\ NewestIsActive(a) /\ (InOrder(a) => LastIsActive(a)))'
  BY DEF Switches
<1>2. removes = 0 /\ FirstIsNoSwitch(a) /\ NewestIsActive(a) /\ (InOrder(a) => LastIsActive(a))
  BY <1>1 DEF Switches
<1>3. Held(a)' = Held(a) /\ Queued(a)' = Queued(a) /\ Current(a)' = Current(a)
  <2>1. Held(a)' = Held(a)
    BY DEF Held
  <2>2. Queued(a)' = Queued(a)
    BY DEF Queued
  <2>3. Current(a)' = Current(a)
    BY DEF Current, SwitchOf
  <2> QED BY <2>1, <2>2, <2>3
<1>4. FirstIsNoSwitch(a)'
  BY <1>2, <1>3 DEF FirstIsNoSwitch
<1>5. NewestIsActive(a)'
  <2> SUFFICES ASSUME NEW w \in Workers, Switching(w, a)', ~Overtaken(workers[w].obj)',
                      workers'[w].main # active'[a]
               PROVE  \E v \in Workers : Switching(v, a)' /\ workers'[v].obj > workers'[w].obj
    BY DEF NewestIsActive
  <2>1. Switching(w, a) /\ workers'[w].obj = workers[w].obj /\ workers'[w].main = workers[w].main
    OBVIOUS
  <2>2. workers[w].obj \in DOMAIN pool
    BY <2>1 DEF Switching, WatcherInv, TypeOK, WorkersOK, WorkerOK
  <2>3. PICK i : i = workers[w].obj
    OBVIOUS
  <2>4. ~Overtaken(i)'
    BY <2>1, <2>3
  <2>5. ~Overtaken(workers[w].obj)
    BY <1>0, <2>2, <2>3, <2>4
  <2>6. PICK v \in Workers : Switching(v, a) /\ workers[v].obj > workers[w].obj
    BY <1>2, <2>1, <2>5 DEF NewestIsActive
  <2> QED BY <2>1, <2>6
<1>6. ASSUME InOrder(a)' PROVE LastIsActive(a)'
  <2>1. LastIsActive(a)
    BY <1>0, <1>2, <1>6
  <2>2. ASSUME NEW k \in DOMAIN events', SwitchOf(events'[k], a)
        PROVE  \/ events'[k].new = active'[a]
               \/ \E j \in DOMAIN events' : j > k /\ SwitchOf(events'[j], a)
               \/ Held(a)'
    <3>1. k \in DOMAIN events /\ events'[k] = events[k]
      BY <2>2
    <3>2. CASE \E j \in DOMAIN events : j > k /\ SwitchOf(events[j], a)
      <4>1. PICK j \in DOMAIN events : j > k /\ SwitchOf(events[j], a)
        BY <3>2
      <4>2. j \in DOMAIN events' /\ events'[j] = events[j]
        OBVIOUS
      <4> QED BY <4>1, <4>2
    <3> QED BY <1>3, <2>1, <2>2, <3>1, <3>2 DEF LastIsActive
  <2>3. Current(a)' => bcast'.event.new = active'[a] \/ Queued(a)' \/ Held(a)'
    BY <1>3, <2>1 DEF LastIsActive
  <2> QED BY <2>2, <2>3 DEF LastIsActive
<1> QED BY <1>4, <1>5, <1>6

\* A discovery makes a stream of its main conversation.
LEMMA SwitchesInstall ==
  ASSUME WatcherInv, LateOK, NEW a \in Agents, Switches(a), removes' = 0 => removes = 0,
         NEW w \in Workers, InstallMain(w), UNCHANGED bcast
  PROVE  Switches(a)'
<1> DEFINE old == IF active[workers[w].agent] = workers[w].main THEN None
                  ELSE active[workers[w].agent]
<1>0. /\ workers \in [Workers -> Worker] /\ active \in [Agents -> Files \cup {None}]
      /\ workers[w].pc = "install" /\ workers[w].main \in Files /\ workers[w].main # None
      /\ workers[w].agent \in Agents /\ events' = events /\ Len(pool) \in Nat
      /\ active' = [active EXCEPT ![workers[w].agent] = workers[w].main]
      /\ \A v \in Workers : v # w => workers'[v] = workers[v]
      /\ workers'[w].pc = "emit" /\ workers'[w].agent = workers[w].agent
      /\ workers'[w].main = workers[w].main /\ workers'[w].obj = Len(pool) + 1
      /\ workers'[w].old = old
  <2>1. /\ workers \in [Workers -> Worker] /\ active \in [Agents -> Files \cup {None}]
        /\ Len(pool) \in Nat /\ WorkersOK
    BY DEF WatcherInv, TypeOK
  <2>2. /\ workers[w].pc = "install" /\ workers[w].main # None /\ events' = events
        /\ workers' = [workers EXCEPT ![w].pc = "emit", ![w].obj = Len(pool) + 1, ![w].old = old]
        /\ active' = [active EXCEPT ![workers[w].agent] = workers[w].main]
    BY DEF InstallMain
  <2>3. workers[w].main \in Files /\ workers[w].agent \in Agents
    BY <2>1, <2>2 DEF WorkersOK, WorkerOK, MainFilesOf
  <2> HIDE DEF old
  <2>4. /\ workers'[w].pc = "emit" /\ workers'[w].agent = workers[w].agent
        /\ workers'[w].main = workers[w].main /\ workers'[w].obj = Len(pool) + 1
        /\ workers'[w].old = old
    BY <2>1, <2>2 DEF Worker
  <2> QED BY <2>1, <2>2, <2>3, <2>4
<1>1. [Next]_watcherVars
  BY DEF Discovery, WatcherNext, Next
<1>2. ~Switching(w, a)
  BY <1>0 DEF Switching
<1>3. CASE workers[w].agent # a \/ old = None
  <2>1. ~Switching(w, a)'
    BY <1>0, <1>3 DEF Switching
  <2>2. \A v \in Workers : Switching(v, a)' = Switching(v, a)
    BY <1>0, <1>2, <2>1 DEF Switching
  <2>3. CASE active'[a] = active[a]
    BY <1>0, <1>1, <1>2, <2>2, <2>3, SwitchesKept
  <2>4. CASE active'[a] # active[a]
    <3>1. workers[w].agent = a /\ active[a] = None /\ active'[a] # None
      BY <1>0, <1>3, <2>4
    <3>2. removes = 0 => ~Held(a) /\ ~Queued(a) /\ ~Current(a)
      BY <3>1 DEF Switches, FirstIsNoSwitch
    <3>3. Held(a)' = Held(a) /\ Queued(a)' = Queued(a) /\ Current(a)' = Current(a)
      BY <1>0, <2>2 DEF Held, Queued, Current, SwitchOf
    <3> QED BY <3>1, <3>2, <3>3 DEF Switches, FirstIsNoSwitch, NewestIsActive, LastIsActive,
                                    Held, Queued
  <2> QED BY <2>3, <2>4
<1>4. CASE workers[w].agent = a /\ old # None
  <2>1. Switching(w, a)' /\ workers'[w].main = active'[a] /\ active'[a] # None
    BY <1>0, <1>4 DEF Switching
  <2>2. Held(a)'
    BY <2>1 DEF Held
  <2>3. NewestIsActive(a)'
    <3> SUFFICES ASSUME NEW v \in Workers, Switching(v, a)', v # w
                 PROVE  Switching(w, a)' /\ workers'[w].obj > workers'[v].obj
      BY <2>1 DEF NewestIsActive
    <3>1. workers'[v] = workers[v] /\ workers[v].pc = "emit"
      BY <1>0 DEF Switching
    <3>2. workers[v].obj \in 1..Len(pool)
      BY <3>1 DEF WatcherInv, WorkersOK, WorkerOK
    <3> QED BY <1>0, <2>1, <3>1, <3>2
  <2> QED BY <2>1, <2>2, <2>3 DEF Switches, FirstIsNoSwitch, LastIsActive
<1> QED BY <1>3, <1>4

\* A discovery sends the event of its main stream.
LEMMA SwitchesEmit ==
  ASSUME WatcherInv, LateOK, Named, NEW a \in Agents, Switches(a), removes' = 0 => removes = 0,
         NEW w \in Workers, Emit(w), UNCHANGED bcast
  PROVE  Switches(a)'
<1>1. [Next]_watcherVars
  BY DEF Discovery, WatcherNext, Next
<1>2. PICK e : e = [type |-> IF workers[w].old = None THEN "conversation-started"
                             ELSE "conversation-switched",
                    agent |-> workers[w].agent, old |-> workers[w].old,
                    new |-> workers[w].main]
  BY Zenon
<1>3. PICK i : i = workers[w].obj
  OBVIOUS
<1>0. /\ workers \in [Workers -> Worker] /\ events \in Seq(LifecycleEvent) /\ WorkersOK
      /\ pool \in Seq(Stream) /\ DOMAIN pool = 1..Len(pool) /\ Len(pool) \in Nat
      /\ workers[w].pc = "emit" /\ i \in DOMAIN pool /\ active' = active
      /\ pool' = [pool EXCEPT ![i] = Announced(i)]
      /\ \A v \in Workers : v # w => workers'[v] = workers[v]
      /\ workers'[w].pc # "emit"
  <2>1. /\ workers \in [Workers -> Worker] /\ events \in Seq(LifecycleEvent) /\ WorkersOK
        /\ pool \in Seq(Stream) /\ DOMAIN pool = 1..Len(pool) /\ Len(pool) \in Nat
    BY DEF WatcherInv, TypeOK
  <2>2. /\ workers[w].pc = "emit" /\ active' = active
        /\ pool' = [pool EXCEPT ![i] = Announced(i)]
        /\ workers' = [workers EXCEPT ![w] = Rest(w, workers[w].subs)]
    BY <1>3 DEF Emit
  <2>3. Rest(w, workers[w].subs).pc # "emit"
    BY DEF Rest, Idle, Job
  <2>4. i \in DOMAIN pool
    BY <1>3, <2>1, <2>2 DEF WorkersOK, WorkerOK
  <2> QED BY <2>1, <2>2, <2>3, <2>4
<1>4. /\ DOMAIN events = 1..Len(events) /\ Len(events) \in Nat
      /\ DOMAIN events' = 1..(Len(events) + 1) /\ events'[Len(events) + 1] = e
      /\ \A k \in DOMAIN events : events'[k] = events[k]
  <2>1. events' = Append(events, e)
    BY <1>2 DEF Emit
  <2> QED BY <1>0, <2>1
<1>5. ~Switching(w, a)' /\ \A v \in Workers : v # w => Switching(v, a)' = Switching(v, a)
  BY <1>0 DEF Switching
<1>6. SwitchOf(e, a) <=> Switching(w, a)
  BY <1>0, <1>2 DEF SwitchOf, Switching
<1>7. CASE ~Switching(w, a)
  <2>1. \A v \in Workers : Switching(v, a)' = Switching(v, a)
    <3>1. Switching(w, a)' = Switching(w, a)
      BY <1>5, <1>7 DEF Switching
    <3> QED BY <1>5, <3>1
  <2>2. \A v \in Workers : Switching(v, a) =>
           workers'[v].obj = workers[v].obj /\ workers'[v].main = workers[v].main
    BY <1>0, <1>7, Zenon
  <2>3. \A k \in DOMAIN events' : SwitchOf(events'[k], a) => k \in DOMAIN events
    BY <1>4, <1>6, <1>7
  <2>4. \A k \in DOMAIN events : k \in DOMAIN events' /\ events'[k] = events[k]
    BY <1>4
  <2> QED BY <1>0, <1>1, <2>1, <2>2, <2>3, <2>4, SwitchesKept, Zenon
<1>8. CASE Switching(w, a)
  <2>0. /\ \A j \in DOMAIN pool : Overtaken(j) => Overtaken(j)'
        /\ InOrder(a)' => InOrder(a)
    BY <1>1, OrderStep
  <2>1. SUFFICES ASSUME removes' = 0
                 PROVE  (FirstIsNoSwitch(a) /\ NewestIsActive(a) /\ (InOrder(a) => LastIsActive(a)))'
    BY DEF Switches
  <2>2. removes = 0 /\ FirstIsNoSwitch(a) /\ NewestIsActive(a)
    BY <2>1 DEF Switches
  <2>3. SwitchOf(e, a) /\ e.new = workers[w].main /\ Held(a)
    BY <1>2, <1>6, <1>8 DEF Held
  <2>4. Queued(a)'
    BY <1>4, <2>3 DEF Queued
  <2>5. FirstIsNoSwitch(a)'
    BY <1>0, <2>2, <2>3 DEF FirstIsNoSwitch
  <2>6. /\ pool'[i].pumping /\ pool'[i].late = Overtaken(i)
        /\ \A j \in DOMAIN pool : j \in DOMAIN pool' /\ pool'[j].conv = pool[j].conv
    BY <1>0, AnnouncedFacts
  <2>7. \A v \in Workers : Switching(v, a) => /\ workers[v].obj \in DOMAIN pool
                                              /\ pool[workers[v].obj].conv \in MainFilesOf(a)
    BY <1>0 DEF Switching, Named, WorkersOK, WorkerOK
  <2>8. NewestIsActive(a)'
    <3> SUFFICES ASSUME NEW v \in Workers, Switching(v, a)', ~Overtaken(workers[v].obj)',
                        workers'[v].main # active'[a]
                 PROVE  \E u \in Workers : Switching(u, a)' /\ workers'[u].obj > workers'[v].obj
      BY DEF NewestIsActive
    <3>1. v # w /\ Switching(v, a) /\ workers'[v] = workers[v]
      BY <1>0, <1>5
    <3>2. PICK j : j = workers[v].obj
      OBVIOUS
    <3>3. ~Overtaken(j)' /\ j \in DOMAIN pool
      BY <2>7, <3>1, <3>2
    <3>4. PICK u \in Workers : Switching(u, a) /\ workers[u].obj > workers[v].obj
      BY <1>0, <2>0, <2>2, <3>1, <3>2, <3>3 DEF NewestIsActive
    <3>5. u # w
      <4> SUFFICES ASSUME i > j PROVE FALSE
        BY <1>3, <3>2, <3>4
      <4>1. pool'[i].conv \in MainFilesOf(a) /\ pool'[j].conv \in MainFilesOf(a)
        BY <1>0, <1>3, <1>8, <2>6, <2>7, <3>1, <3>2
      <4>2. IsMain(pool'[i].conv) /\ Owner[pool'[i].conv] = Owner[pool'[j].conv]
        BY <4>1 DEF MainFilesOf
      <4> QED BY <1>0, <2>6, <3>3, <4>2 DEF Overtaken
    <3>6. Switching(u, a)' /\ workers'[u] = workers[u]
      BY <1>0, <1>5, <3>4, <3>5
    <3> QED BY <3>1, <3>4, <3>6
  <2>9. ASSUME InOrder(a)' PROVE LastIsActive(a)'
    <3>1. e.new = active[a] \/ Held(a)'
      <4>1. ~Overtaken(i)
        <5>1. pool'[i].conv \in MainFilesOf(a)
          BY <1>0, <1>3, <1>8, <2>6, <2>7, Zenon
        <5> QED BY <1>0, <2>6, <2>9, <5>1 DEF InOrder, MainFilesOf
      <4>2. \/ workers[w].main = active[a]
            \/ \E u \in Workers : Switching(u, a) /\ workers[u].obj > workers[w].obj
        BY <1>3, <1>8, <2>2, <4>1 DEF NewestIsActive
      <4>3. ASSUME NEW u \in Workers, Switching(u, a), workers[u].obj > workers[w].obj
            PROVE  Held(a)'
        <5>1. u # w
          BY <1>0, <1>3, <4>3
        <5> QED BY <1>5, <4>3, <5>1 DEF Held
      <4> QED BY <2>3, <4>2, <4>3
    <3>2. ASSUME NEW k \in DOMAIN events', SwitchOf(events'[k], a)
          PROVE  \/ events'[k].new = active'[a]
                 \/ \E j \in DOMAIN events' : j > k /\ SwitchOf(events'[j], a)
                 \/ Held(a)'
      <4>1. CASE k = Len(events) + 1
        BY <1>0, <1>4, <3>1, <4>1
      <4>2. CASE k # Len(events) + 1
        <5>1. k < Len(events) + 1 /\ Len(events) + 1 \in DOMAIN events'
          BY <1>4, <3>2, <4>2
        <5> QED BY <1>4, <2>3, <5>1
      <4> QED BY <4>1, <4>2
    <3> QED BY <2>4, <3>2 DEF LastIsActive
  <2> QED BY <2>5, <2>8, <2>9
<1> QED BY <1>7, <1>8

\* While only Broadcast is done with its event, what is said of switches stays.
LEMMA SwitchesSame ==
  ASSUME NEW a \in Agents, Switches(a), UNCHANGED <<active, events, pool, workers, removes>>,
         bcast' # NoBroadcast => bcast # NoBroadcast /\ bcast'.event = bcast.event
  PROVE  Switches(a)'
<1>1. /\ Held(a)' = Held(a) /\ Queued(a)' = Queued(a)
      /\ \A w \in Workers : Switching(w, a)' = Switching(w, a)
      /\ InOrder(a)' = InOrder(a) /\ (Current(a)' => Current(a))
  BY DEF Held, Queued, Current, Switching, InOrder, SwitchOf
<1>2. FirstIsNoSwitch(a) => FirstIsNoSwitch(a)'
  BY <1>1 DEF FirstIsNoSwitch
<1>3. NewestIsActive(a) => NewestIsActive(a)'
  BY <1>1 DEF NewestIsActive, Overtaken
<1>4. LastIsActive(a) => LastIsActive(a)'
  BY <1>1 DEF LastIsActive, Current
<1> QED BY <1>1, <1>2, <1>3, <1>4 DEF Switches

\* Broadcast takes the next event.
LEMMA SwitchesNext ==
  ASSUME ServerInv, BroadcastNext, NEW a \in Agents, Switches(a)
  PROVE  Switches(a)'
<1>1. PICK e : e = Head(events)
  OBVIOUS
<1>2. /\ 1 \in DOMAIN events /\ e = events[1]
      /\ \A k \in DOMAIN events' : k + 1 \in DOMAIN events /\ events'[k] = events[k + 1]
      /\ \A k \in DOMAIN events : k # 1 => k - 1 \in DOMAIN events' /\ events'[k - 1] = events[k]
      /\ \A k \in DOMAIN events : k \in Nat
      /\ bcast' # NoBroadcast => bcast'.event = e
  BY <1>1, NextFacts
<1>3. UNCHANGED <<active, pool, workers, removes>>
  BY DEF BroadcastNext
<1>4. /\ Held(a)' = Held(a) /\ InOrder(a)' = InOrder(a)
      /\ \A w \in Workers : Switching(w, a)' = Switching(w, a)
  BY <1>3 DEF Held, Switching, InOrder
<1>5. Queued(a)' => Queued(a)
  BY <1>2 DEF Queued
<1>6. Current(a)' => Queued(a) /\ SwitchOf(e, a) /\ bcast'.event = e
  BY <1>2 DEF Current, Queued
<1>7. FirstIsNoSwitch(a) => FirstIsNoSwitch(a)'
  BY <1>3, <1>4, <1>5, <1>6 DEF FirstIsNoSwitch
<1>8. NewestIsActive(a) => NewestIsActive(a)'
  BY <1>3, <1>4 DEF NewestIsActive, Overtaken
<1>9. ASSUME LastIsActive(a)
      PROVE  LastIsActive(a)'
  <2>1. ASSUME NEW k \in DOMAIN events', SwitchOf(events'[k], a)
        PROVE  \/ events'[k].new = active'[a]
               \/ \E j \in DOMAIN events' : j > k /\ SwitchOf(events'[j], a)
               \/ Held(a)'
    <3>1. k + 1 \in DOMAIN events /\ events'[k] = events[k + 1] /\ k + 1 \in Nat /\ 1 \in Nat
      BY <1>2
    <3>2. CASE \E j \in DOMAIN events : j > k + 1 /\ SwitchOf(events[j], a)
      <4>1. PICK j \in DOMAIN events : j > k + 1 /\ SwitchOf(events[j], a)
        BY <3>2
      <4>2. k \in Nat
        BY <2>1 DEF ServerInv, WatcherInv, TypeOK, BroadcastNext
      <4>3. j # 1 /\ j - 1 > k /\ j \in Nat
        BY <1>2, <4>1, <4>2
      <4>4. j - 1 \in DOMAIN events' /\ events'[j - 1] = events[j]
        BY <1>2, <4>3
      <4> QED BY <4>1, <4>3, <4>4
    <3>3. CASE events[k + 1].new = active[a] \/ Held(a)
      BY <1>3, <1>4, <3>1, <3>3
    <3> QED BY <1>9, <2>1, <3>1, <3>2, <3>3 DEF LastIsActive
  <2>2. ASSUME Current(a)'
        PROVE  bcast'.event.new = active'[a] \/ Queued(a)' \/ Held(a)'
    <3>1. SwitchOf(events[1], a) /\ bcast'.event = events[1]
      BY <1>2, <1>6, <2>2
    <3>2. CASE \E j \in DOMAIN events : j > 1 /\ SwitchOf(events[j], a)
      BY <1>2, <3>2 DEF Queued
    <3> QED BY <1>2, <1>3, <1>4, <1>9, <3>1, <3>2 DEF LastIsActive
  <2> QED BY <2>1, <2>2 DEF LastIsActive
<1> QED BY <1>3, <1>4, <1>7, <1>8, <1>9 DEF Switches

LEMMA SwitchesStep ==
  ASSUME ServerInv, NoRemovals, Named, LateOK, ServerNext, NEW a \in Agents, Switches(a)
  PROVE  Switches(a)'
<1>0. WatcherInv /\ [Next]_watcherVars
  BY ServerStepMaps DEF ServerInv
<1>1. removes' = 0 => removes = 0 /\ ~LoopRemoved
  BY <1>0, NoRemovalsStep
<1>2. CASE Watcher
  <2>1. WatcherNext /\ UNCHANGED bcast
    BY <1>2 DEF Watcher, clientVars
  <2>2. CASE removes' # 0
    BY <2>2 DEF Switches
  <2>3. CASE Calm
    <3>1. \A w \in Workers : /\ Switching(w, a)' = Switching(w, a)
                             /\ Switching(w, a) => workers'[w] = workers[w]
      BY <2>3 DEF Calm, Switching
    <3>2. events \in Seq(LifecycleEvent)
      BY <1>0 DEF WatcherInv, TypeOK
    <3>3. /\ \A k \in DOMAIN events : k \in DOMAIN events' /\ events'[k] = events[k]
          /\ \A k \in DOMAIN events' : SwitchOf(events'[k], a) => k \in DOMAIN events
      <4>1. CASE events' = events
        BY <4>1
      <4>2. CASE events' # events
        <5>1. PICK type \in EventTypes, b \in Agents :
                /\ type \in {"agent-added", "agent-removed"}
                /\ events' = Append(events, Lifecycle(type, b))
          BY <2>3, <4>2 DEF Calm
        <5>2. PICK e : e = Lifecycle(type, b)
          OBVIOUS
        <5>3. ~SwitchOf(e, a)
          BY <5>1, <5>2 DEF SwitchOf, Lifecycle
        <5> QED BY <3>2, <5>1, <5>2, <5>3
      <4> QED BY <4>1, <4>2
    <3>4. active'[a] = active[a]
      BY <2>3 DEF Calm
    <3> QED BY <1>0, <1>1, <2>1, <3>1, <3>3, <3>4, SwitchesKept
  <2>4. CASE \E w \in Workers : InstallMain(w) \/ Emit(w)
    BY <1>0, <1>1, <2>1, <2>4, SwitchesInstall, SwitchesEmit
  <2> QED BY <1>0, <1>1, <2>1, <2>2, <2>3, <2>4, WatcherMoves
<1>3. CASE ~Watcher /\ ~BroadcastNext
  <2>1. UNCHANGED <<active, events, pool, workers, removes>>
    BY <1>3, ServerAlone DEF watcherVars
  <2> QED BY <1>3, <2>1, ServerAlone, SwitchesSame
<1> QED BY <1>2, <1>3, SwitchesNext

\* A switch that is under way stays so until Broadcast takes it; one that
\* begins is under way.
LEMMA SwitchMoves ==
  ASSUME WatcherInv, WatcherNext, ~LoopRemoved, NEW a \in Agents
  PROVE  /\ Held(a) \/ Queued(a) => Held(a)' \/ Queued(a)'
         /\ active'[a] = active[a] \/ active[a] = None \/ Held(a)'
<1>0. /\ workers \in [Workers -> Worker] /\ events \in Seq(LifecycleEvent)
      /\ active \in [Agents -> Files \cup {None}]
  BY DEF WatcherInv, TypeOK
<1>1. CASE Calm
  <2>1. Held(a) => Held(a)'
    BY <1>1 DEF Calm, Held, Switching
  <2>2. \A k \in DOMAIN events : k \in DOMAIN events' /\ events'[k] = events[k]
    <3>1. CASE events' = events
      BY <3>1
    <3>2. CASE events' # events
      <4>1. PICK e : events' = Append(events, e)
        BY <1>1, <3>2 DEF Calm
      <4> QED BY <1>0, <4>1
    <3> QED BY <3>1, <3>2
  <2>3. Queued(a) => Queued(a)'
    BY <2>2 DEF Queued
  <2> QED BY <1>1, <2>1, <2>3 DEF Calm
<1>2. ASSUME NEW w \in Workers, InstallMain(w)
      PROVE  /\ Held(a) \/ Queued(a) => Held(a)' \/ Queued(a)'
             /\ active'[a] = active[a] \/ active[a] = None \/ Held(a)'
  <2> DEFINE old == IF active[workers[w].agent] = workers[w].main THEN None
                    ELSE active[workers[w].agent]
  <2>1. /\ workers[w].pc = "install" /\ events' = events
        /\ workers' = [workers EXCEPT ![w].pc = "emit", ![w].obj = Len(pool) + 1, ![w].old = old]
        /\ active' = [active EXCEPT ![workers[w].agent] = workers[w].main]
    BY <1>2 DEF InstallMain
  <2> HIDE DEF old
  <2>2. /\ workers'[w].pc = "emit" /\ workers'[w].agent = workers[w].agent
        /\ workers'[w].old = old
        /\ \A v \in Workers : v # w => workers'[v] = workers[v]
    BY <1>0, <2>1 DEF Worker
  <2>3. Held(a) => Held(a)'
    BY <2>1, <2>2, Zenon DEF Held, Switching
  <2>4. Queued(a) => Queued(a)'
    BY <2>1 DEF Queued
  <2>5. active'[a] = active[a] \/ active[a] = None \/ Held(a)'
    <3> SUFFICES ASSUME active'[a] # active[a], active[a] # None
                 PROVE  Switching(w, a)'
      BY DEF Held
    <3>1. workers[w].agent = a /\ workers[w].main # active[a]
      BY <1>0, <2>1
    <3> QED BY <2>2, <3>1 DEF Switching, old
  <2> QED BY <2>3, <2>4, <2>5
<1>3. ASSUME NEW w \in Workers, Emit(w)
      PROVE  /\ Held(a) \/ Queued(a) => Held(a)' \/ Queued(a)'
             /\ active'[a] = active[a] \/ active[a] = None \/ Held(a)'
  <2>1. PICK e : e = [type |-> IF workers[w].old = None THEN "conversation-started"
                               ELSE "conversation-switched",
                      agent |-> workers[w].agent, old |-> workers[w].old,
                      new |-> workers[w].main]
    BY Zenon
  <2>2. events' = Append(events, e) /\ active' = active
    BY <1>3, <2>1 DEF Emit
  <2>3. /\ Len(events) + 1 \in DOMAIN events' /\ events'[Len(events) + 1] = e
        /\ \A k \in DOMAIN events : k \in DOMAIN events' /\ events'[k] = events[k]
    BY <1>0, <2>2
  <2>4. \A v \in Workers : v # w => workers'[v] = workers[v]
    BY <1>0, <1>3 DEF Emit
  <2>5. Switching(w, a) => SwitchOf(e, a)
    BY <2>1 DEF Switching, SwitchOf
  <2>6. Queued(a) => Queued(a)'
    BY <2>3 DEF Queued
  <2>7. ASSUME NEW v \in Workers, Switching(v, a)
        PROVE  Held(a)' \/ Queued(a)'
    <3>1. CASE v = w
      BY <2>3, <2>5, <2>7, <3>1 DEF Queued
    <3>2. CASE v # w
      BY <2>4, <2>7, <3>2 DEF Held, Switching
    <3> QED BY <3>1, <3>2
  <2> QED BY <2>2, <2>6, <2>7 DEF Held
<1> QED BY <1>1, <1>2, <1>3, WatcherMoves

\* Client c's handler leaves its follow of agent a alone, or registers it.
LEMMA OwnFollow ==
  ASSUME ServerInv, NEW c \in Clients, Client(c), c \in clients', NEW a \in Agents,
         follows'[c][a] # 0, ~Following(c, a)'
  PROVE  \/ /\ follows'[c][a] = follows[c][a] /\ ~Following(c, a)
            /\ subs'[c][follows[c][a]] = subs[c][follows[c][a]]
         \/ FollowRegister(c) /\ handler[c].agent = a
<1>0. /\ subs \in [Clients -> Seq(Subscription)] /\ handler \in [Clients -> Handler]
      /\ follows \in [Clients -> [Agents -> 0..MaxSubs]] /\ FollowsOf(c)
      /\ subs[c] \in Seq(Subscription) /\ None \notin Agents
  BY WatcherAssumption DEF ServerInv, ServerTypeOK, FollowsOK
<1>1. \A b \in Agents : follows[c][b] # 0 => /\ follows[c][b] \in DOMAIN subs[c]
                                             /\ subs[c][follows[c][b]].agent = b
  BY <1>0 DEF FollowsOf
<1>2. ASSUME NEW t, NEW x, subs' = [subs EXCEPT ![c][t] = x], follows[c][a] # 0, follows[c][a] # t
      PROVE  subs'[c][follows[c][a]] = subs[c][follows[c][a]]
  <2>1. follows[c][a] \in DOMAIN subs[c]
    BY <1>1, <1>2
  <2> QED BY <1>0, <1>2, <2>1
<1>3. ASSUME NEW x, subs' = [subs EXCEPT ![c] = Append(@, x)], follows[c][a] # 0
      PROVE  subs'[c][follows[c][a]] = subs[c][follows[c][a]]
  <2>1. follows[c][a] \in 1..Len(subs[c]) /\ Len(subs[c]) \in Nat
    BY <1>0, <1>1, <1>3
  <2>2. subs'[c] = Append(subs[c], x)
    BY <1>0, <1>3
  <2> QED BY <1>0, <2>1, <2>2
<1>4. CanHandle(c) => ~Following(c, a)
  BY DEF CanHandle, Following
<1>5. ASSUME NEW b \in Agents, FollowAgent(c, b)
      PROVE  /\ follows'[c][a] = follows[c][a] /\ ~Following(c, a)
             /\ subs'[c][follows[c][a]] = subs[c][follows[c][a]]
  <2>1. b # a
    <3>1. handler'[c].pc = "follow" /\ handler'[c].agent = b
      BY <1>0, <1>5 DEF FollowAgent, AtRest
    <3> QED BY <3>1 DEF Following
  <2>2. follows' = follows /\ CanHandle(c) /\ follows[c][a] # 0
    BY <1>5 DEF FollowAgent
  <2>3. CASE subs' = subs
    BY <1>4, <2>2, <2>3
  <2>4. CASE subs' # subs
    <3>1. /\ follows[c][b] # 0
          /\ subs' = [subs EXCEPT ![c][follows[c][b]] = Dropped(subs[c][follows[c][b]])]
      BY <1>5, <2>4 DEF FollowAgent
    <3>2. follows[c][b] # follows[c][a]
      BY <1>1, <2>1, <2>2, <3>1
    <3> QED BY <1>2, <1>4, <2>2, <3>1, <3>2
  <2> QED BY <2>3, <2>4
<1>6. ASSUME NEW b \in Agents, UnsubscribeAgent(c, b)
      PROVE  /\ follows'[c][a] = follows[c][a] /\ ~Following(c, a)
             /\ subs'[c][follows[c][a]] = subs[c][follows[c][a]]
  <2>1. /\ follows' = [follows EXCEPT ![c][b] = 0] /\ CanHandle(c) /\ follows[c][b] # 0
        /\ subs' = [subs EXCEPT ![c][follows[c][b]] = Dropped(subs[c][follows[c][b]])]
    BY <1>6 DEF UnsubscribeAgent
  <2>2. b # a /\ follows'[c][a] = follows[c][a]
    BY <1>0, <2>1
  <2>3. follows[c][b] # follows[c][a]
    BY <1>1, <2>1, <2>2
  <2> QED BY <1>2, <1>4, <2>1, <2>2, <2>3
<1>7. CASE FollowRegister(c) /\ handler[c].agent # a
  <2>1. PICK x, i : Registers(c, x, i)
    BY <1>7, FollowRegisters
  <2>2. follows' = [follows EXCEPT ![c][handler[c].agent] = Len(subs[c]) + 1]
    BY <1>7 DEF FollowRegister
  <2>3. follows'[c][a] = follows[c][a]
    BY <1>0, <1>7, <2>2
  <2> QED BY <1>3, <1>7, <2>1, <2>3, Zenon DEF Registers, Following
<1>8. CASE FollowReply(c) \/ Disconnect(c)
  <2>1. follows' = follows /\ subs' = subs /\ handler[c].pc # "follow"
    BY <1>8 DEF FollowReply, Disconnect, CanHandle
  <2> QED BY <2>1 DEF Following
<1>9. ASSUME NEW f \in Files, SubscribeConversation(c, f)
      PROVE  /\ follows'[c][a] = follows[c][a] /\ ~Following(c, a)
             /\ subs'[c][follows[c][a]] = subs[c][follows[c][a]]
  <2>1. follows' = follows /\ CanHandle(c)
    BY <1>9 DEF SubscribeConversation
  <2>2. PICK x : subs' = [subs EXCEPT ![c] = Append(@, x)]
    BY <1>9, Zenon DEF SubscribeConversation
  <2> QED BY <1>3, <1>4, <2>1, <2>2, Zenon
<1>10. ASSUME NEW t \in 1..MaxSubs, Unsubscribe(c, t)
       PROVE  /\ follows'[c][a] = follows[c][a] /\ ~Following(c, a)
              /\ subs'[c][follows[c][a]] = subs[c][follows[c][a]]
  <2>1. /\ CanHandle(c) /\ t \in DOMAIN subs[c]
        /\ subs' = [subs EXCEPT ![c][t] = Dropped(subs[c][t])]
        /\ follows' = IF subs[c][t].agent = None THEN follows
                      ELSE [follows EXCEPT ![c][subs[c][t].agent] = 0]
    BY <1>10 DEF Unsubscribe
  <2>2. follows'[c][a] = follows[c][a] /\ subs[c][t].agent # a
    BY <1>0, <2>1, SubFacts
  <2>3. follows[c][a] # t
    BY <1>1, <2>2
  <2> QED BY <1>2, <1>4, <2>1, <2>2, <2>3
<1>11. ~RemoveClient(c)
  BY DEF RemoveClient
<1> QED BY <1>5, <1>6, <1>7, <1>8, <1>9, <1>10, <1>11 DEF Client

\* Broadcast leaves the follows of other agents alone.
LEMMA OtherAgent ==
  ASSUME ServerInv, NEW c \in Clients,
         DeliverStarted(c) \/ DeliverSwitched(c) \/ DeliverSwitchedTo(c),
         NEW a \in Agents, a # bcast.event.agent, follows[c][a] # 0
  PROVE  subs'[c][follows[c][a]] = subs[c][follows[c][a]]
<1>0. /\ subs \in [Clients -> Seq(Subscription)] /\ ServerTypeOK /\ FollowsOf(c) /\ BroadcastOK
      /\ subs[c] \in Seq(Subscription)
  BY DEF ServerInv, ServerTypeOK, FollowsOK
<1>1. PICK t : t = follows[c][a]
  OBVIOUS
<1>2. t \in DOMAIN subs[c] /\ subs[c][t].agent = a
  BY <1>0, <1>1 DEF FollowsOf
<1>3. ASSUME NEW s, NEW x, subs' = [subs EXCEPT ![c][s] = x], s # t
      PROVE  subs'[c][t] = subs[c][t]
  BY <1>0, <1>2, <1>3
<1>4. CASE DeliverSwitched(c)
  <2>1. PICK s : s = follows[c][bcast.event.agent]
    OBVIOUS
  <2>2. subs' = subs \/ (s # 0 /\ subs' = [subs EXCEPT ![c][s] = Superseded(subs[c][s])])
    BY <1>4, <2>1 DEF DeliverSwitched
  <2>3. bcast.event.agent \in Agents
    BY <1>0, <1>4, AtClient, BroadcastFacts
  <2>4. s # 0 => subs[c][s].agent # a
    BY <1>0, <2>1, <2>3 DEF FollowsOf
  <2> QED BY <1>1, <1>2, <1>3, <2>2, <2>4
<1>5. CASE DeliverStarted(c) \/ DeliverSwitchedTo(c)
  <2>1. CASE subs' = subs
    BY <2>1
  <2>2. CASE subs' # subs
    <3>1. PICK s, f, i : Serves(c, s, f, i)
      BY <1>5, <2>2, Attaches
    <3>2. subs[c][s].agent = bcast.event.agent /\ \E x : subs' = [subs EXCEPT ![c][s] = x]
      BY <3>1, Zenon DEF Serves, Attach
    <3> QED BY <1>1, <1>2, <1>3, <3>2
  <2> QED BY <2>1, <2>2
<1> QED BY <1>4, <1>5

\* An Attach of client c's follow s puts it on conversation f.
LEMMA AttachedTo ==
  ASSUME subs \in [Clients -> Seq(Subscription)], NEW c \in Clients, NEW s \in DOMAIN subs[c],
         NEW f, NEW i, Attach(c, s, f, i)
  PROVE  subs'[c][s].conv = f /\ ~subs'[c][s].cancelled
<1>1. PICK x : x.conv = f /\ ~x.cancelled /\ subs' = [subs EXCEPT ![c][s] = x]
  BY Zenon DEF Attach
<1>2. subs[c] \in Seq(Subscription)
  OBVIOUS
<1> QED BY <1>1, <1>2

\* Broadcast comes to client c's follow of agent a.
LEMMA TracksDeliver ==
  ASSUME ServerInv, Named, NEW c \in Clients,
         DeliverStarted(c) \/ DeliverSwitched(c) \/ DeliverSwitchedTo(c),
         NEW a \in Agents, a = bcast.event.agent, removes = 0, InOrder(a), Switches(a),
         Tracks(c, a), follows[c][a] # 0, ~Following(c, a),
         subs'[c][follows[c][a]].conv # None
  PROVE  SwitchFor(c, a)' \/ OnTrack(c, a)'
<1>0. /\ ServerTypeOK /\ FollowsOf(c) /\ MainStreamIsActive /\ bcast \in Broadcaster
      /\ subs \in [Clients -> Seq(Subscription)] /\ active \in [Agents -> Files \cup {None}]
      /\ c # None /\ None \notin Files
  BY ServerAssumption, WatcherAssumption, Zenon
  DEF ServerInv, ServerTypeOK, FollowsOK, WatcherInv, TypeOK
<1>1. /\ UNCHANGED <<active, events, workers, follows, streams>>
      /\ Held(a)' = Held(a) /\ Queued(a)' = Queued(a)
  <2>1. UNCHANGED <<active, events, workers, follows, streams>>
    BY DEF DeliverStarted, DeliverSwitched, DeliverSwitchedTo, watcherVars
  <2> QED BY <2>1 DEF Held, Queued, Switching
<1>2. PICK s : s = follows[c][a] /\ s \in DOMAIN subs[c]
  BY <1>0 DEF FollowsOf
<1>3. PICK f : f = bcast.event.new
  OBVIOUS
<1>4. bcast # NoBroadcast /\ (DeliverSwitchedTo(c) => bcast.at = c)
  BY <1>0, AtClient
<1>5. Names(bcast.event) /\ (bcast.at # None => bcast.event.type = "conversation-switched")
  BY <1>4 DEF Named
<1>6. f # None => f \in MainFilesOf(a) /\ (streams[f] # 0 <=> f = active[a])
  BY <1>0, <1>3, <1>5 DEF Names, MainStreamIsActive
<1>7. ASSUME subs' = subs, ~Current(a)
      PROVE  SwitchFor(c, a)' \/ OnTrack(c, a)'
  BY <1>1, <1>7 DEF Tracks, SwitchFor, OnTrack
<1>8. ASSUME Attach(c, s, f, streams[f]), f = active[a]
      PROVE  OnTrack(c, a)'
  BY <1>0, <1>1, <1>2, <1>8, AttachedTo DEF OnTrack
<1>9. CASE DeliverStarted(c)
  <2>1. ~Current(a)
    BY <1>9 DEF DeliverStarted, Current, SwitchOf
  <2>2. subs' = subs \/ (streams[f] # 0 /\ Attach(c, s, f, streams[f]))
    BY <1>2, <1>3, <1>9 DEF DeliverStarted
  <2>3. f # None
    BY <1>0, <1>3, <1>4 DEF ServerInv, BroadcastOK
  <2> QED BY <1>6, <1>7, <1>8, <2>1, <2>2, <2>3
<1>10. CASE DeliverSwitched(c)
  <2>1. bcast' = [bcast EXCEPT !.at = c] /\ c \in bcast.todo
        /\ bcast.event.type = "conversation-switched"
    BY <1>10, Zenon DEF DeliverSwitched
  <2>2. bcast'.event = bcast.event /\ c \in bcast'.todo /\ bcast'.at = c
    BY <1>0, <2>1 DEF Broadcaster
  <2>3. bcast' # NoBroadcast
    BY <1>0, <2>2 DEF NoBroadcast
  <2> QED BY <2>1, <2>2, <2>3 DEF SwitchFor, Current, SwitchOf
<1>11. CASE DeliverSwitchedTo(c)
  <2>1. bcast.event.type = "conversation-switched" /\ f # None
    BY <1>0, <1>3, <1>4, <1>5, <1>11 DEF Names
  <2>2. Current(a)
    BY <1>4, <2>1 DEF Current, SwitchOf
  <2>3. f = active[a] \/ Queued(a) \/ Held(a)
    BY <1>3, <2>2 DEF Switches, LastIsActive
  <2>4. CASE f = active[a]
    <3>1. Attach(c, s, f, streams[f])
      BY <1>2, <1>3, <1>6, <1>11, <2>1, <2>4 DEF DeliverSwitchedTo
    <3> QED BY <1>8, <2>4, <3>1
  <2> QED BY <1>1, <2>3, <2>4 DEF SwitchFor
<1> QED BY <1>9, <1>10, <1>11

\* A follow that is registered is on the active conversation.
LEMMA TracksRegister ==
  ASSUME ServerInv, Named, NEW c \in Clients, FollowRegister(c), NEW a \in Agents,
         a = handler[c].agent, subs'[c][follows'[c][a]].conv # None
  PROVE  OnTrack(c, a)'
<1>0. /\ subs \in [Clients -> Seq(Subscription)] /\ MainStreamIsActive
      /\ follows \in [Clients -> [Agents -> 0..MaxSubs]] /\ subs[c] \in Seq(Subscription)
  BY DEF ServerInv, ServerTypeOK, WatcherInv
<1>1. PICK f : f = handler[c].conv
  OBVIOUS
<1>2. f \in MainFilesOf(a) \cup {None}
  BY <1>1 DEF Named, FollowRegister
<1>3. PICK n : n = Len(subs[c]) + 1
  OBVIOUS
<1>4. follows'[c][a] = n /\ active' = active
  BY <1>0, <1>3 DEF FollowRegister, watcherVars
<1>5. PICK x : /\ subs' = [subs EXCEPT ![c] = Append(@, x)]
               /\ x.conv # None => x.conv = f /\ f # None /\ streams[f] # 0 /\ ~x.cancelled
  BY <1>1 DEF FollowRegister, Fresh
<1>6. subs'[c][n] = x
  BY <1>0, <1>3, <1>5
<1>7. x.conv # None
  BY <1>4, <1>6
<1>8. f = active[a]
  BY <1>0, <1>2, <1>5, <1>7 DEF MainStreamIsActive
<1> QED BY <1>4, <1>5, <1>6, <1>7, <1>8, Zenon DEF OnTrack

LEMMA TracksStep ==
  ASSUME ServerInv, NoRemovals, Named, LateOK, ServerNext, NEW a \in Agents, Switches(a),
         NEW c \in clients', \A d \in clients : Tracks(d, a)
  PROVE  Tracks(c, a)'
<1>0. /\ c \in clients /\ c \in Clients /\ WatcherInv /\ [Next]_watcherVars
      /\ bcast \in Broadcaster
  <2>1. clients' \subseteq clients /\ clients \subseteq Clients
    BY ZenonT(30) DEF ServerInv, ServerTypeOK, ServerNext, Watcher, Pump, Client, FollowAgent,
           UnsubscribeAgent, FollowRegister, FollowReply, SubscribeConversation, Unsubscribe,
           Disconnect, RemoveClient, Broadcast, BroadcastNext, DeliverStarted, DeliverSwitched,
           DeliverSwitchedTo, Streaming, StreamEnter, StreamReceive, StreamSend, StreamDrop, StreamEnd,
           clientVars
  <2> QED BY <2>1, ServerStepMaps DEF ServerInv, ServerTypeOK
<1>1. SUFFICES ASSUME removes' = 0, InOrder(a)', follows'[c][a] # 0, ~Following(c, a)',
                      subs'[c][follows'[c][a]].conv # None
               PROVE  SwitchFor(c, a)' \/ OnTrack(c, a)'
  BY DEF Tracks
<1>2. removes = 0 /\ ~LoopRemoved /\ InOrder(a)
  BY <1>0, <1>1, NoRemovalsStep, OrderStep
<1>3. Tracks(c, a)
  BY <1>0
<1>4. ASSUME follows'[c][a] = follows[c][a], ~Following(c, a),
             subs'[c][follows[c][a]] = subs[c][follows[c][a]]
      PROVE  SwitchFor(c, a) \/ OnTrack(c, a)
  BY <1>1, <1>2, <1>3, <1>4 DEF Tracks
<1>5. CASE Watcher
  <2>1. WatcherNext /\ UNCHANGED <<subs, follows, handler, bcast>>
    BY <1>5 DEF Watcher, clientVars
  <2>2. SwitchFor(c, a) \/ OnTrack(c, a)
    BY <1>1, <1>4, <2>1 DEF Following
  <2>3. SwitchFor(c, a) => SwitchFor(c, a)'
    BY <1>0, <1>2, <2>1, SwitchMoves DEF SwitchFor, Current
  <2>4. OnTrack(c, a) => OnTrack(c, a)' \/ Held(a)'
    BY <1>0, <1>1, <1>2, <2>1, SwitchMoves DEF OnTrack
  <2> QED BY <2>2, <2>3, <2>4 DEF SwitchFor
<1>6. CASE BroadcastNext
  <2>1. UNCHANGED <<subs, follows, handler, active, workers>>
    BY <1>6 DEF BroadcastNext
  <2>2. SwitchFor(c, a) \/ OnTrack(c, a)
    BY <1>1, <1>4, <2>1 DEF Following
  <2>3. OnTrack(c, a) => OnTrack(c, a)'
    BY <2>1 DEF OnTrack
  <2>4. Held(a) => Held(a)'
    BY <2>1 DEF Held, Switching
  <2>5. ~Current(a)
    BY <1>6 DEF BroadcastNext, Current
  <2>6. ASSUME NEW k \in DOMAIN events, SwitchOf(events[k], a)
        PROVE  SwitchFor(c, a)'
    <3>1. PICK e : e = Head(events)
      OBVIOUS
    <3>2. CASE k # 1
      <4>1. k - 1 \in DOMAIN events' /\ events'[k - 1] = events[k]
        BY <1>6, <3>1, <3>2, NextFacts
      <4> QED BY <2>6, <4>1 DEF SwitchFor, Queued
    <3>3. CASE k = 1
      <4>1. e = events[k]
        BY <1>6, <3>1, <3>3, NextFacts
      <4>2. e.new # None /\ SwitchOf(e, a)
        BY <2>6, <4>1 DEF Named, Names, SwitchOf
      <4>3. bcast' # NoBroadcast /\ bcast'.event = e /\ bcast'.todo = clients
        BY <1>0, <1>6, <3>1, <4>2, NextFacts
      <4> QED BY <1>0, <4>2, <4>3 DEF SwitchFor, Current
    <3> QED BY <3>2, <3>3
  <2> QED BY <2>2, <2>3, <2>4, <2>5, <2>6 DEF SwitchFor, Queued
<1>7. CASE ~Watcher /\ ~BroadcastNext
  <2>1. UNCHANGED <<active, events, workers>> /\ (bcast' # NoBroadcast => bcast'.event = bcast.event)
    BY <1>7, ServerAlone DEF watcherVars
  <2>2. Held(a)' = Held(a) /\ Queued(a)' = Queued(a)
    BY <2>1 DEF Held, Queued, Switching
  <2>3. ASSUME follows'[c][a] = follows[c][a], ~Following(c, a),
               subs'[c][follows[c][a]] = subs[c][follows[c][a]], Current(a) /\ c \in bcast.todo =>
                 bcast' # NoBroadcast /\ c \in bcast'.todo
        PROVE  SwitchFor(c, a)' \/ OnTrack(c, a)'
    <3>1. SwitchFor(c, a) \/ OnTrack(c, a)
      BY <1>4, <2>3
    <3>2. SwitchFor(c, a) => SwitchFor(c, a)'
      BY <2>1, <2>2, <2>3 DEF SwitchFor, Current
    <3>3. OnTrack(c, a) => OnTrack(c, a)'
      BY <2>1, <2>3 DEF OnTrack
    <3> QED BY <3>1, <3>2, <3>3
  <2>4. ASSUME NEW d \in Clients, d # c,
               DeliverStarted(d) \/ DeliverSwitched(d) \/ DeliverSwitchedTo(d)
        PROVE  SwitchFor(c, a)' \/ OnTrack(c, a)'
    <3>1. subs'[c] = subs[c] /\ follows'[c] = follows[c] /\ handler'[c] = handler[c]
      BY <1>0, <2>4, Others
    <3>2. ASSUME bcast # NoBroadcast, c \in bcast.todo
          PROVE  bcast' # NoBroadcast /\ c \in bcast'.todo
      <4>1. CASE bcast' = Served(d)
        <5>1. PICK b, f : b = bcast.event.agent /\ f = bcast.event.new
          OBVIOUS
        <5>2. InHand(c, b, f)
          BY <3>2, <5>1 DEF InHand
        <5>3. InHand(c, b, f)'
          BY <1>0, <2>4, <4>1, <5>2, ServedKeeps
        <5> QED BY <5>3 DEF InHand
      <4>2. CASE bcast' # Served(d)
        <5>1. bcast' = [bcast EXCEPT !.at = d]
          BY <2>4, <4>2 DEF DeliverStarted, DeliverSwitched, DeliverSwitchedTo
        <5>2. bcast'.todo = bcast.todo
          BY <1>0, <5>1 DEF Broadcaster
        <5> QED BY <3>2, <5>2 DEF NoBroadcast
      <4> QED BY <4>1, <4>2
    <3> QED BY <1>1, <2>3, <3>1, <3>2 DEF Following, Current
  <2>5. CASE DeliverStarted(c) \/ DeliverSwitched(c) \/ DeliverSwitchedTo(c)
    <3>1. follows' = follows /\ handler' = handler
      BY <2>5 DEF DeliverStarted, DeliverSwitched, DeliverSwitchedTo
    <3>2. ~Following(c, a)
      BY <1>1, <3>1 DEF Following
    <3>3. CASE a = bcast.event.agent
      BY <1>0, <1>1, <1>2, <1>3, <2>5, <3>1, <3>2, <3>3, TracksDeliver
    <3>4. CASE a # bcast.event.agent
      <4>1. ~Current(a)
        BY <3>4 DEF Current, SwitchOf
      <4> QED BY <1>0, <1>1, <2>3, <2>5, <3>1, <3>2, <3>4, <4>1, OtherAgent
    <3> QED BY <3>3, <3>4
  <2>6. ASSUME NEW d \in Clients, Client(d)
        PROVE  SwitchFor(c, a)' \/ OnTrack(c, a)'
    <3>1. bcast' = bcast
      BY <2>6, Zenon DEF Client, FollowAgent, UnsubscribeAgent, FollowRegister, FollowReply,
                  SubscribeConversation, Unsubscribe, Disconnect, RemoveClient
    <3>2. CASE d # c
      <4>1. subs'[c] = subs[c] /\ follows'[c] = follows[c] /\ handler'[c] = handler[c]
        BY <1>0, <2>6, <3>2, Others
      <4> QED BY <1>1, <2>3, <3>1, <4>1 DEF Following, Current
    <3>3. CASE d = c
      <4>1. CASE FollowRegister(c) /\ handler[c].agent = a
        BY <1>0, <1>1, <4>1, TracksRegister
      <4>2. CASE ~(FollowRegister(c) /\ handler[c].agent = a)
        BY <1>0, <1>1, <2>3, <2>6, <3>1, <3>3, <4>2, OwnFollow DEF Current
      <4> QED BY <4>1, <4>2
    <3> QED BY <3>2, <3>3
  <2>7. CASE UNCHANGED <<subs, follows, handler, bcast>>
    BY <1>1, <2>3, <2>7 DEF Following, Current
  <2> QED BY <1>7, <2>4, <2>5, <2>6, <2>7, OthersStep
<1> QED BY <1>5, <1>6, <1>7

\* A live follow that stays was live before.
LEMMA LiveBefore ==
  ASSUME ServerInv, ServerNext, NEW c \in Clients, NEW s, Stays(c, s), NEW x, x = subs'[c][s],
         Live(x)'
  PROVE  /\ Live(subs[c][s]) /\ x.conv = subs[c][s].conv /\ x.chan = subs[c][s].chan
         /\ x.gen = subs[c][s].gen /\ x.agent = subs[c][s].agent
<1>1. /\ s \in DOMAIN subs[c] /\ x.conv = subs[c][s].conv /\ x.chan = subs[c][s].chan
      /\ x.gen = subs[c][s].gen
      /\ subs[c][s].agent # None /\ subs[c][s].gen # 0 /\ subs[c][s].cancelled => x.cancelled
  BY DEF Stays
<1>2. x.agent = subs[c][s].agent /\ (x.listed => subs[c][s].listed)
  BY <1>1, SubsStep DEF SubMoves
<1>3. subs[c][s].conv # None => subs[c][s].gen # 0
  BY <1>1, ConnectedNow, SubFacts DEF Connected
<1>4. StreamedOnce(x.conv)
  <2>1. PoolGrows
    BY ServerStepMaps, PoolStep DEF ServerInv
  <2> QED BY <2>1 DEF PoolGrows, StreamedOnce, Live
<1>5. x.listed /\ x.agent # None /\ x.conv # None /\ ~x.cancelled
  BY DEF Live
<1> QED BY <1>1, <1>2, <1>3, <1>4, <1>5 DEF Live

\* The channel of a live follow is open.
LEMMA OpenFollowsStep ==
  ASSUME ServerInv, ServerNext, OpenFollows
  PROVE  OpenFollows'
<1> SUFFICES ASSUME NEW c \in Clients, NEW s \in DOMAIN subs'[c], NEW x, x = subs'[c][s], Live(x)'
             PROVE  Channel(x.chan)'.open
  BY DEF OpenFollows
<1>1. CASE Changes(c, s)
  BY <1>1 DEF Changes, Live
<1>2. CASE Stays(c, s)
  <2>1. PICK y : y = subs[c][s]
    OBVIOUS
  <2>2. s \in DOMAIN subs[c] /\ Live(y) /\ x.conv = y.conv /\ x.chan = y.chan
    BY <1>2, <2>1, LiveBefore DEF Stays
  <2>3. Channel(y.chan).open
    BY <2>1, <2>2 DEF OpenFollows
  <2>4. y.conv # None /\ StreamedOnce(y.conv)
    BY <2>2 DEF Live
  <2>5. subs'[c][s].listed /\ ~subs'[c][s].cancelled
    BY DEF Live
  <2>6. Channel(y.chan)'.open
    BY <2>1, <2>2, <2>3, <2>4, <2>5, OpenStays
  <2> QED BY <2>2, <2>6
<1> QED BY <1>1, <1>2, SubsStep

\* Only a goroutine of streamLiveWithContext ends one.
LEMMA GosGrow ==
  ASSUME ServerNext, ~Streaming
  PROVE  gos \subseteq gos'
<1>1. CASE Watcher \/ BroadcastNext \/ \E i \in DOMAIN pool : Pump(i)
  BY <1>1 DEF Watcher, BroadcastNext, Pump, clientVars
<1>2. ASSUME NEW c \in Clients, DeliverStarted(c) \/ DeliverSwitched(c) \/ DeliverSwitchedTo(c)
      PROVE  gos \subseteq gos'
  BY <1>2, Zenon DEF DeliverStarted, DeliverSwitched, DeliverSwitchedTo, Attach
<1>3. ASSUME NEW c \in Clients, Client(c)
      PROVE  gos \subseteq gos'
  BY <1>3, Zenon DEF Client, FollowAgent, UnsubscribeAgent, FollowRegister, FollowReply,
              SubscribeConversation, Unsubscribe, Disconnect, RemoveClient
<1> QED BY <1>1, <1>2, <1>3 DEF ServerNext, Broadcast

\* The goroutine of a live follow goes on.
LEMMA GoStays ==
  ASSUME ServerInv, ServerNext, OpenFollows, NEW c \in Clients \ closing, NEW s, Stays(c, s),
         Live(subs[c][s]), NEW g \in gos, Serving(g, c, s)
  PROVE  \E h \in gos' : Serving(h, c, s)'
<1>1. PICK y : y = subs[c][s]
  OBVIOUS
<1>2. /\ g.client = c /\ g.sub = s /\ g.gen = y.gen /\ (g.pc # "enter" => g.chan = y.chan)
      /\ s \in DOMAIN subs[c] /\ subs'[c][s].gen = y.gen /\ subs'[c][s].chan = y.chan
  BY <1>1 DEF Serving, Stays
<1>3. ASSUME NEW h \in gos', h.client = c, h.sub = s, h.gen = y.gen,
             h.pc # "enter" => h.chan = y.chan
      PROVE  \E k \in gos' : Serving(k, c, s)'
  BY <1>2, <1>3 DEF Serving
<1>4. CASE g \in gos'
  BY <1>2, <1>3, <1>4
<1>5. CASE StreamEnter(g)
  <2>1. PICK h : h = [client |-> g.client, sub |-> g.sub, gen |-> g.gen, pc |-> "wait",
                      chan |-> subs[g.client][g.sub].chan, seq |-> 0]
    BY Zenon
  <2>2. h \in gos'
    BY <1>5, <2>1 DEF StreamEnter, Replaced
  <2> QED BY <1>1, <1>2, <1>3, <2>1, <2>2
<1>6. CASE StreamReceive(g)
  <2>1. PICK h : h = [client |-> g.client, sub |-> g.sub, gen |-> g.gen, pc |-> "send",
                      chan |-> g.chan, seq |-> Head(Channel(g.chan).q)]
    BY Zenon
  <2>2. h \in gos' /\ g.pc = "wait"
    BY <1>6, <2>1 DEF StreamReceive, Replaced
  <2> QED BY <1>2, <1>3, <2>1, <2>2
<1>7. CASE StreamSend(g) \/ StreamDrop(g)
  <2>1. PICK h : h = GoStream(g.client, g.sub, g.gen)
    OBVIOUS
  <2>2. h \in gos'
    BY <1>7, <2>1 DEF StreamSend, StreamDrop, Replaced
  <2>3. h.client = c /\ h.sub = s /\ h.gen = y.gen /\ h.pc = "enter"
    BY <1>2, <2>1 DEF GoStream
  <2> QED BY <1>3, <2>2, <2>3
<1>8. ~StreamEnd(g)
  <2>1. SUFFICES ASSUME StreamEnd(g) PROVE FALSE
    OBVIOUS
  <2>2. g.chan = y.chan /\ Channel(y.chan).open
    BY <1>1, <1>2, <2>1 DEF StreamEnd, OpenFollows
  <2>3. y \in Subscription
    BY <1>1, <1>2, ConnectedNow
  <2>4. ~Cancelled(g)
    BY <1>1, <1>2, <2>3, SubFacts DEF Cancelled, Live
  <2> QED BY <2>1, <2>2, <2>4 DEF StreamEnd
<1>9. ASSUME NEW k \in gos, k # g,
             \/ StreamEnter(k) \/ StreamReceive(k)
             \/ StreamSend(k) \/ StreamDrop(k) \/ StreamEnd(k)
      PROVE  g \in gos'
  BY <1>9 DEF StreamEnter, StreamReceive, StreamSend, StreamDrop, StreamEnd, Replaced
<1> QED BY <1>4, <1>5, <1>6, <1>7, <1>8, <1>9, GosGrow DEF Streaming

\* A follow that gets a new stream gets a goroutine.
LEMMA StreamedNew ==
  ASSUME ServerInv, ServerNext, NEW c \in Clients, NEW s \in DOMAIN subs'[c],
         NEW x, x = subs'[c][s], Live(x)', ~Stays(c, s)
  PROVE  (\E g \in gos' : Serving(g, c, s)') \/ AboutToServe(c, s)'
<1>0. /\ subs \in [Clients -> Seq(Subscription)] /\ subs[c] \in Seq(Subscription)
      /\ ServerTypeOK /\ HandlerOK /\ FollowsOf(c) /\ None \notin Agents /\ bufs \in Seq(Buffer)
  BY WatcherAssumption DEF ServerInv, ServerTypeOK, FollowsOK
<1>1. ~(s \in DOMAIN subs[c] /\ x = subs[c][s])
  BY DEF Stays
<1>2. x.listed /\ x.agent # None /\ x.conv # None /\ ~x.cancelled
  BY DEF Live
<1>3. x.gen # 0
  <2>1. Connected(x)'
    BY ConnectedStep
  <2> QED BY <1>2, <2>1 DEF Connected
<1>4. ASSUME NEW t \in DOMAIN subs[c], NEW y \in Subscription, subs' = [subs EXCEPT ![c][t] = y]
      PROVE  s = t /\ x = y
  BY <1>0, <1>1, <1>4, OneSub
<1>5. ASSUME NEW t \in DOMAIN subs[c], subs' = [subs EXCEPT ![c][t] = Dropped(subs[c][t])]
      PROVE  FALSE
  <2>1. subs[c][t] \in Subscription
    BY <1>0, <1>5
  <2>2. x = Dropped(subs[c][t])
    BY <1>4, <1>5, <2>1, DroppedFacts, Zenon
  <2> QED BY <1>2, <2>1, <2>2, DroppedFacts
<1>6. ASSUME NEW t \in DOMAIN subs[c], subs' = [subs EXCEPT ![c][t] = Superseded(subs[c][t])]
      PROVE  FALSE
  <2>1. subs[c][t] \in Subscription
    BY <1>0, <1>6
  <2>2. x = Superseded(subs[c][t])
    BY <1>4, <1>6, <2>1, SupersededFacts, Zenon
  <2> QED BY <1>2, <1>3, <2>1, <2>2, SupersededFacts, Zenon
<1>7. subs' # subs
  BY <1>1
<1>8. ASSUME NEW d \in Clients, d # c,
             Client(d) \/ DeliverStarted(d) \/ DeliverSwitched(d) \/ DeliverSwitchedTo(d)
      PROVE  FALSE
  BY <1>1, <1>8, Others
<1>9. CASE DeliverSwitched(c)
  <2>1. PICK t : t = follows[c][bcast.event.agent]
    OBVIOUS
  <2>2. t # 0 /\ subs' = [subs EXCEPT ![c][t] = Superseded(subs[c][t])]
    BY <1>7, <1>9, <2>1 DEF DeliverSwitched
  <2>3. bcast.event.agent \in Agents
    BY <1>0, <1>9, AtClient, BroadcastFacts DEF ServerInv
  <2>4. t \in DOMAIN subs[c]
    BY <1>0, <2>1, <2>2, <2>3 DEF FollowsOf
  <2> QED BY <1>6, <2>2, <2>4, Zenon
<1>10. CASE DeliverStarted(c) \/ DeliverSwitchedTo(c)
  <2>1. PICK t, f, i : Serves(c, t, f, i)
    BY <1>7, <1>10, Attaches
  <2>2. PICK new : new = NextChan(i)
    OBVIOUS
  <2>3. /\ t \in DOMAIN subs[c] /\ f \in Files /\ i \in DOMAIN bufs
        /\ subs[c][t].agent # None /\ Attach(c, t, f, i)
    BY <1>0, <2>1 DEF Serves
  <2>4. ServerTypeOK
    BY <1>0
  <2>5. PICK y \in Subscription : /\ subs' = [subs EXCEPT ![c][t] = y]
                                  /\ y.gen = subs[c][t].gen + 1
    BY <2>2, <2>3, <2>4, AttachFacts
  <2>6. s = t /\ x = y
    BY <1>4, <2>3, <2>5, Zenon
  <2>7. PICK g : g = GoStream(c, s, x.gen)
    OBVIOUS
  <2>8. g \in gos' /\ g.client = c /\ g.sub = s /\ g.gen = x.gen /\ g.pc = "enter"
    BY <2>3, <2>5, <2>6, <2>7 DEF Attach, GoStream
  <2> QED BY <2>8 DEF Serving
<1>11. ASSUME NEW b \in Agents, FollowAgent(c, b) \/ UnsubscribeAgent(c, b)
       PROVE  FALSE
  <2>1. PICK t : t = follows[c][b]
    OBVIOUS
  <2>2. t # 0 /\ subs' = [subs EXCEPT ![c][t] = Dropped(subs[c][t])]
    BY <1>7, <1>11, <2>1 DEF FollowAgent, UnsubscribeAgent
  <2>3. t \in DOMAIN subs[c]
    BY <1>0, <2>1, <2>2 DEF FollowsOf
  <2> QED BY <1>5, <2>2, <2>3, Zenon
<1>12. ASSUME NEW y, NEW i, Registers(c, y, i)
       PROVE  s = Len(subs[c]) + 1 /\ x = y /\ s = Len(subs'[c])
  <2>1. PICK n : n = Len(subs[c])
    BY Zenon
  <2>2. y \in Subscription /\ subs' = [subs EXCEPT ![c] = Append(subs[c], y)]
    BY <1>12 DEF Registers
  <2>3. /\ n \in Nat /\ DOMAIN subs[c] = 1..n
        /\ Len(subs'[c]) = n + 1 /\ DOMAIN subs'[c] = 1..(n + 1) /\ subs'[c][n + 1] = y
        /\ \A t \in DOMAIN subs[c] : subs'[c][t] = subs[c][t]
    BY <1>0, <2>1, <2>2, NewSub
  <2>4. s = n + 1
    BY <1>1, <2>3
  <2> QED BY <2>1, <2>3, <2>4
<1>13. CASE FollowRegister(c)
  <2>1. PICK y, i : Registers(c, y, i)
    BY <1>13, FollowRegisters
  <2>2. s = Len(subs'[c]) /\ x = y
    BY <1>12, <2>1
  <2>3. x.gen = 1
    BY <1>2, <2>1, <2>2 DEF Registers
  <2>4. handler'[c].pc = "reply" /\ handler'[c].conv # None
    <3>1. handler \in [Clients -> Handler]
      BY <1>0 DEF ServerTypeOK
    <3>2. PICK j : j = IF handler[c].conv = None THEN 0 ELSE streams[handler[c].conv]
      OBVIOUS
    <3>3. j # 0
      <4>1. SUFFICES ASSUME j = 0 PROVE FALSE
        OBVIOUS
      <4>2. PICK z : z = Fresh(handler[c].agent, None, <<0, 0>>, 0)
        OBVIOUS
      <4>3. subs' = [subs EXCEPT ![c] = Append(@, z)]
        BY <1>13, <3>2, <4>1, <4>2 DEF FollowRegister
      <4>4. subs'[c][Len(subs[c]) + 1] = z
        BY <1>0, <4>3
      <4>5. x = z
        BY <1>12, <2>1, <4>4
      <4> QED BY <1>2, <4>2, <4>5 DEF Fresh
    <3>4. handler' = [handler EXCEPT ![c] = [AtRest EXCEPT !.pc = "reply",
                          !.conv = handler[c].conv]]
      BY <1>13, <3>2, <3>3 DEF FollowRegister
    <3>5. handler[c].conv # None
      BY <3>2, <3>3
    <3> QED BY <3>1, <3>4, <3>5 DEF AtRest
  <2> QED BY <2>2, <2>3, <2>4 DEF AboutToServe
<1>14. ASSUME NEW f \in Files, SubscribeConversation(c, f)
       PROVE  FALSE
  <2>1. PICK y, i : Registers(c, y, i) /\ y.agent = None
    BY <1>14, SubscribeRegisters
  <2> QED BY <1>2, <1>12, <2>1
<1>15. ASSUME NEW t \in 1..MaxSubs, Unsubscribe(c, t)
       PROVE  FALSE
  BY <1>5, <1>15, Zenon DEF Unsubscribe
<1>16. ~FollowReply(c) /\ ~Disconnect(c)
  BY <1>7 DEF FollowReply, Disconnect
<1>17. ~RemoveClient(c)
  <2>1. SUFFICES ASSUME RemoveClient(c) PROVE FALSE
    OBVIOUS
  <2>2. s \in DOMAIN subs[c] /\ x = Dropped(subs[c][s]) /\ subs[c][s] \in Subscription
    BY <1>0, <2>1, RemoveFacts
  <2> QED BY <1>2, <2>2, DroppedFacts
<1> QED BY <1>7, <1>8, <1>9, <1>10, <1>11, <1>13, <1>14, <1>15, <1>16, <1>17, OthersStep
        DEF Client

LEMMA StreamedStep ==
  ASSUME ServerInv, ServerNext, OpenFollows, Streamed
  PROVE  Streamed'
<1> SUFFICES ASSUME NEW c \in Clients \ closing', NEW s \in DOMAIN subs'[c],
                    NEW x, x = subs'[c][s], Live(x)'
             PROVE  (\E g \in gos' : Serving(g, c, s)') \/ AboutToServe(c, s)'
  BY DEF Streamed
<1>1. c \notin closing
  BY ZenonT(30) DEF ServerNext, Watcher, Pump, Client, FollowAgent,
         UnsubscribeAgent, FollowRegister, FollowReply, SubscribeConversation, Unsubscribe,
         Disconnect, RemoveClient, Broadcast, BroadcastNext, DeliverStarted, DeliverSwitched,
         DeliverSwitchedTo, Streaming, StreamEnter, StreamReceive, StreamSend, StreamDrop, StreamEnd,
         clientVars
<1>2. CASE ~Stays(c, s)
  BY <1>2, StreamedNew
<1>3. CASE Stays(c, s)
  <2>1. Live(subs[c][s]) /\ s \in DOMAIN subs[c]
    BY <1>3, LiveBefore DEF Stays
  <2>2. CASE \E g \in gos : Serving(g, c, s)
    BY <1>1, <1>3, <2>1, <2>2, GoStays
  <2>3. CASE AboutToServe(c, s)
    <3>1. ~FollowRegister(c) /\ ~\E b \in Agents : FollowAgent(c, b)
      BY <2>3 DEF AboutToServe, FollowRegister, FollowAgent, CanHandle
    <3>2. CASE FollowReply(c)
      <4>1. PICK g : g = GoStream(c, s, 1)
        OBVIOUS
      <4>2. g \in gos' /\ subs' = subs
        BY <2>3, <3>2, <4>1 DEF AboutToServe, FollowReply
      <4>3. g.client = c /\ g.sub = s /\ g.gen = 1 /\ g.pc = "enter"
        BY <4>1 DEF GoStream
      <4> QED BY <2>3, <4>2, <4>3 DEF AboutToServe, Serving
    <3>3. CASE handler'[c] = handler[c] /\ (handler[c].pc # "idle" => Len(subs'[c]) = Len(subs[c]))
      BY <1>3, <2>3, <3>3 DEF AboutToServe, Stays
    <3> QED BY <3>1, <3>2, <3>3, HandlerKinds
  <2> QED BY <1>1, <2>1, <2>2, <2>3 DEF Streamed
<1> QED BY <1>2, <1>3


LEMMA InitTrackInv == ServerInit => TrackInv
<1> SUFFICES ASSUME ServerInit PROVE TrackInv
  OBVIOUS
<1>1. Init /\ pool = <<>> /\ events = <<>> /\ removes = 0 /\ loop.pc = "start"
      /\ \A w \in Workers : workers[w].pc = "idle"
  BY Zenon DEF ServerInit, Init, Idle, Job
<1>2. \A c \in Clients : subs[c] = <<>> /\ handler[c].pc = "idle"
                         /\ \A a \in Agents : follows[c][a] = 0
  BY DEF ServerInit, AtRest
<1>3. bcast = NoBroadcast /\ bcast.at = None /\ clients = Clients
  BY DEF ServerInit, NoBroadcast
<1>4. NoRemovals
  <2>1. \A i \in DOMAIN regEvents : regEvents[i].type = "added"
    BY <1>1 DEF Init
  <2> QED BY <1>1, <2>1 DEF NoRemovals
<1>5. Named
  BY <1>1, <1>2, <1>3 DEF Named
<1>6. LateOK
  BY <1>1 DEF LateOK
<1>7. ASSUME NEW a \in Agents PROVE Switches(a)
  <2>1. ~Held(a) /\ ~Queued(a) /\ ~Current(a)
    BY <1>1, <1>3 DEF Held, Switching, Queued, Current
  <2>2. NewestIsActive(a) /\ LastIsActive(a)
    BY <1>1, <2>1 DEF NewestIsActive, Switching, LastIsActive
  <2> QED BY <2>1, <2>2 DEF Switches, FirstIsNoSwitch
<1>8. \A c \in clients : \A a \in Agents : Tracks(c, a)
  BY <1>2, <1>3 DEF Tracks
<1>9. OpenFollows /\ Streamed
  BY <1>2 DEF OpenFollows, Streamed
<1> QED BY <1>4, <1>5, <1>6, <1>7, <1>8, <1>9 DEF TrackInv

LEMMA TrackInvStep ==
  ASSUME ServerInv, TrackInv, ServerNext
  PROVE  TrackInv'
<1>0. WatcherInv /\ [Next]_watcherVars
  BY ServerStepMaps DEF ServerInv
<1>1. /\ NoRemovals /\ Named /\ LateOK /\ OpenFollows /\ Streamed
      /\ \A a \in Agents : Switches(a)
      /\ \A a \in Agents : \A d \in clients : Tracks(d, a)
  BY DEF TrackInv
<1>2. NoRemovals'
  BY <1>0, <1>1, NoRemovalsStep
<1>3. LateOK'
  BY <1>0, <1>1, OrderStep
<1>4. Named'
  BY <1>1, NamedStep
<1>5. \A a \in Agents : Switches(a)'
  BY <1>1, SwitchesStep
<1>6. \A c \in clients' : \A a \in Agents : Tracks(c, a)'
  BY <1>1, TracksStep
<1>7. OpenFollows' /\ Streamed'
  BY <1>1, OpenFollowsStep, StreamedStep
<1> QED BY <1>2, <1>3, <1>4, <1>5, <1>6, <1>7 DEF TrackInv

LEMMA TrackInvStutters ==
  ASSUME TrackInv, UNCHANGED serverVars
  PROVE  TrackInv'
<1>1. NoRemovals' /\ LateOK'
  BY DEF serverVars, watcherVars, TrackInv, NoRemovals, LateOK, Overtaken
<1>2. Named'
  BY DEF serverVars, watcherVars, clientVars, TrackInv, Named, Names
<1>3. ASSUME NEW a \in Agents PROVE Switches(a)'
  <2>1. Switches(a)
    BY DEF TrackInv
  <2>2. UNCHANGED <<active, events, pool, workers, removes, bcast>>
    BY DEF serverVars, watcherVars, clientVars
  <2> QED BY <2>1, <2>2, SwitchesSame
<1>4. ASSUME NEW c \in clients', NEW a \in Agents PROVE Tracks(c, a)'
  <2>1. c \in clients /\ Tracks(c, a)
    BY DEF TrackInv, serverVars, clientVars
  <2>2. UNCHANGED <<active, events, pool, workers, removes>>
    BY DEF serverVars, watcherVars
  <2>3. UNCHANGED <<bcast, subs, follows, handler>>
    BY DEF serverVars, clientVars
  <2>4. InOrder(a)' = InOrder(a) /\ SwitchFor(c, a)' = SwitchFor(c, a)
    BY <2>2, <2>3 DEF InOrder, SwitchFor, Held, Switching, Queued, Current
  <2>5. OnTrack(c, a)' = OnTrack(c, a) /\ Following(c, a)' = Following(c, a)
    BY <2>2, <2>3 DEF OnTrack, Following
  <2> QED BY <2>1, <2>2, <2>3, <2>4, <2>5 DEF Tracks
<1>5. OpenFollows' /\ Streamed'
  <2>1. UNCHANGED <<pool, bufs, subs, gos, handler, closing>>
    BY DEF serverVars, watcherVars, clientVars
  <2>2. \A x : Live(x)' <=> Live(x)
    BY <2>1 DEF Live, StreamedOnce
  <2>3. \A ch : Channel(ch)' = Channel(ch)
    BY <2>1 DEF Channel
  <2>4. OpenFollows'
    BY <2>1, <2>2, <2>3 DEF TrackInv, OpenFollows
  <2>5. Streamed'
    BY <2>1, <2>2 DEF TrackInv, Streamed, Serving, AboutToServe
  <2> QED BY <2>4, <2>5
<1> QED BY <1>1, <1>2, <1>3, <1>4, <1>5 DEF TrackInv

\* When nothing is left to do, a follow that is to be woken or told has been.
LEMMA TrackedNow ==
  ASSUME ServerInv, TrackInv, PendingFollowIsWoken
  PROVE  FollowerTracksActive
<1> SUFFICES ASSUME NEW c \in clients, NEW a \in Agents, AtRestOnAgent(c, a), InOrder(a)
             PROVE  OnActive(c, a)
  BY DEF FollowerTracksActive
<1>0. /\ WatcherInv /\ ServerTypeOK /\ FollowsOf(c) /\ SubsOK /\ c \in Clients
      /\ None \notin Agents /\ None \notin Files
  BY WatcherAssumption DEF ServerInv, ServerTypeOK, FollowsOK
<1>1. PICK s, x : s = follows[c][a] /\ x = subs[c][s]
  OBVIOUS
<1>2. PICK f : f = active[a]
  OBVIOUS
<1>3. /\ s # 0 /\ f # None /\ removes = 0 /\ StreamedOnce(f)
      /\ ~Coming(c, a) /\ handler[c].pc = "idle" /\ Quiet(a)
  BY <1>1, <1>2 DEF AtRestOnAgent, Settled
<1>4. s \in DOMAIN subs[c] /\ x.agent = a /\ x.listed /\ ~Following(c, a)
  BY <1>0, <1>1, <1>3 DEF FollowsOf, Following
<1>5. x.conv # None
  BY <1>1, <1>2, <1>3 DEF PendingFollowIsWoken, Pending
<1>6. ~SwitchFor(c, a)
  <2>1. ~Held(a)
    BY <1>3 DEF Held, Switching, Coming
  <2>2. ~Queued(a)
    <3> SUFFICES ASSUME NEW k \in DOMAIN events, SwitchOf(events[k], a) PROVE FALSE
      BY DEF Queued
    <3>1. events[k].new # None /\ events[k].agent = a
      BY DEF TrackInv, Named, Names, SwitchOf
    <3> QED BY <1>3, <3>1 DEF Coming
  <2>3. ~(Current(a) /\ c \in bcast.todo)
    BY <1>3 DEF Current, SwitchOf, Coming
  <2> QED BY <2>1, <2>2, <2>3 DEF SwitchFor
<1>7. x.conv = f /\ ~x.cancelled
  <2>1. Tracks(c, a)
    BY DEF TrackInv
  <2>2. OnTrack(c, a)
    BY <1>1, <1>3, <1>4, <1>5, <1>6, <2>1 DEF Tracks
  <2> QED BY <1>1, <1>2, <2>2 DEF OnTrack
<1>8. Live(x)
  BY <1>0, <1>3, <1>4, <1>5, <1>7 DEF Live
<1>9. Channel(x.chan).open
  BY <1>0, <1>1, <1>4, <1>8 DEF TrackInv, OpenFollows
<1>10. x.chan[1] = streams[f]
  <2>1. x.chan[1] \in DOMAIN pool /\ pool[x.chan[1]].conv = f
    <3>1. Made(x.chan)
      BY <1>0, <1>1, <1>4, <1>5 DEF ServerTypeOK
    <3>2. pool[x.chan[1]].conv = f
      BY <1>0, <1>1, <1>4, <1>5, <1>7 DEF SubsOK
    <3>3. DOMAIN bufs = DOMAIN pool
      <4>1. bufs \in Seq(Buffer) /\ pool \in Seq(Stream) /\ Len(bufs) = Len(pool)
        BY <1>0 DEF ServerTypeOK, TypeOK
      <4> QED BY <4>1
    <3> QED BY <3>1, <3>2, <3>3 DEF Made
  <2>2. f \in MainFilesOf(a)
    BY <1>0, <1>2, <1>3 DEF WatcherInv, ActiveIsMain
  <2>3. streams[f] # 0
    BY <1>0, <1>2, <1>3, <2>2 DEF WatcherInv, MainStreamIsActive
  <2>4. streams[f] \in DOMAIN pool /\ pool[streams[f]].conv = f
    <3>1. f \in Files /\ streams \in [Files -> 0..Len(pool)] /\ pool \in Seq(Stream)
      BY <1>0, <2>2 DEF WatcherInv, TypeOK, MainFilesOf
    <3>2. streams[f] \in 1..Len(pool)
      BY <2>3, <3>1
    <3> QED BY <1>0, <2>3, <3>1, <3>2 DEF WatcherInv, StreamsMatch
  <2> QED BY <1>3, <2>1, <2>4 DEF StreamedOnce
<1>11. ASSUME c \notin closing
       PROVE  \E g \in gos : g.client = c /\ g.sub = s /\ ~Cancelled(g)
  <2>1. ~AboutToServe(c, s)
    BY <1>3 DEF AboutToServe
  <2>2. PICK g \in gos : Serving(g, c, s)
    BY <1>0, <1>1, <1>4, <1>8, <1>11, <2>1 DEF TrackInv, Streamed
  <2>3. x.gen \in Nat
    BY <1>0, <1>1, <1>4, ConnectedNow, SubFacts
  <2>4. ~Cancelled(g)
    BY <1>1, <1>7, <1>11, <2>2, <2>3 DEF Serving, Cancelled
  <2> QED BY <2>2, <2>4 DEF Serving
<1> QED BY <1>1, <1>2, <1>7, <1>9, <1>10, <1>11 DEF OnActive

\* specs/tmux-converter.md:697 "automatically switches when the agent rotates":
\* once all has settled, a follow is on its agent's active conversation, on an
\* open channel of the buffer on record, and has a goroutine that reads it, if
\* the agent's switches were announced in the order they were made.
THEOREM FollowsTrack == ServerSpec => []FollowerTracksActive
<1>1. ServerInv /\ TrackInv /\ [ServerNext]_serverVars => TrackInv'
  BY TrackInvStep, TrackInvStutters
<1>2. ServerInv /\ TrackInv /\ PendingFollowIsWoken => FollowerTracksActive
  BY TrackedNow
<1> QED BY InitTrackInv, <1>1, <1>2, ServerInvariant, PendingIsWoken, PTL DEF ServerSpec

=============================================================================
