--------------------------- MODULE ConverterServer ---------------------------
(***************************************************************************)
(* internal/wsconv/server.go over ConversationWatcher: the clients of the  *)
(* converter service and what they subscribe to.                           *)
(*                                                                         *)
(* Processes: the Broadcast goroutine, which takes the place of Consume;   *)
(* the read pump of each client, which runs one handler at a time; one     *)
(* goroutine per live stream; one pumpFileStream per stream object.  c.mu  *)
(* is held by a follow-agent handler between reading the active            *)
(* conversation and registering the subscription, and by Broadcast between *)
(* the two halves of a switch; every other hold of it is one step.  A      *)
(* GetBuffer and the Subscribe or Unsubscribe called on its result are one *)
(* step: a buffer replaced between the two calls is the same as one        *)
(* replaced after them.                                                    *)
(*                                                                         *)
(* Buffers are cut down to what they send: the next sequence number and    *)
(* the channels of their subscribers (see ConversationBuffer), without     *)
(* filters.  The queue of frames to a client is not modelled: a live event *)
(* may find it full, and is dropped, at any time.  A client with no        *)
(* subscription cannot be told from one not yet connected, so all are      *)
(* connected at the start.                                                 *)
(***************************************************************************)
EXTENDS ConversationWatcher

CONSTANTS
  Clients,
  MaxSubs,        \* bound: subscriptions a client makes
  LiveCap,        \* capacity of a subscriber's channel (256 in the code)
  MaxLines        \* bound: events appended, to all buffers together

ASSUME ServerAssumption ==
  /\ MaxSubs \in Nat /\ LiveCap \in Nat \ {0} /\ MaxLines \in Nat
  /\ None \notin Clients

VARIABLES
  bufs,      \* buffer of each stream object
  clients,   \* s.clients
  closing,   \* clients whose context is cancelled
  subs,      \* subscriptions a client ever made, by number
  follows,   \* c.follows: number of the subscription, 0 for none
  handler,   \* what the client's read pump is doing
  bcast,     \* what Broadcast is doing
  gos,       \* the streamLiveWithContext goroutines
  view       \* history: what was sent on each subscription to a conversation

clientVars == <<clients, closing, subs, follows, handler, bcast, gos, view>>

serverVars == <<watcherVars, bufs, clientVars>>

\* chan: stream object and number of the buffer subscription, <<0, 0>> for nil;
\* gen counts the contexts made for it; listed: in c.subs.
Subscription ==
  [agent : Agents \cup {None}, conv : Files \cup {None}, chan : Nat \X Nat,
   gen : Nat, cancelled : BOOLEAN, listed : BOOLEAN]

\* A subscription just made, of agent a or (None) of conversation f itself.
Fresh(a, f, ch, gen) == [agent |-> a, conv |-> f, chan |-> ch, gen |-> gen,
                         cancelled |-> FALSE, listed |-> TRUE]

\* pc "follow" holds c.mu; "reply" has a response to send.
Handler == [pc : {"idle", "follow", "reply"}, agent : Agents \cup {None},
            conv : Files \cup {None}]

AtRest == [pc |-> "idle", agent |-> None, conv |-> None]

\* at: the client whose switch is half done
Broadcaster == [event : LifecycleEvent \cup {None}, todo : SUBSET Clients,
                at : Clients \cup {None}]

NoBroadcast == [event |-> None, todo |-> {}, at |-> None]

\* pc "enter" is about to evaluate sub.live, "wait" is blocked in the select,
\* "send" has received the event seq of stream object obj.
Streamer == [client : Clients, sub : Nat, gen : Nat,
             pc : {"enter", "wait", "send"}, chan : Nat \X Nat, seq : Nat]

\* told: conversation of the snapshot sent; next: the event that comes after it
\* and after those sent since; label, from: conversation ID written on the last
\* event sent since, and the one it really belongs to; exact: no event since
\* was repeated or out of order, or missing without having been
\* dropped.
View == [told : Files \cup {None}, next : Nat, label : Files \cup {None},
         from : Files \cup {None}, exact : BOOLEAN]

NoView == [told |-> None, next |-> 0, label |-> None, from |-> None, exact |-> TRUE]

Snapshot(f, upto) == [NoView EXCEPT !.told = f, !.next = upto]

\* Mutant of Free: a follow-agent handler does not keep c.mu.
FreeInFollow(c) == bcast.at # c

\* c.mu is not held.
Free(c) == handler[c].pc # "follow" /\ bcast.at # c

\* q: events sent on the channel and not yet received; lost: history, the events
\* dropped because it, or the queue to the client, was full.
LiveChannel == [open : BOOLEAN, q : Seq(Nat), lost : SUBSET Nat]

Buffer == [next : Nat, chans : Seq(LiveChannel)]

NewBuffer == [next |-> 0, chans |-> <<>>]

Channel(ch) == bufs[ch[1]].chans[ch[2]]

ServerInit ==
  /\ Init
  /\ bufs = <<>>
  /\ clients = Clients
  /\ closing = {}
  /\ subs = [c \in Clients |-> <<>>]
  /\ follows = [c \in Clients |-> [a \in Agents |-> 0]]
  /\ handler = [c \in Clients |-> AtRest]
  /\ bcast = NoBroadcast
  /\ gos = {}
  /\ view = [c \in Clients |-> [s \in 1..MaxSubs |-> NoView]]

----------------------------------------------------------------------------
(* Buffers. *)

\* buf.Subscribe on stream object i: the buffers after it.
Subscribed(i) ==
  [bufs EXCEPT ![i] = [next |-> bufs[i].next,
                       chans |-> Append(bufs[i].chans,
                                        [open |-> TRUE, q |-> <<>>, lost |-> {}])]]

\* Channel ch with its subscriber gone.
Closed(ch) == [open |-> FALSE, q |-> ch.q, lost |-> ch.lost]

\* The channel that Subscribe returns.
NextChan(i) == <<i, Len(bufs[i].chans) + 1>>

\* Mutant of Unsubscribed: numbers are taken to be unique among buffers.
UnsubscribedAnywhere(ss) ==
  LET gone == {sub.chan[2] : sub \in {x \in ss : x.conv # None}}
  IN [i \in DOMAIN bufs |->
        [next |-> bufs[i].next,
         chans |-> [k \in DOMAIN bufs[i].chans |->
                      IF k \in gone THEN Closed(bufs[i].chans[k])
                      ELSE bufs[i].chans[k]]]]

\* GetBuffer(sub.conversationID).Unsubscribe(sub.bufSubID) for every sub in ss:
\* the buffer is the one on record now, whichever one sub was made on.
Unsubscribed(ss) ==
  LET gone == {<<streams[sub.conv], sub.chan[2]>> : sub \in {x \in ss : x.conv # None}}
  IN [i \in DOMAIN bufs |->
        [next |-> bufs[i].next,
         chans |-> [k \in DOMAIN bufs[i].chans |->
                      IF <<i, k>> \in gone THEN Closed(bufs[i].chans[k])
                      ELSE bufs[i].chans[k]]]]

\* Every event appended so far, by buffer and number.
Appended == UNION {{i} \X (1..bufs[i].next) : i \in DOMAIN bufs}

\* Channel ch after event seq was appended: a full one drops it.
Offered(ch, seq) ==
  IF ~ch.open THEN ch
  ELSE IF Len(ch.q) < LiveCap
  THEN [open |-> TRUE, q |-> Append(ch.q, seq), lost |-> ch.lost]
  ELSE [open |-> TRUE, q |-> ch.q, lost |-> ch.lost \cup {seq}]

\* pumpFileStream appends a line's event.  Lines read before the tailer was
\* stopped still arrive.
Pump(i) ==
  /\ i \in DOMAIN pool
  /\ pool[i].pumping
  /\ Cardinality(Appended) < MaxLines
  /\ bufs' = [bufs EXCEPT ![i] =
                [next |-> bufs[i].next + 1,
                 chans |-> [k \in DOMAIN bufs[i].chans |->
                              Offered(bufs[i].chans[k], bufs[i].next)]]]
  /\ UNCHANGED <<watcherVars, clientVars>>

----------------------------------------------------------------------------
(* Handlers, run by the client's read pump. *)

CanHandle(c) == c \in clients \ closing /\ handler[c].pc = "idle" /\ Free(c)

\* A context of its own for the next goroutine of subscription s.
GoStream(c, s, gen) == [client |-> c, sub |-> s, gen |-> gen, pc |-> "enter",
                        chan |-> <<0, 0>>, seq |-> 0]

\* The subscription taken off c.subs, its context cancelled.
Dropped(sub) ==
  [agent |-> sub.agent, conv |-> sub.conv, chan |-> sub.chan, gen |-> sub.gen,
   cancelled |-> sub.agent # None, listed |-> FALSE]

\* follow-agent up to GetActiveConversation: an existing follow of the agent
\* is dropped.
FollowAgent(c, a) ==
  /\ CanHandle(c)
  /\ Len(subs[c]) < MaxSubs
  /\ LET s == follows[c][a] IN
       IF s = 0 THEN UNCHANGED <<subs, bufs>>
       ELSE /\ subs' = [subs EXCEPT ![c][s] = Dropped(subs[c][s])]
            /\ bufs' = Unsubscribed({subs[c][s]})
  /\ handler' = [handler EXCEPT ![c] = [AtRest EXCEPT !.pc = "follow", !.agent = a,
                                                      !.conv = active[a]]]
  /\ UNCHANGED <<watcherVars, clients, closing, follows, bcast, gos, view>>

\* Mutant of FollowRegister: a follow whose buffer is gone keeps its conversation.
FollowRegisterStale(c) ==
  /\ handler[c].pc = "follow"
  /\ LET h == handler[c]
         i == IF h.conv = None THEN 0 ELSE streams[h.conv]
     IN
       /\ subs' = [subs EXCEPT ![c] = Append(@,
            IF i = 0 THEN Fresh(h.agent, h.conv, <<0, 0>>, 0)
            ELSE Fresh(h.agent, h.conv, NextChan(i), 1))]
       /\ handler' = [handler EXCEPT ![c] =
            [AtRest EXCEPT !.pc = "reply", !.conv = IF i = 0 THEN None ELSE h.conv]]
       /\ bufs' = IF i = 0 THEN bufs ELSE Subscribed(i)
       /\ follows' = [follows EXCEPT ![c][h.agent] = Len(subs[c]) + 1]
  /\ UNCHANGED <<watcherVars, clients, closing, bcast, gos, view>>

\* The rest of it under c.mu: subscribe, or leave a pending follow.
FollowRegister(c) ==
  /\ handler[c].pc = "follow"
  /\ LET h == handler[c]
         i == IF h.conv = None THEN 0 ELSE streams[h.conv]
     IN
       /\ IF i = 0
          THEN /\ subs' = [subs EXCEPT ![c] = Append(@, Fresh(h.agent, None, <<0, 0>>, 0))]
               /\ handler' = [handler EXCEPT ![c] = [AtRest EXCEPT !.pc = "reply"]]
               /\ UNCHANGED bufs
          ELSE /\ subs' = [subs EXCEPT ![c] =
                              Append(@, Fresh(h.agent, h.conv, NextChan(i), 1))]
               /\ handler' = [handler EXCEPT ![c] =
                    [AtRest EXCEPT !.pc = "reply", !.conv = h.conv]]
               /\ bufs' = Subscribed(i)
       /\ follows' = [follows EXCEPT ![c][h.agent] = Len(subs[c]) + 1]
  /\ UNCHANGED <<watcherVars, clients, closing, bcast, gos, view>>

\* The response, sent without c.mu, and the goroutine of the live stream.
FollowReply(c) ==
  /\ handler[c].pc = "reply"
  /\ LET s == Len(subs[c])
         h == handler[c]
     IN gos' = IF h.conv = None THEN gos ELSE gos \cup {GoStream(c, s, 1)}
  /\ handler' = [handler EXCEPT ![c] = AtRest]
  /\ UNCHANGED <<watcherVars, bufs, clients, closing, subs, follows, bcast, view>>

\* Mutant of SubscribeConversation: the last event of the snapshot is sent on
\* the channel as well.
SubscribeConversationTwice(c, f) ==
  /\ CanHandle(c)
  /\ Len(subs[c]) < MaxSubs
  /\ streams[f] # 0
  /\ LET i == streams[f]
         s == Len(subs[c]) + 1
         last == IF bufs[i].next = 0 THEN <<>> ELSE <<bufs[i].next - 1>>
     IN
       /\ bufs' = [bufs EXCEPT ![i].chans =
                    Append(@, [open |-> TRUE, q |-> last, lost |-> {}])]
       /\ subs' = [subs EXCEPT ![c] = Append(@, Fresh(None, f, NextChan(i), 1))]
       /\ view' = [view EXCEPT ![c][s] = Snapshot(f, bufs[i].next)]
       /\ gos' = gos \cup {GoStream(c, s, 1)}
  /\ UNCHANGED <<watcherVars, clients, closing, follows, handler, bcast>>

\* subscribe-conversation of a conversation that is streamed
SubscribeConversation(c, f) ==
  /\ CanHandle(c)
  /\ Len(subs[c]) < MaxSubs
  /\ streams[f] # 0
  /\ LET i == streams[f]
         s == Len(subs[c]) + 1
     IN
       /\ bufs' = Subscribed(i)
       /\ subs' = [subs EXCEPT ![c] = Append(@, Fresh(None, f, NextChan(i), 1))]
       /\ view' = [view EXCEPT ![c][s] = Snapshot(f, bufs[i].next)]
       /\ gos' = gos \cup {GoStream(c, s, 1)}
  /\ UNCHANGED <<watcherVars, clients, closing, follows, handler, bcast>>

\* Mutant of Unsubscribe: the follow stays in c.follows.
UnsubscribeKeepsFollow(c, s) ==
  /\ CanHandle(c)
  /\ s \in DOMAIN subs[c]
  /\ subs[c][s].listed
  /\ subs' = [subs EXCEPT ![c][s] = Dropped(subs[c][s])]
  /\ bufs' = Unsubscribed({subs[c][s]})
  /\ UNCHANGED <<watcherVars, clients, closing, follows, handler, bcast, gos,
                 view>>

\* unsubscribe, by subscription
Unsubscribe(c, s) ==
  /\ CanHandle(c)
  /\ s \in DOMAIN subs[c]
  /\ LET sub == subs[c][s] IN
       /\ sub.listed
       /\ subs' = [subs EXCEPT ![c][s] = Dropped(subs[c][s])]
       /\ follows' = IF sub.agent = None THEN follows
                     ELSE [follows EXCEPT ![c][sub.agent] = 0]
       /\ bufs' = Unsubscribed({sub})
  /\ UNCHANGED <<watcherVars, clients, closing, handler, bcast, gos, view>>

\* unsubscribe-agent
UnsubscribeAgent(c, a) ==
  /\ CanHandle(c)
  /\ follows[c][a] # 0
  /\ LET s == follows[c][a] IN
       /\ subs' = [subs EXCEPT ![c][s] = Dropped(subs[c][s])]
       /\ follows' = [follows EXCEPT ![c][a] = 0]
       /\ bufs' = Unsubscribed({subs[c][s]})
  /\ UNCHANGED <<watcherVars, clients, closing, handler, bcast, gos, view>>

\* The connection ends: the read pump cancels the client's context ...
Disconnect(c) ==
  /\ CanHandle(c)
  /\ closing' = closing \cup {c}
  /\ UNCHANGED <<watcherVars, bufs, clients, subs, follows, handler, bcast, gos,
                 view>>

\* ... and removeClient, which waits for Broadcast, cleans up.
RemoveClient(c) ==
  /\ c \in clients \cap closing
  /\ bcast = NoBroadcast
  /\ clients' = clients \ {c}
  /\ bufs' = Unsubscribed({subs[c][s] : s \in {k \in DOMAIN subs[c] : subs[c][k].listed}})
  /\ subs' = [subs EXCEPT ![c] = [s \in DOMAIN subs[c] |-> Dropped(subs[c][s])]]
  /\ follows' = [follows EXCEPT ![c] = [a \in Agents |-> 0]]
  /\ UNCHANGED <<watcherVars, closing, handler, bcast, gos, view>>

----------------------------------------------------------------------------
(* Broadcast, run for one lifecycle event at a time under s.mu. *)

\* Only the events of conversations reach a follow; the others tell the
\* clients that subscribed to agents.
BroadcastNext ==
  /\ bcast = NoBroadcast
  /\ events # <<>>
  /\ events' = Tail(events)
  /\ bcast' = IF Head(events).new = None \/ clients = {} THEN NoBroadcast
              ELSE [event |-> Head(events), todo |-> clients, at |-> None]
  /\ UNCHANGED <<present, regEvents, adds, removes, writes, disk, dirWatch,
                 streams, active, pool, loop, workers, bufs, clients, closing,
                 subs, follows, handler, gos, view>>

\* Broadcast is through with client c.
Served(c) == IF bcast.todo = {c} THEN NoBroadcast
             ELSE [bcast EXCEPT !.todo = @ \ {c}, !.at = None]

\* c's follow s goes to stream object i of conversation f: Subscribe, a new
\* context and a goroutine, after the message with the snapshot.
Attach(c, s, f, i) ==
  /\ bufs' = Subscribed(i)
  /\ subs' = [subs EXCEPT ![c][s] =
                 [agent |-> subs[c][s].agent, conv |-> f, chan |-> NextChan(i),
                  gen |-> subs[c][s].gen + 1, cancelled |-> FALSE,
                  listed |-> subs[c][s].listed]]
  /\ gos' = gos \cup {GoStream(c, s, subs[c][s].gen + 1)}

\* deliverConversationStarted: only a pending follow is served.
DeliverStarted(c) ==
  /\ c \in bcast.todo
  /\ bcast.event.type = "conversation-started"
  /\ Free(c)
  /\ LET s == follows[c][bcast.event.agent]
         f == bcast.event.new
     IN IF s # 0 /\ subs[c][s].conv = None /\ streams[f] # 0
        THEN Attach(c, s, f, streams[f])
        ELSE UNCHANGED <<bufs, subs, gos>>
  /\ bcast' = Served(c)
  /\ UNCHANGED <<watcherVars, clients, closing, follows, handler, view>>

\* Mutant of DeliverSwitched: only a follow of the old conversation switches.
DeliverSwitchedFromOld(c) ==
  /\ c \in bcast.todo
  /\ bcast.event.type = "conversation-switched"
  /\ bcast.at = None
  /\ Free(c)
  /\ LET s == follows[c][bcast.event.agent] IN
       IF s = 0 \/ subs[c][s].conv # bcast.event.old
       THEN bcast' = Served(c) /\ UNCHANGED <<bufs, subs>>
       ELSE /\ bcast' = [bcast EXCEPT !.at = c]
            /\ bufs' = Unsubscribed({subs[c][s]})
            /\ subs' = [subs EXCEPT ![c][s].cancelled = TRUE]
  /\ UNCHANGED <<watcherVars, clients, closing, follows, handler, gos, view>>

\* The context of the subscription's goroutine, if it has one, cancelled.
Superseded(sub) ==
  [agent |-> sub.agent, conv |-> sub.conv, chan |-> sub.chan, gen |-> sub.gen,
   cancelled |-> sub.gen # 0, listed |-> sub.listed]

\* deliverConversationSwitch up to the switch message
DeliverSwitched(c) ==
  /\ c \in bcast.todo
  /\ bcast.event.type = "conversation-switched"
  /\ bcast.at = None
  /\ Free(c)
  /\ LET s == follows[c][bcast.event.agent] IN
       IF s = 0
       THEN bcast' = Served(c) /\ UNCHANGED <<bufs, subs>>
       ELSE /\ bcast' = [bcast EXCEPT !.at = c]
            /\ bufs' = Unsubscribed({subs[c][s]})
            /\ subs' = [subs EXCEPT ![c][s] = Superseded(subs[c][s])]
  /\ UNCHANGED <<watcherVars, clients, closing, follows, handler, gos, view>>

\* The rest of it: a conversation that is no longer streamed is not followed.
DeliverSwitchedTo(c) ==
  /\ bcast.at = c
  /\ LET s == follows[c][bcast.event.agent]
         f == bcast.event.new
     IN IF streams[f] # 0 THEN Attach(c, s, f, streams[f])
        ELSE UNCHANGED <<bufs, subs, gos>>
  /\ bcast' = Served(c)
  /\ UNCHANGED <<watcherVars, clients, closing, follows, handler, view>>

----------------------------------------------------------------------------
(* streamLiveWithContext.  It reads sub.live and sub.conversationID without *)
(* c.mu, so it sees what they are at that moment.                           *)

Cancelled(g) ==
  \/ g.client \in closing
  \/ LET sub == subs[g.client][g.sub] IN
       sub.agent # None /\ (g.gen < sub.gen \/ sub.cancelled)

\* The goroutine g goes on as h.
Replaced(g, h) == (gos \ {g}) \cup {h}

StreamEnter(g) ==
  /\ g.pc = "enter"
  /\ gos' = Replaced(g, [client |-> g.client, sub |-> g.sub, gen |-> g.gen, pc |-> "wait",
                          chan |-> subs[g.client][g.sub].chan, seq |-> 0])
  /\ UNCHANGED <<watcherVars, bufs, clients, closing, subs, follows, handler,
                 bcast, view>>

\* The buffers with channel ch being x.
WithChannel(ch, x) ==
  LET b == bufs[ch[1]]
  IN [bufs EXCEPT ![ch[1]] = [next |-> b.next, chans |-> [b.chans EXCEPT ![ch[2]] = x]]]

\* Channel x after its first event was received.
Received(x) == [open |-> x.open, q |-> Tail(x.q), lost |-> x.lost]

\* An event is received: with the context cancelled as well, Go's select may
\* still choose it.
StreamReceive(g) ==
  /\ g.pc = "wait"
  /\ Channel(g.chan).q # <<>>
  /\ gos' = Replaced(g, [client |-> g.client, sub |-> g.sub, gen |-> g.gen, pc |-> "send",
                          chan |-> g.chan, seq |-> Head(Channel(g.chan).q)])
  /\ bufs' = WithChannel(g.chan, Received(Channel(g.chan)))
  /\ UNCHANGED <<watcherVars, clients, closing, subs, follows, handler, bcast,
                 view>>

\* Events m up to n of channel ch were dropped.
AllLost(ch, m, n) == \A k \in m..n : k \in Channel(ch).lost

\* The event goes out under the conversation ID that sub has now.
StreamSend(g) ==
  /\ g.pc = "send"
  /\ gos' = Replaced(g, GoStream(g.client, g.sub, g.gen))
  /\ LET v == view[g.client][g.sub]
         sub == subs[g.client][g.sub]
     IN view' = IF sub.agent # None THEN view
                ELSE [view EXCEPT ![g.client][g.sub] =
                        [told |-> v.told, next |-> g.seq + 1, label |-> sub.conv,
                         from |-> pool[g.chan[1]].conv,
                         exact |-> /\ v.exact /\ v.next <= g.seq
                                   /\ AllLost(g.chan, v.next, g.seq - 1)]]
  /\ UNCHANGED <<watcherVars, bufs, clients, closing, subs, follows, handler,
                 bcast>>

\* Channel x with event seq lost between it and the client.
Losing(x, seq) == [open |-> x.open, q |-> x.q, lost |-> x.lost \cup {seq}]

\* sendJSON finds the queue to the client full, and drops the frame.  Like
\* view, lost says so for a subscription to a conversation only.
StreamDrop(g) ==
  /\ g.pc = "send"
  /\ gos' = Replaced(g, GoStream(g.client, g.sub, g.gen))
  /\ bufs' = IF subs[g.client][g.sub].agent # None THEN bufs
             ELSE WithChannel(g.chan, Losing(Channel(g.chan), g.seq))
  /\ UNCHANGED <<watcherVars, clients, closing, subs, follows, handler, bcast,
                 view>>

StreamEnd(g) ==
  /\ g.pc = "wait"
  /\ Cancelled(g) \/ (~Channel(g.chan).open /\ Channel(g.chan).q = <<>>)
  /\ gos' = gos \ {g}
  /\ UNCHANGED <<watcherVars, bufs, clients, closing, subs, follows, handler,
                 bcast, view>>

----------------------------------------------------------------------------
\* A step of the watcher: a new stream object comes with a new buffer.
Watcher ==
  /\ WatcherNext
  /\ bufs' = bufs \o [i \in 1..(Len(pool') - Len(pool)) |-> NewBuffer]
  /\ UNCHANGED clientVars

Client(c) ==
  \/ \E a \in Agents : FollowAgent(c, a) \/ UnsubscribeAgent(c, a)
  \/ FollowRegister(c) \/ FollowReply(c)
  \/ \E f \in Files : SubscribeConversation(c, f)
  \/ \E s \in 1..MaxSubs : Unsubscribe(c, s)
  \/ Disconnect(c) \/ RemoveClient(c)

Broadcast ==
  \/ BroadcastNext
  \/ \E c \in Clients : DeliverStarted(c) \/ DeliverSwitched(c) \/ DeliverSwitchedTo(c)

Streaming ==
  \E g \in gos : \/ StreamEnter(g) \/ StreamReceive(g)
                  \/ StreamSend(g) \/ StreamDrop(g) \/ StreamEnd(g)

ServerNext ==
  \/ Watcher
  \/ \E i \in DOMAIN pool : Pump(i)
  \/ \E c \in Clients : Client(c)
  \/ Broadcast
  \/ Streaming

ServerSpec == ServerInit /\ [][ServerNext]_serverVars

\* Handlers in progress and Broadcast go on; a client need not ask for more.
ServerFairness ==
  /\ WF_serverVars(Watcher /\ WatchLoop)
  /\ \A a \in Agents : WF_serverVars(Watcher /\ DirEvent(a))
  /\ \A w \in Workers : WF_serverVars(Watcher /\ Discovery(w))
  /\ \A c \in Clients : WF_serverVars(FollowRegister(c) \/ FollowReply(c))
  /\ WF_serverVars(Broadcast)

FairServerSpec == ServerSpec /\ ServerFairness

----------------------------------------------------------------------------
(***************************************************************************)
(* Properties.                                                             *)
(***************************************************************************)
\* Channel ch was made by its buffer.
Made(ch) == ch[1] \in DOMAIN bufs /\ ch[2] \in DOMAIN bufs[ch[1]].chans

\* Types, and channels that exist.
ServerTypeOK ==
  /\ TypeOK
  /\ bufs \in Seq(Buffer) /\ Len(bufs) = Len(pool)
  /\ clients \subseteq Clients /\ closing \subseteq Clients
  /\ subs \in [Clients -> Seq(Subscription)]
  /\ \A c \in Clients : Len(subs[c]) <= MaxSubs /\ \A s \in DOMAIN subs[c] :
       LET sub == subs[c][s] IN
         IF sub.conv = None THEN sub.chan = <<0, 0>> /\ sub.gen = 0
         ELSE sub.gen > 0 /\ Made(sub.chan)
  /\ follows \in [Clients -> [Agents -> 0..MaxSubs]]
  /\ handler \in [Clients -> Handler]
  /\ bcast \in Broadcaster
  /\ gos \subseteq Streamer
  /\ view \in [Clients -> [1..MaxSubs -> View]]

\* specs/tmux-converter.md:720 "A client may have at most ONE `follow-agent`
\* subscription per agent": c.follows and c.subs agree, and at most one stream
\* of a subscription has a context that is not cancelled.
FollowsMatchSubs ==
  \A c \in Clients :
    /\ \A a \in Agents : ~(handler[c].pc = "follow" /\ handler[c].agent = a) =>
         {s \in DOMAIN subs[c] : subs[c][s].listed /\ subs[c][s].agent = a} =
           {follows[c][a]} \ {0}
    /\ \A s \in DOMAIN subs[c] :
         Cardinality({g \in gos : g.client = c /\ g.sub = s /\ ~Cancelled(g)}) <= 1

Pending(c, a) == follows[c][a] # 0 /\ subs[c][follows[c][a]].conv = None

\* A lifecycle event of a conversation of agent a is on its way to client c.
Coming(c, a) ==
  \/ \E w \in Workers : workers[w].pc = "emit" /\ workers[w].agent = a
  \/ \E k \in DOMAIN events : events[k].new # None /\ events[k].agent = a
  \/ bcast # NoBroadcast /\ bcast.event.agent = a /\ c \in bcast.todo

\* No lost wake-up: a follow that found no conversation to stream is never
\* left pending while its agent has one, unless an event is still to come.
PendingFollowIsWoken ==
  \A c \in clients : \A a \in Agents :
    Pending(c, a) /\ active[a] # None => Coming(c, a)

\* Nothing is left to do for agent a, from the registry to client c.
Settled(c, a) ==
  /\ Quiet(a) /\ ~Coming(c, a) /\ handler[c].pc = "idle"

\* Conversation f was streamed once only: a second discovery replaces the
\* buffer, which leaves the subscribers of the first behind and starts their
\* numbers again.
StreamedOnce(f) ==
  \A i, j \in DOMAIN pool : pool[i].conv = f /\ pool[j].conv = f => i = j

\* The events of agent a's main streams were sent in the order of the streams.
\* Discoveries emit theirs after they have released w.mu (watcher.go:290).
InOrder(a) == \A i \in DOMAIN pool : Owner[pool[i].conv] = a => ~pool[i].late

\* Client c's follow of agent a is on the active conversation, through an open
\* channel of the buffer that is on record, and is streamed to it.
OnActive(c, a) ==
  LET sub == subs[c][follows[c][a]] IN
    /\ sub.conv = active[a]
    /\ sub.chan[1] = streams[active[a]]
    /\ Channel(sub.chan).open
    /\ c \notin closing =>
         \E g \in gos : g.client = c /\ g.sub = follows[c][a] /\ ~Cancelled(g)

\* A follow with nothing left to do for it, whose agent has a conversation.
\* Only while no agent has gone: in its next life the conversation is
\* "started", not "switched", and a follow that has a conversation ignores
\* that (server.go:585).  Nor if a second discovery has replaced the buffer.
AtRestOnAgent(c, a) ==
  /\ follows[c][a] # 0 /\ active[a] # None /\ Settled(c, a)
  /\ removes = 0 /\ StreamedOnce(active[a])

\* specs/tmux-converter.md:697 "`follow-agent` auto-subscribes to whichever
\* conversation the agent is currently running and automatically switches when
\* the agent rotates": once all has settled, a follow is on the active
\* conversation, if the switches were announced in the order they were made.
FollowerTracksActive ==
  \A c \in clients : \A a \in Agents :
    AtRestOnAgent(c, a) /\ InOrder(a) => OnActive(c, a)

\* The same, in whatever order the switches are announced: refuted.
FollowerAlwaysTracksActive ==
  \A c \in clients : \A a \in Agents : AtRestOnAgent(c, a) => OnActive(c, a)

\* specs/tmux-converter.md:697 "`subscribe-conversation` locks to a specific
\* conversation ID and never switches": such a subscription is sent the events
\* of its conversation that follow its snapshot, each at most once and in order,
\* and none is missing but those dropped where a channel was full
\* (buffer.go:58, server.go:228).
ConversationIsExact ==
  \A c \in Clients : \A s \in DOMAIN subs[c] : LET v == view[c][s] IN
    subs[c][s].agent = None =>
      /\ v.exact /\ v.told = subs[c][s].conv
      /\ v.label # None => v.label = v.told /\ v.from = v.told

\* specs/tmux-converter.md:730 "The `unsubscribe` with `subscriptionId` detaches
\* a specific `subscribe-conversation` binding": the channel of a conversation
\* subscription that nobody gave up is open, unless its buffer was replaced.
NobodyElseDetaches ==
  \A c \in Clients : \A s \in DOMAIN subs[c] : LET sub == subs[c][s] IN
    sub.agent = None /\ sub.listed /\ StreamedOnce(sub.conv) => Channel(sub.chan).open

\* A pending follow is served once its agent has a conversation.
PendingFollowIsServed ==
  \A c \in Clients : \A a \in Agents :
    (Pending(c, a) /\ active[a] # None) ~>
      (~Pending(c, a) \/ active[a] = None \/ c \notin clients)

=============================================================================
