---------------------------- MODULE OutputStreams ----------------------------
(***************************************************************************)
(* internal/tmux/pipepane.go under internal/wsadapter: the terminal output *)
(* of each session, which tmux pipes into a file that one goroutine tails  *)
(* for all subscribers.                                                    *)
(*                                                                         *)
(* Processes: the read pump of each client, which runs one handler at a    *)
(* time and ends with RemoveClient; the forwarding goroutine of each       *)
(* subscription; tailFile's goroutines, one pair per stream; Stop, which   *)
(* closes every client and then every stream; tmux and the panes.  c.mu is *)
(* held by Close over all its calls of Unsubscribe; any other hold of it   *)
(* is one step.  pm.mu is held over the Execute calls of Subscribe,        *)
(* Unsubscribe and StopAll, so each of these is one step too: nothing that *)
(* runs without pm.mu looks at what they change in between, except         *)
(* tailFile, which may also have run before or after.                      *)
(*                                                                         *)
(* tmux is external: pipe-pane -o on a pane with a pipe closes that pipe   *)
(* and opens none, a pane that ends takes its pipe with it, and a program  *)
(* of the same session that starts later has none.  An Execute that timed  *)
(* out, or was handed the answer of one that had, does not tell whether    *)
(* tmux did what it was asked; a command that was carried out late has     *)
(* been before the next, so it is taken to be done at once or never.       *)
(* Whether the registry knows the agent is left open.  The bytes a pane    *)
(* puts out are numbered per stream; a client's send channel is left out.  *)
(***************************************************************************)
EXTENDS Integers, Sequences, FiniteSets

CONSTANTS
  Clients, Sessions,
  ChanCap,       \* capacity of a subscriber's channel (256 in the code)
  Leftover,      \* sessions still piped by an adapter that crashed
  Unreliable,    \* sessions whose pipe-pane commands may time out or be given
                 \* another command's answer
  MaxSubs,       \* bound: subscriptions made
  MaxBytes,      \* bound: bytes a pane puts out for a stream
  MaxChanges     \* bound: panes that start or end

ASSUME OutputAssumption ==
  /\ ChanCap \in Nat \ {0} /\ Sessions # {}
  /\ Leftover \subseteq Sessions /\ Unreliable \subseteq Sessions
  /\ MaxSubs \in Nat /\ MaxBytes \in Nat /\ MaxChanges \in Nat

VARIABLES
  panes,      \* sessions with a pane
  pipe,       \* tmux: per session, the stream its pane is piped to; 0 none,
              \* -1 to what no stream reads
  astray,     \* history: sessions with a pipe left over, or where a pipe-pane did
              \* other than Execute said, until a PipePaneStop is carried out
  changes,    \* counted by the bound
  streams,    \* every stream made
  current,    \* pm.streams: the stream of each session, 0 for none
  held,       \* c.outputSubs: number and channel of each subscription
  handler,    \* what the client's read pump is doing
  conn,       \* whether the client's connection is open
  closer,     \* who is in Close of the client, holding c.mu: "no", "server", "stop"
  stop        \* Adapter.Stop

tmuxVars == <<panes, pipe, astray, changes>>
clientVars == <<held, handler, conn, closer>>
vars == <<tmuxVars, streams, current, clientVars, stop>>

----------------------------------------------------------------------------
\* A channel is a stream and the number of a subscriber in it.
Channels == Nat \X Nat
NoChannel == <<0, 0>>

\* ch holds chunks of bytes, each from its first to its last; forwarding: the
\* goroutine that reads ch was started.  History: the last byte taken from ch, or
\* the last one before the subscription, and whether bytes were thrown away.
Chunk == Nat \X Nat
Subscriber ==
  [client : Clients, open : BOOLEAN, ch : Seq(Chunk), forwarding : BOOLEAN,
   got : Nat, gap : BOOLEAN]

\* opened: tailFile has opened the file; size: the bytes in it; flushed: those
\* sent on.  History, cut: the pane it was piped from has ended.
Stream == [session : Sessions, live : BOOLEAN, opened : BOOLEAN, cut : BOOLEAN,
           size : Nat, flushed : Nat, subs : Seq(Subscriber)]

\* pc "replace" and "drop" have a subscription in hand that has left the map,
\* "store" one that has not entered it.
Handler == [pc : {"idle", "replace", "subscribe", "store", "drain", "redraw", "drop",
                  "ended", "gone"},
            session : Sessions, chan : Channels]

Sub(ch) == streams[ch[1]].subs[ch[2]]
WithSub(ch, sub) == [streams EXCEPT ![ch[1]].subs[ch[2]] = sub]
Made == UNION {{i} \X DOMAIN streams[i].subs : i \in DOMAIN streams}
MadeBy(c) == {ch \in Made : Sub(ch).client = c}

Init ==
  /\ panes = Sessions
  /\ pipe = [s \in Sessions |-> IF s \in Leftover THEN -1 ELSE 0]
  /\ astray = Leftover
  /\ changes = 0
  /\ streams = <<>>
  /\ current = [s \in Sessions |-> 0]
  /\ held = [c \in Clients |-> [s \in Sessions |-> NoChannel]]
  /\ handler = [c \in Clients |->
       [pc |-> "idle", session |-> CHOOSE s \in Sessions : TRUE, chan |-> NoChannel]]
  /\ conn = [c \in Clients |-> TRUE]
  /\ closer = [c \in Clients |-> "no"]
  /\ stop = [pc |-> "running", todo |-> {}]

----------------------------------------------------------------------------
(* PipePaneManager. *)

NewSubscriber(c, got) ==
  [client |-> c, open |-> TRUE, ch |-> <<>>, forwarding |-> FALSE, got |-> got, gap |-> FALSE]

\* The handler of client c goes on to pc with subscription ch.
Goes(c, pc, ch) ==
  handler' = [handler EXCEPT ![c] = [pc |-> pc, session |-> handler[c].session, chan |-> ch]]

\* Whether Execute still works: Close comes last in Stop.
TmuxAnswers == stop.pc # "closed"

\* The channel Subscribe(s) returns, and the streams after it, when s has one.
Joined(c, s) ==
  [streams EXCEPT ![current[s]].subs = Append(@, NewSubscriber(c, streams[current[s]].flushed))]

Started(c, s) ==
  Append(streams, [session |-> s, live |-> TRUE, opened |-> FALSE, cut |-> FALSE,
                   size |-> 0, flushed |-> 0, subs |-> <<NewSubscriber(c, 0)>>])

\* pipe-pane -o: a pipe that is there is closed instead.  i: the stream that is
\* to read what is piped, -1 for none.
Piped(s, i) == [pipe EXCEPT ![s] = IF @ = 0 THEN i ELSE 0]

\* PipePaneStart: whether tmux carried it out, and whether Execute says so.
Answered(s, done, ok) ==
  /\ done => s \in panes /\ TmuxAnswers
  /\ \/ s \in Unreliable /\ TmuxAnswers
     \/ done = (s \in panes /\ TmuxAnswers) /\ ok = done
  /\ astray' = IF ok = done THEN astray ELSE astray \cup {s}

\* Subscribe, by the handler of client c, which goes on with the channel or
\* answers with the error.
Subscribe(c, s) ==
  LET joined == <<current[s], Len(streams[current[s]].subs) + 1>>
      started == <<Len(streams) + 1, 1>>
  IN
  IF current[s] # 0
  THEN /\ streams' = Joined(c, s)
       /\ Goes(c, "store", joined)
       /\ UNCHANGED <<pipe, astray, current>>
  ELSE \E done, ok \in BOOLEAN :
       /\ Answered(s, done, ok)
       /\ pipe' = IF ~done THEN pipe ELSE Piped(s, IF ok THEN Len(streams) + 1 ELSE -1)
       /\ IF ok
          THEN /\ streams' = Started(c, s)
               /\ current' = [current EXCEPT ![s] = Len(streams) + 1]
               /\ Goes(c, "store", started)
          ELSE /\ Goes(c, "idle", NoChannel)
               /\ UNCHANGED <<streams, current>>

\* A subscriber whose channel is closed; what is left in it is not followed.
Ended(sub) == [NewSubscriber(sub.client, 0) EXCEPT !.open = FALSE]

\* The stream without its subscribers in ids.
Closed(st, ids) ==
  [st EXCEPT !.subs = [k \in DOMAIN @ |-> IF k \in ids THEN Ended(@[k]) ELSE @[k]]]

\* stopStream.
Stopped(st) ==
  [st EXCEPT !.live = FALSE, !.opened = FALSE, !.cut = FALSE, !.size = 0, !.flushed = 0,
             !.subs = [k \in DOMAIN @ |-> Ended(@[k])]]

Remaining(st) == {k \in DOMAIN st.subs : st.subs[k].open}

\* PipePaneStop on the sessions in ss, of which some may not be carried out.
PipesClosed(ss) ==
  \E failed \in SUBSET (ss \cap Unreliable) :
    LET closed == IF TmuxAnswers THEN ss \ failed ELSE {} IN
      /\ pipe' = [s \in Sessions |-> IF s \in closed THEN 0 ELSE pipe[s]]
      /\ astray' = (astray \cup failed) \ closed

\* Mutant of Unsubscribe: the stream that was stopped stays on record.
UnsubscribeKeepsStream(s, id) ==
  IF current[s] = 0 THEN UNCHANGED <<streams, current, pipe, astray>>
  ELSE LET i == current[s]
           st == Closed(streams[i], {id})
       IN /\ streams' = [streams EXCEPT ![i] = IF Remaining(st) = {} THEN Stopped(st) ELSE st]
          /\ PipesClosed(IF Remaining(st) = {} THEN {s} ELSE {})
          /\ UNCHANGED current

\* Unsubscribe(s, id): the stream now on record is meant, whichever one the
\* number is from.  stopStream goes on when PipePaneStop fails.
Unsubscribe(s, id) ==
  IF current[s] = 0 THEN UNCHANGED <<streams, current, pipe, astray>>
  ELSE LET i == current[s]
           st == Closed(streams[i], {id})
       IN IF Remaining(st) # {}
          THEN /\ streams' = [streams EXCEPT ![i] = st]
               /\ UNCHANGED <<current, pipe, astray>>
          ELSE /\ streams' = [streams EXCEPT ![i] = Stopped(st)]
               /\ current' = [current EXCEPT ![s] = 0]
               /\ PipesClosed({s})

----------------------------------------------------------------------------
(* tailFile of stream i. *)

\* Open, and seek to the end: what is in the file is not sent.
TailOpens(i) ==
  /\ streams[i].live /\ ~streams[i].opened
  /\ LET st == streams[i] IN
       streams' = [streams EXCEPT ![i] =
         [st EXCEPT !.opened = TRUE, !.flushed = st.size,
                    !.subs = [k \in DOMAIN st.subs |->
                      IF st.subs[k].open THEN [st.subs[k] EXCEPT !.got = st.size]
                      ELSE st.subs[k]]]]
  /\ UNCHANGED <<tmuxVars, current, clientVars, stop>>

\* Mutant of Sent: it does not look for room.
SentAnyway(sub, lo, hi) ==
  IF ~sub.open THEN sub ELSE [sub EXCEPT !.ch = Append(@, <<lo, hi>>)]

\* The non-blocking send of the pending bytes to one subscriber.
Sent(sub, lo, hi) ==
  IF ~sub.open THEN sub
  ELSE IF Len(sub.ch) < ChanCap THEN [sub EXCEPT !.ch = Append(@, <<lo, hi>>)]
  ELSE [sub EXCEPT !.gap = TRUE]

\* Mutant of Flush: pending is not reset.
FlushKeepsPending(i) ==
  /\ streams[i].live /\ streams[i].opened
  /\ \E n \in (streams[i].flushed + 1)..streams[i].size :
       streams' = [streams EXCEPT ![i].subs = [k \in DOMAIN @ |->
                     Sent(@[k], streams[i].flushed + 1, n)]]
  /\ UNCHANGED <<tmuxVars, current, clientVars, stop>>

\* A tick of the send loop: what has been read by then, some of what is new in
\* the file, is pending.
Flush(i) ==
  /\ streams[i].live /\ streams[i].opened
  /\ \E n \in (streams[i].flushed + 1)..streams[i].size :
       streams' = [streams EXCEPT ![i] =
         [streams[i] EXCEPT !.flushed = n,
            !.subs = [k \in DOMAIN streams[i].subs |->
                        Sent(streams[i].subs[k], streams[i].flushed + 1, n)]]]
  /\ UNCHANGED <<tmuxVars, current, clientVars, stop>>

TailFile(i) == TailOpens(i) \/ Flush(i)

\* The goroutine of a subscription takes a chunk from its channel.
Forward(ch) ==
  /\ Sub(ch).forwarding /\ Sub(ch).ch # <<>>
  /\ streams' = WithSub(ch, [Sub(ch) EXCEPT !.ch = Tail(@), !.got = Sub(ch).ch[1][2]])
  /\ UNCHANGED <<tmuxVars, current, clientVars, stop>>

----------------------------------------------------------------------------
(* The panes. *)

Output(s) ==
  /\ pipe[s] > 0
  /\ streams[pipe[s]].live
  /\ streams[pipe[s]].size < MaxBytes
  /\ streams' = [streams EXCEPT ![pipe[s]].size = @ + 1]
  /\ UNCHANGED <<tmuxVars, current, clientVars, stop>>

PaneEnds(s) ==
  /\ s \in panes /\ changes < MaxChanges
  /\ panes' = panes \ {s}
  /\ pipe' = [pipe EXCEPT ![s] = 0]
  /\ streams' = IF pipe[s] > 0 THEN [streams EXCEPT ![pipe[s]].cut = TRUE] ELSE streams
  /\ changes' = changes + 1
  /\ UNCHANGED <<astray, current, clientVars, stop>>

PaneStarts(s) ==
  /\ s \notin panes /\ changes < MaxChanges
  /\ panes' = panes \cup {s}
  /\ changes' = changes + 1
  /\ UNCHANGED <<pipe, astray, streams, current, clientVars, stop>>

----------------------------------------------------------------------------
(* The handlers of a client's requests.  An agent that the registry does not *)
(* know, and unsubscribe-output without a subscription, change nothing.      *)

\* The read pump can have received a request before its connection broke or was
\* closed.
CanHandle(c) == handler[c].pc = "idle" /\ closer[c] = "no"

Underway == {c \in Clients : handler[c].pc \in {"replace", "subscribe"}}

\* Mutant of SubscribeOutput: the subscription that is there is not given up.
SubscribeOutputAgain(c, s) ==
  /\ CanHandle(c)
  /\ Cardinality(Made) + Cardinality(Underway) < MaxSubs
  /\ handler' = [handler EXCEPT ![c] = [pc |-> "subscribe", session |-> s, chan |-> NoChannel]]
  /\ UNCHANGED <<tmuxVars, streams, current, held, conn, closer, stop>>

\* subscribe-output takes the old subscription off the map first.
SubscribeOutput(c, s) ==
  /\ CanHandle(c)
  /\ Cardinality(Made) + Cardinality(Underway) < MaxSubs
  /\ handler' = [handler EXCEPT ![c] =
       [pc |-> IF held[c][s] = NoChannel THEN "subscribe" ELSE "replace",
        session |-> s, chan |-> held[c][s]]]
  /\ held' = [held EXCEPT ![c][s] = NoChannel]
  /\ UNCHANGED <<tmuxVars, streams, current, conn, closer, stop>>

UnsubscribeOutput(c, s) ==
  /\ CanHandle(c)
  /\ held[c][s] # NoChannel
  /\ handler' = [handler EXCEPT ![c] = [pc |-> "drop", session |-> s, chan |-> held[c][s]]]
  /\ held' = [held EXCEPT ![c][s] = NoChannel]
  /\ UNCHANGED <<tmuxVars, streams, current, conn, closer, stop>>

\* Unsubscribe, called without c.mu.
Release(c) ==
  /\ handler[c].pc \in {"replace", "drop"}
  /\ Unsubscribe(handler[c].session, handler[c].chan[2])
  /\ Goes(c, IF handler[c].pc = "replace" THEN "subscribe" ELSE "idle", NoChannel)
  /\ UNCHANGED <<panes, changes, held, conn, closer, stop>>

SubscribePipe(c) ==
  /\ handler[c].pc = "subscribe"
  /\ Subscribe(c, handler[c].session)
  /\ UNCHANGED <<panes, changes, held, conn, closer, stop>>

\* Mutant of Store: nothing is stored for a client that has gone.
StoreUnlessGone(c) ==
  /\ handler[c].pc = "store" /\ closer[c] = "no"
  /\ held' = IF conn[c] THEN [held EXCEPT ![c][handler[c].session] = handler[c].chan] ELSE held
  /\ Goes(c, "drain", handler[c].chan)
  /\ UNCHANGED <<tmuxVars, streams, current, conn, closer, stop>>

Store(c) ==
  /\ handler[c].pc = "store" /\ closer[c] = "no"
  /\ held' = [held EXCEPT ![c][handler[c].session] = handler[c].chan]
  /\ Goes(c, "drain", handler[c].chan)
  /\ UNCHANGED <<tmuxVars, streams, current, conn, closer, stop>>

\* The last byte a channel has held.
LastByte(sub) == IF sub.ch = <<>> THEN sub.got ELSE sub.ch[Len(sub.ch)][2]

\* The output from before the redraw is thrown away.
Drain(c) ==
  /\ handler[c].pc = "drain"
  /\ LET ch == handler[c].chan IN
       streams' = WithSub(ch, [Sub(ch) EXCEPT !.ch = <<>>, !.got = LastByte(Sub(ch))])
  /\ Goes(c, "redraw", handler[c].chan)
  /\ UNCHANGED <<tmuxVars, current, held, conn, closer, stop>>

\* ForceRedraw, the pause and the clear-screen frame; then the goroutine starts.
Redraw(c) ==
  /\ handler[c].pc = "redraw"
  /\ LET ch == handler[c].chan IN
       streams' = WithSub(ch, [Sub(ch) EXCEPT !.forwarding = Sub(ch).open])
  /\ Goes(c, "idle", NoChannel)
  /\ UNCHANGED <<tmuxVars, current, held, conn, closer, stop>>

\* The connection breaks; the read pump learns of it when it reads again.
Disconnect(c) ==
  /\ conn[c]
  /\ conn' = [conn EXCEPT ![c] = FALSE]
  /\ UNCHANGED <<tmuxVars, streams, current, held, handler, closer, stop>>

ReadEnds(c) ==
  /\ ~conn[c] /\ handler[c].pc = "idle"
  /\ Goes(c, "ended", NoChannel)
  /\ UNCHANGED <<tmuxVars, streams, current, held, conn, closer, stop>>

Handling(c) ==
  Release(c) \/ SubscribePipe(c) \/ Store(c) \/ Drain(c) \/ Redraw(c) \/ ReadEnds(c)

----------------------------------------------------------------------------
(* Close of a client, by ServeHTTP after the read pump and by CloseAll. *)

ServerCloses(c) ==
  /\ handler[c].pc = "ended" /\ closer[c] = "no"
  /\ closer' = [closer EXCEPT ![c] = "server"]
  /\ Goes(c, "gone", NoChannel)
  /\ UNCHANGED <<tmuxVars, streams, current, held, conn, stop>>

CloseOne(c, s) ==
  /\ closer[c] # "no" /\ held[c][s] # NoChannel
  /\ Unsubscribe(s, held[c][s][2])
  /\ held' = [held EXCEPT ![c][s] = NoChannel]
  /\ UNCHANGED <<panes, changes, handler, conn, closer, stop>>

CloseEnds(c) ==
  /\ closer[c] # "no" /\ \A s \in Sessions : held[c][s] = NoChannel
  /\ conn' = [conn EXCEPT ![c] = FALSE]
  /\ closer' = [closer EXCEPT ![c] = "no"]
  /\ stop' = IF closer[c] = "stop" THEN [stop EXCEPT !.todo = @ \ {c}] ELSE stop
  /\ UNCHANGED <<tmuxVars, streams, current, held, handler>>

Closing(c) == (\E s \in Sessions : CloseOne(c, s)) \/ CloseEnds(c)

\* Adapter.Stop: CloseAll, one client after the other, ...
StopBegins ==
  /\ stop.pc = "running"
  /\ stop' = [pc |-> "closing", todo |-> {c \in Clients : handler[c].pc # "gone"}]
  /\ UNCHANGED <<tmuxVars, streams, current, clientVars>>

StopCloses(c) ==
  /\ stop.pc = "closing" /\ c \in stop.todo
  /\ closer[c] = "no" /\ \A d \in Clients : closer[d] # "stop"
  /\ closer' = [closer EXCEPT ![c] = "stop"]
  /\ UNCHANGED <<tmuxVars, streams, current, held, handler, conn, stop>>

\* ... then StopAll ...
StopAll ==
  /\ stop.pc = "closing" /\ stop.todo = {}
  /\ streams' = [i \in DOMAIN streams |->
       IF i = current[streams[i].session] THEN Stopped(streams[i]) ELSE streams[i]]
  /\ PipesClosed({s \in Sessions : current[s] # 0})
  /\ current' = [s \in Sessions |-> 0]
  /\ stop' = [stop EXCEPT !.pc = "stopped"]
  /\ UNCHANGED <<panes, changes, clientVars>>

\* ... and Close of the connection to tmux.
StopEnds ==
  /\ stop.pc = "stopped"
  /\ stop' = [stop EXCEPT !.pc = "closed"]
  /\ UNCHANGED <<tmuxVars, streams, current, clientVars>>

Stopping == StopBegins \/ (\E c \in Clients : StopCloses(c)) \/ StopAll \/ StopEnds

----------------------------------------------------------------------------
Pane(s) == Output(s) \/ PaneEnds(s) \/ PaneStarts(s)

Requests(c) == \E s \in Sessions : SubscribeOutput(c, s) \/ UnsubscribeOutput(c, s)

OutputNext ==
  \/ \E s \in Sessions : Pane(s)
  \/ \E i \in DOMAIN streams : TailFile(i)
  \/ \E ch \in Made : Forward(ch)
  \/ \E c \in Clients :
       Requests(c) \/ Handling(c) \/ Disconnect(c) \/ ServerCloses(c) \/ Closing(c)
  \/ Stopping

OutputSpec == Init /\ [][OutputNext]_vars

----------------------------------------------------------------------------
(***************************************************************************)
(* Properties.                                                             *)
(***************************************************************************)
\* Types; a subscriber's channel never holds more than its capacity.
OutputTypeOK ==
  /\ panes \subseteq Sessions
  /\ pipe \in [Sessions -> -1..Len(streams)]
  /\ astray \subseteq Sessions
  /\ changes \in 0..MaxChanges
  /\ \A i \in DOMAIN streams :
       /\ streams[i] \in Stream
       /\ streams[i].flushed <= streams[i].size
       /\ \A k \in DOMAIN streams[i].subs : Len(streams[i].subs[k].ch) <= ChanCap
  /\ current \in [Sessions -> 0..Len(streams)]
  /\ held \in [Clients -> [Sessions -> Made \cup {NoChannel}]]
  /\ handler \in [Clients -> Handler]
  /\ conn \in [Clients -> BOOLEAN]
  /\ closer \in [Clients -> {"no", "server", "stop"}]
  /\ stop \in [pc : {"running", "closing", "stopped", "closed"}, todo : SUBSET Clients]

\* specs/adapter-api.md:305 "Output bytes routed to all subscribed WebSocket
\* clients": each client gets the bytes sent on while its subscription is open in
\* order and at most once, and all of them unless its channel was full.
DeliveredOnce ==
  \A ch \in Made :
    LET sub == Sub(ch)
        q == sub.ch
        before == [k \in DOMAIN q |-> IF k = 1 THEN sub.got ELSE q[k - 1][2]]
    IN /\ \A k \in DOMAIN q :
            before[k] < q[k][1] /\ (~sub.gap => q[k][1] = before[k] + 1)
       /\ LastByte(sub) <= streams[ch[1]].flushed
       /\ sub.open /\ ~sub.gap => LastByte(sub) = streams[ch[1]].flushed

\* specs/adapter-api.md:303 "`pipe-pane -o` activated per-agent when first client
\* subscribes. Deactivated when last client unsubscribes": a stream on record has
\* a subscriber and the pane is piped to it, unless that pane has ended since;
\* without a stream there is no pipe.  Not so where a pipe-pane did other than its
\* answer says (pipepane.go:68, :127), or a crash has left a pipe, until a
\* PipePaneStop is carried out.
PipeFollowsSubscribers ==
  \A s \in Sessions : LET i == current[s] IN
    IF i # 0
    THEN /\ streams[i].live /\ Remaining(streams[i]) # {}
         /\ s \in astray \/ pipe[s] = i \/ streams[i].cut
    ELSE s \in astray \/ pipe[s] = 0 \/ stop.pc = "closed"

InHand(c) == IF handler[c].pc \in {"replace", "store", "drop"} THEN {handler[c].chan} ELSE {}

\* internal/wsadapter/handler.go:239 "This prevents leaking the old channel and
\* its forwarding goroutine": an open channel is on the map of its client or in
\* the hands of the handler, and until StopAll those are open, whatever other
\* clients unsubscribe meanwhile: no number is taken for another stream's.
SubscriptionsAreHeld ==
  \A c \in Clients :
    LET open == {ch \in MadeBy(c) : Sub(ch).open}
        has == InHand(c) \cup ({held[c][s] : s \in Sessions} \ {NoChannel})
    IN /\ open \subseteq has
       /\ stop.pc \in {"running", "closing"} => open = has

\* internal/wsadapter/client.go:134 "Close cleans up all subscriptions": when the
\* server is through with a client, none of its channels is open, even if Close
\* by Stop came in the middle of its subscribe-output and left it one to store.
GoneHoldsNothing ==
  \A c \in Clients :
    handler[c].pc = "gone" /\ closer[c] = "no" =>
      /\ \A s \in Sessions : held[c][s] = NoChannel
      /\ \A ch \in MadeBy(c) : ~Sub(ch).open
=============================================================================
