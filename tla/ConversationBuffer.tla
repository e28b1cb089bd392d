------------------------- MODULE ConversationBuffer -------------------------
(***************************************************************************)
(* internal/conv/buffer.go: the per-conversation event ring buffer.        *)
(*                                                                         *)
(* One ConversationBuffer, the goroutine that appends parsed events to it  *)
(* (pumpFileStream) and the goroutines that subscribe to it, read their    *)
(* live channel (streamLiveWithContext) and unsubscribe.  Every method of  *)
(* the buffer runs under its mutex, so every method is one step; reading   *)
(* from a live channel is a step of its own.                               *)
(*                                                                         *)
(* An event is a sequence number and a type: the filters look at nothing   *)
(* else.  A snapshot is the set of its sequence numbers, because the code  *)
(* always lists it in buffer order.                                        *)
(***************************************************************************)
EXTENDS Integers, Sequences, FiniteSets

CONSTANTS
  EventTypes,     \* the event types of event.go
  Filters,        \* the filters that subscribers use
  MaxSize,        \* maxSize: capacity of the ring
  ChanCap,        \* capacity of a live channel (256 in the code)
  MaxEvents,      \* bound: events appended
  MaxSubs         \* bound: subscriptions made

\* An empty set of types is Go's nil map: buildFilter never makes an empty one.
FilterSet == [types : SUBSET EventTypes, excludeThinking : BOOLEAN,
              excludeProgress : BOOLEAN]

\* NewConversationWatcher replaces a size below 1 by 1000.
ASSUME BufferAssumption ==
  /\ Filters \subseteq FilterSet
  /\ MaxSize \in Nat \ {0}
  /\ ChanCap \in Nat \ {0}
  /\ MaxEvents \in Nat
  /\ MaxSubs \in Nat

VARIABLES
  events,   \* the ring: a sequence of [seq, type]
  nextSeq,  \* sequence number of the next event
  subs,     \* subscriptions by id (ids count from 1), with their channels
  log       \* history: type of every event ever appended, seq 0 first

vars == <<events, nextSeq, subs, log>>

Event == [seq : Nat, type : EventTypes]

\* filter, open and ch are the code's bufferSub; a closed channel can still
\* be drained.  The other fields are history: the snapshot handed out, what
\* the reader took from the channel, what Append could not send, and the
\* values of nextSeq when the subscription was opened and closed.
Subscription ==
  [filter : FilterSet, open : BOOLEAN, ch : Seq(Nat), snapshot : SUBSET Nat,
   got : Seq(Nat), dropped : SUBSET Nat, first : Nat, last : Nat]

----------------------------------------------------------------------------
\* EventFilter.Matches
Matches(f, type) ==
  IF f.types # {} THEN type \in f.types
  ELSE /\ ~(f.excludeThinking /\ type = "thinking")
       /\ ~(f.excludeProgress /\ type = "progress")

\* Mutants of Evicted: off by one; the newest event makes room.
EvictedLate == IF Len(events) > MaxSize THEN Tail(events) ELSE events

EvictedNewest ==
  IF Len(events) >= MaxSize THEN SubSeq(events, 1, Len(events) - 1) ELSE events

\* The ring after room is made for one more event.
Evicted == IF Len(events) >= MaxSize THEN Tail(events) ELSE events

\* Mutants of Offer: the newest event first; one place of the channel never
\* used; a send to a closed channel.
OfferInFront(s, e) ==
  IF ~s.open \/ ~Matches(s.filter, e.type) THEN s
  ELSE IF Len(s.ch) < ChanCap THEN [s EXCEPT !.ch = <<e.seq>> \o @]
  ELSE [s EXCEPT !.dropped = @ \cup {e.seq}]

OfferShort(s, e) ==
  IF ~s.open \/ ~Matches(s.filter, e.type) THEN s
  ELSE IF Len(s.ch) < ChanCap - 1 THEN [s EXCEPT !.ch = Append(@, e.seq)]
  ELSE [s EXCEPT !.dropped = @ \cup {e.seq}]

OfferClosed(s, e) ==
  IF ~Matches(s.filter, e.type) THEN s
  ELSE IF Len(s.ch) < ChanCap THEN [s EXCEPT !.ch = Append(@, e.seq)]
  ELSE [s EXCEPT !.dropped = @ \cup {e.seq}]

\* The non-blocking send of event e to one subscription.
Offer(s, e) ==
  IF ~s.open \/ ~Matches(s.filter, e.type) THEN s
  ELSE IF Len(s.ch) < ChanCap THEN [s EXCEPT !.ch = Append(@, e.seq)]
  ELSE [s EXCEPT !.dropped = @ \cup {e.seq}]

\* Mutant of Snapshot: the filter is left out.
SnapshotUnfiltered(f) == {events[k].seq : k \in DOMAIN events}

\* snapshotLocked, and the exported Snapshot
Snapshot(f) ==
  {events[k].seq : k \in {j \in DOMAIN events : Matches(f, events[j].type)}}

MinSeq == IF events = <<>> THEN -1 ELSE events[1].seq

\* Mutant of EventsSince: off by one, the first event evicted is not missed.
EventsSinceLax(after, f) ==
  IF events = <<>> THEN [ok |-> TRUE, seqs |-> {}]
  ELSE IF after < MinSeq - 2 THEN [ok |-> FALSE, seqs |-> {}]
  ELSE [ok |-> TRUE, seqs |-> {q \in Snapshot(f) : q > after}]

\* EventsSince(afterSeq, filter): ok = FALSE reports a gap.
EventsSince(after, f) ==
  IF events = <<>> THEN [ok |-> TRUE, seqs |-> {}]
  ELSE IF after < MinSeq - 1 THEN [ok |-> FALSE, seqs |-> {}]
  ELSE [ok |-> TRUE, seqs |-> {q \in Snapshot(f) : q > after}]

----------------------------------------------------------------------------
Init ==
  /\ events = <<>>
  /\ nextSeq = 0
  /\ subs = <<>>
  /\ log = <<>>

\* ConversationBuffer.Append, called with an event of type t
AppendEvent(t) ==
  /\ nextSeq < MaxEvents
  /\ LET e == [seq |-> nextSeq, type |-> t] IN
       /\ events' = Append(Evicted, e)
       /\ subs' = [i \in DOMAIN subs |-> Offer(subs[i], e)]
  /\ nextSeq' = nextSeq + 1
  /\ log' = Append(log, t)

\* ConversationBuffer.Subscribe: snapshot and registration in one step
Subscribe(f) ==
  /\ Len(subs) < MaxSubs
  /\ subs' = Append(subs, [filter |-> f, open |-> TRUE, ch |-> <<>>,
                           snapshot |-> Snapshot(f), got |-> <<>>,
                           dropped |-> {}, first |-> nextSeq, last |-> nextSeq])
  /\ UNCHANGED <<events, nextSeq, log>>

\* ConversationBuffer.Unsubscribe: the id leaves the map, its channel closes
Unsubscribe(i) ==
  /\ i \in DOMAIN subs
  /\ subs[i].open
  /\ subs' = [subs EXCEPT ![i].open = FALSE, ![i].last = nextSeq]
  /\ UNCHANGED <<events, nextSeq, log>>

\* The reader's receive; a closed channel gives out what it still holds.
Receive(i) ==
  /\ i \in DOMAIN subs
  /\ subs[i].ch # <<>>
  /\ subs' = [subs EXCEPT ![i].got = Append(@, Head(subs[i].ch)),
                          ![i].ch = Tail(@)]
  /\ UNCHANGED <<events, nextSeq, log>>

Next ==
  \/ \E t \in EventTypes : AppendEvent(t)
  \/ \E f \in Filters : Subscribe(f)
  \/ \E i \in 1..MaxSubs : Unsubscribe(i)
  \/ \E i \in 1..MaxSubs : Receive(i)

Spec == Init /\ [][Next]_vars

----------------------------------------------------------------------------
(***************************************************************************)
(* Properties.                                                             *)
(***************************************************************************)
Sent(s) == s.got \o s.ch

\* One past the last event a subscription was registered for.
End(s) == IF s.open THEN nextSeq ELSE s.last

MatchingSeqs(f, from, to) == {q \in from..(to - 1) : Matches(f, log[q + 1])}

OldestAt(n) == IF n < MaxSize THEN 0 ELSE n - MaxSize

\* Types, and the sizes of the ring and of the channels.
TypeOK ==
  /\ events \in Seq(Event)
  /\ nextSeq \in Nat
  /\ log \in Seq(EventTypes)
  /\ subs \in Seq(Subscription)
  /\ Len(events) <= MaxSize
  /\ \A i \in DOMAIN subs : Len(subs[i].ch) <= ChanCap

\* The ring is the unbroken end of the log: the last MaxSize events ever
\* appended, in order, under the numbers Append gave them.
WindowIsTailOfLog ==
  /\ Len(log) = nextSeq
  /\ Len(events) = nextSeq - OldestAt(nextSeq)
  /\ \A k \in 1..Len(events) :
       events[k] = [seq |-> OldestAt(nextSeq) + k - 1,
                    type |-> log[OldestAt(nextSeq) + k]]

\* buffer.go:84-85 "The snapshot and channel registration are atomic - no
\* events are missed between them": what a subscriber saw in its snapshot ends
\* exactly where its stream begins, and every later matching event was put on
\* its channel or dropped because that was full, never both and never neither.
SnapshotMeetsStream ==
  \A i \in DOMAIN subs : LET s == subs[i] IN
    /\ s.snapshot = MatchingSeqs(s.filter, OldestAt(s.first), s.first)
    /\ \A q \in MatchingSeqs(s.filter, s.first, End(s)) :
         (q \in s.dropped) <=> \A j \in 1..Len(Sent(s)) : Sent(s)[j] # q
    /\ s.dropped \subseteq MatchingSeqs(s.filter, s.first, End(s))
    /\ \A j \in 1..Len(Sent(s)) :
         Sent(s)[j] \in MatchingSeqs(s.filter, s.first, End(s))

\* A subscriber gets its events in the order of Append, each at most once.
InOrder ==
  \A i \in DOMAIN subs :
    \A j, k \in 1..Len(Sent(subs[i])) :
      j < k => Sent(subs[i])[j] < Sent(subs[i])[k]

\* A drop needs a full channel of undelivered events before it: the first
\* ChanCap matching events of a subscription are never lost.
FirstEventsNeverDropped ==
  \A i \in DOMAIN subs : \A q \in subs[i].dropped :
    /\ ChanCap <= Len(Sent(subs[i]))
    /\ Sent(subs[i])[ChanCap] < q

\* A client that has everything up to event `after' resumes without a silent gap:
\* EventsSince returns every later matching event, and refuses exactly if an event
\* after `after' was evicted.  (buffer.go:120 says "or nil if afterSeq is no longer
\* in buffer", which the code does not do when only events up to `after' are gone.)
ResumeIsExact ==
  \A f \in Filters : \A after \in -1..nextSeq :
    LET r == EventsSince(after, f) IN
      /\ r.ok <=> OldestAt(nextSeq) <= after + 1
      /\ r.ok => r.seqs = MatchingSeqs(f, after + 1, nextSeq)

\* buffer.go:99 "Unsubscribe removes a subscriber by ID and closes its
\* channel": nothing is put on, or dropped from, a closed channel afterwards
\* (a send to a closed Go channel panics), and it never opens again.
ClosedStaysClosed ==
  [][\A i \in DOMAIN subs : ~subs[i].open =>
       /\ ~subs'[i].open
       /\ Sent(subs'[i]) = Sent(subs[i])
       /\ subs'[i].dropped = subs[i].dropped]_vars
=============================================================================
