---------------------- MODULE ConversationBuffer_proofs ----------------------
(***************************************************************************)
(* Proofs about ConversationBuffer, for every ring size, channel capacity, *)
(* set of event types and set of filters.                                  *)
(*                                                                         *)
(* BufferInv is the inductive invariant: types, the window, and for every  *)
(* subscription that its stream is accounted for.  What SnapshotMeetsStream *)
(* lacks to be inductive is that a subscription lies in the past           *)
(* (SubBounds): the log entries it talks about are never overwritten.      *)
(***************************************************************************)
EXTENDS ConversationBuffer, SequenceTheorems, TLAPS

SubBounds(s) == s.first <= s.last /\ s.last <= nextSeq

\* The four properties of one subscription.
SnapshotOK(s) ==
  s.snapshot = MatchingSeqs(s.filter, OldestAt(s.first), s.first)

StreamOK(s) ==
  /\ \A q \in MatchingSeqs(s.filter, s.first, End(s)) :
       (q \in s.dropped) <=> \A j \in 1..Len(Sent(s)) : Sent(s)[j] # q
  /\ s.dropped \subseteq MatchingSeqs(s.filter, s.first, End(s))
  /\ \A j \in 1..Len(Sent(s)) :
       Sent(s)[j] \in MatchingSeqs(s.filter, s.first, End(s))

OrderOK(s) ==
  \A j, k \in 1..Len(Sent(s)) : j < k => Sent(s)[j] < Sent(s)[k]

DropOK(s) ==
  \A q \in s.dropped : ChanCap <= Len(Sent(s)) /\ Sent(s)[ChanCap] < q

SubOK(s) ==
  /\ s \in Subscription
  /\ Len(s.ch) <= ChanCap
  /\ SubBounds(s)
  /\ SnapshotOK(s)
  /\ StreamOK(s)
  /\ OrderOK(s)
  /\ DropOK(s)

RingOK ==
  /\ events \in Seq(Event)
  /\ nextSeq \in Nat
  /\ log \in Seq(EventTypes)
  /\ WindowIsTailOfLog

BufferInv ==
  /\ RingOK
  /\ subs \in Seq(Subscription)
  /\ \A i \in 1..Len(subs) : SubOK(subs[i])

----------------------------------------------------------------------------
(***************************************************************************)
(* A receive moves the head of the channel to the end of what was got, and *)
(* a send extends the channel: the sequence sent stays, or grows by one.   *)
(***************************************************************************)
LEMMA ReceiveKeepsSent ==
  ASSUME NEW g \in Seq(Nat), NEW c \in Seq(Nat), c # <<>>
  PROVE  Append(g, Head(c)) \o Tail(c) = g \o c
<1> DEFINE l == Append(g, Head(c)) \o Tail(c)
           r == g \o c
<1>1. /\ Append(g, Head(c)) \in Seq(Nat)
      /\ Tail(c) \in Seq(Nat)
      /\ Len(Append(g, Head(c))) = Len(g) + 1
      /\ Len(Tail(c)) = Len(c) - 1
      /\ \A j \in 1..Len(Tail(c)) : Tail(c)[j] = c[j + 1]
      /\ Len(c) \in Nat \ {0}
  BY HeadTailProperties, EmptySeq
<1>2. /\ l \in Seq(Nat) /\ r \in Seq(Nat)
      /\ Len(l) = Len(g) + Len(c) /\ Len(r) = Len(g) + Len(c)
  BY <1>1, ConcatProperties
<1>3. \A i \in 1..Len(l) : l[i] = r[i]
  BY <1>1, <1>2, ConcatProperties, SMTT(30)
<1> QED BY <1>2, <1>3, SeqEqual

\* A send puts the event at the end of the sequence sent so far.
LEMMA SendAppends ==
  ASSUME NEW g \in Seq(Nat), NEW c \in Seq(Nat), NEW q \in Nat
  PROVE  g \o Append(c, q) = Append(g \o c, q)
<1> DEFINE l == g \o Append(c, q)
           r == Append(g \o c, q)
<1>1. Append(c, q) \in Seq(Nat) /\ Len(Append(c, q)) = Len(c) + 1
  OBVIOUS
<1>2. g \o c \in Seq(Nat) /\ Len(g \o c) = Len(g) + Len(c)
  BY ConcatProperties
<1>3. /\ l \in Seq(Nat) /\ r \in Seq(Nat)
      /\ Len(l) = Len(g) + Len(c) + 1 /\ Len(r) = Len(g) + Len(c) + 1
  BY <1>1, <1>2, ConcatProperties
<1>4. \A i \in 1..Len(l) : l[i] = r[i]
  BY <1>1, <1>2, <1>3, ConcatProperties, SMTT(30)
<1> QED BY <1>3, <1>4, SeqEqual

\* What was matched stays matched when the log grows, and the event appended
\* is the only new candidate.
LEMMA MatchingGrows ==
  ASSUME RingOK, NEW t \in EventTypes,
         nextSeq' = nextSeq + 1, log' = Append(log, t),
         NEW f, NEW a \in Nat
  PROVE  /\ \A b \in 0..nextSeq : MatchingSeqs(f, a, b)' = MatchingSeqs(f, a, b)
         /\ a <= nextSeq =>
              MatchingSeqs(f, a, nextSeq)' =
                MatchingSeqs(f, a, nextSeq) \cup
                  (IF Matches(f, t) THEN {nextSeq} ELSE {})
<1>1. /\ nextSeq \in Nat /\ Len(log) = nextSeq
      /\ \A q \in 0..(nextSeq - 1) : log'[q + 1] = log[q + 1]
      /\ log'[nextSeq + 1] = t
  BY DEF RingOK, WindowIsTailOfLog
<1>2. \A b \in 0..nextSeq : MatchingSeqs(f, a, b)' = MatchingSeqs(f, a, b)
  BY <1>1 DEF MatchingSeqs, Matches
<1>3. ASSUME a <= nextSeq
      PROVE  MatchingSeqs(f, a, nextSeq)' =
               MatchingSeqs(f, a, nextSeq) \cup
                 (IF Matches(f, t) THEN {nextSeq} ELSE {})
  <2>1. a..(nextSeq' - 1) = a..(nextSeq - 1) \cup {nextSeq}
    BY <1>1, <1>3
  <2>2. \A q \in a..(nextSeq - 1) : log'[q + 1] = log[q + 1]
    BY <1>1
  <2>3. MatchingSeqs(f, a, nextSeq)' =
          {q \in a..(nextSeq - 1) \cup {nextSeq} : Matches(f, log'[q + 1])}
    BY <2>1 DEF MatchingSeqs, Matches
  <2> QED BY <1>1, <2>2, <2>3 DEF MatchingSeqs
<1> QED BY <1>2, <1>3

\* The ring after Append is the end of the longer log.
LEMMA AppendKeepsRing ==
  ASSUME RingOK, NEW t \in EventTypes, AppendEvent(t)
  PROVE  RingOK'
<1>1. /\ events \in Seq(Event) /\ nextSeq \in Nat /\ log \in Seq(EventTypes)
      /\ nextSeq' = nextSeq + 1 /\ log' = Append(log, t)
      /\ events' = Append(Evicted, [seq |-> nextSeq, type |-> t])
      /\ MaxSize \in Nat \ {0}
  BY BufferAssumption DEF RingOK, AppendEvent
<1>2. [seq |-> nextSeq, type |-> t] \in Event
  BY <1>1 DEF Event
<1>3. /\ Len(log) = nextSeq
      /\ Len(events) = nextSeq - OldestAt(nextSeq)
      /\ \A k \in 1..Len(events) :
           events[k] = [seq |-> OldestAt(nextSeq) + k - 1,
                        type |-> log[OldestAt(nextSeq) + k]]
  BY <1>1 DEF RingOK, WindowIsTailOfLog, OldestAt
<1>4. /\ Evicted \in Seq(Event)
      /\ Len(Evicted) = nextSeq - OldestAt(nextSeq + 1)
      /\ \A k \in 1..Len(Evicted) :
           Evicted[k] = [seq |-> OldestAt(nextSeq + 1) + k - 1,
                         type |-> log[OldestAt(nextSeq + 1) + k]]
  <2>1. CASE Len(events) >= MaxSize
    <3>1. events # <<>> /\ Evicted = Tail(events)
      BY <1>1, <2>1 DEF Evicted
    <3>2. OldestAt(nextSeq + 1) = OldestAt(nextSeq) + 1 /\ OldestAt(nextSeq) \in Nat
      BY <1>1, <1>3, <2>1 DEF OldestAt
    <3>3. /\ Tail(events) \in Seq(Event) /\ Len(Tail(events)) = Len(events) - 1
          /\ \A k \in 1..Len(Tail(events)) : Tail(events)[k] = events[k + 1]
      BY <1>1, <3>1, HeadTailProperties
    <3>4. /\ Evicted \in Seq(Event)
          /\ Len(Evicted) = nextSeq - OldestAt(nextSeq + 1)
      BY <1>1, <1>3, <3>1, <3>2, <3>3
    <3>5. ASSUME NEW k \in 1..Len(Evicted)
          PROVE  Evicted[k] = [seq |-> OldestAt(nextSeq + 1) + k - 1,
                               type |-> log[OldestAt(nextSeq + 1) + k]]
      <4>1. k + 1 \in 1..Len(events) /\ Evicted[k] = events[k + 1]
        BY <1>1, <1>3, <3>1, <3>2, <3>3, <3>4
      <4>2. /\ OldestAt(nextSeq) + (k + 1) - 1 = OldestAt(nextSeq + 1) + k - 1
            /\ OldestAt(nextSeq) + (k + 1) = OldestAt(nextSeq + 1) + k
        BY <3>2, <3>4, <1>1
      <4> QED BY <1>3, <4>1, <4>2, Zenon
    <3> QED BY <3>4, <3>5
  <2>2. CASE ~(Len(events) >= MaxSize)
    <3>1. OldestAt(nextSeq) = 0 /\ OldestAt(nextSeq + 1) = 0
      BY <1>1, <1>3, <2>2 DEF OldestAt
    <3> QED BY <1>1, <1>3, <2>2, <3>1 DEF Evicted
  <2> QED BY <2>1, <2>2
<1>5. events' \in Seq(Event) /\ Len(events') = Len(Evicted) + 1
  BY <1>1, <1>2, <1>4
<1>6. \A k \in 1..Len(events') : events'[k] =
        [seq |-> OldestAt(nextSeq + 1) + k - 1,
         type |-> log'[OldestAt(nextSeq + 1) + k]]
  <2>0. OldestAt(nextSeq + 1) \in Nat /\ OldestAt(nextSeq + 1) <= nextSeq
    BY <1>1 DEF OldestAt
  <2> SUFFICES ASSUME NEW k \in 1..Len(events')
               PROVE  events'[k] = [seq |-> OldestAt(nextSeq + 1) + k - 1,
                                    type |-> log'[OldestAt(nextSeq + 1) + k]]
    OBVIOUS
  <2>1. CASE k = Len(Evicted) + 1
    BY <1>1, <1>3, <1>4, <2>0, <2>1
  <2>2. CASE k # Len(Evicted) + 1
    <3>1. k \in 1..Len(Evicted)
      BY <1>4, <1>5, <2>2
    <3>2. events'[k] = Evicted[k] /\ OldestAt(nextSeq + 1) + k \in 1..Len(log)
      BY <1>1, <1>3, <1>4, <2>0, <3>1
    <3> QED BY <1>1, <1>4, <3>1, <3>2
  <2> QED BY <2>1, <2>2
<1>7. WindowIsTailOfLog'
  <2>1. OldestAt(nextSeq)' = OldestAt(nextSeq + 1) /\ OldestAt(nextSeq + 1) \in Nat
    BY <1>1 DEF OldestAt
  <2>2. Len(log') = nextSeq' /\ Len(events') = nextSeq' - OldestAt(nextSeq + 1)
    BY <1>1, <1>3, <1>4, <1>5, <2>1
  <2> QED BY <1>6, <2>1, <2>2 DEF WindowIsTailOfLog
<1> QED BY <1>1, <1>5, <1>7 DEF RingOK

\* Typing and length of what was sent: what was got, then what is in the channel.
LEMMA ConcatFacts ==
  ASSUME NEW g \in Seq(Nat), NEW c \in Seq(Nat)
  PROVE  /\ Len(g) \in Nat /\ Len(c) \in Nat
         /\ g \o c \in Seq(Nat)
         /\ Len(g \o c) = Len(g) + Len(c)
BY ConcatProperties

\* Arithmetic: an index within the capacity is an index of the sequence sent.
LEMMA InSum ==
  ASSUME NEW c \in Nat, NEW a \in Nat, NEW b \in Nat, NEW l, l = a + b,
         1 <= c, c <= b \/ c <= l
  PROVE  c \in 1..l /\ c <= l /\ c <= l + 1
OBVIOUS

\* Append keeps the old elements at their places and puts the new one last.
LEMMA AppendFacts ==
  ASSUME NEW x \in Seq(Nat), NEW q \in Nat
  PROVE  /\ Append(x, q) \in Seq(Nat)
         /\ Len(x) \in Nat
         /\ Len(Append(x, q)) = Len(x) + 1
         /\ \A j \in 1..Len(x) : Append(x, q)[j] = x[j]
         /\ Append(x, q)[Len(x) + 1] = q
OBVIOUS

\* Append offers its event to every subscription and keeps each accounted for.
LEMMA OfferKeepsSub ==
  ASSUME RingOK, NEW t \in EventTypes,
         nextSeq' = nextSeq + 1, log' = Append(log, t),
         NEW s, SubOK(s), NEW r, r = Offer(s, [seq |-> nextSeq, type |-> t])
  PROVE  SubOK(r)'
<1>1. /\ nextSeq \in Nat /\ ChanCap \in Nat \ {0}
      /\ s \in Subscription /\ Len(s.ch) <= ChanCap /\ SubBounds(s)
      /\ s.first \in Nat /\ s.last \in Nat /\ s.open \in BOOLEAN
      /\ s.got \in Seq(Nat) /\ s.ch \in Seq(Nat) /\ s.dropped \subseteq Nat
  BY BufferAssumption DEF RingOK, SubOK, Subscription
<1>2. s.first <= s.last /\ s.last <= nextSeq
  BY <1>1 DEF SubBounds
<1>3. /\ r.filter = s.filter /\ r.open = s.open /\ r.first = s.first
      /\ r.last = s.last /\ r.snapshot = s.snapshot /\ r.got = s.got
  BY <1>1 DEF Offer, Subscription
<1>4. SubBounds(r)'
  BY <1>1, <1>2, <1>3 DEF SubBounds
<1>5. SnapshotOK(r)'
  <2>1. /\ OldestAt(s.first) \in Nat
        /\ s.first \in 0..nextSeq
    BY <1>1, <1>2, BufferAssumption DEF OldestAt
  <2>2. MatchingSeqs(s.filter, OldestAt(s.first), s.first)' =
          MatchingSeqs(s.filter, OldestAt(s.first), s.first)
    BY <2>1, MatchingGrows
  <2> QED BY <1>3, <2>2 DEF SnapshotOK, SubOK, OldestAt
<1>6. Sent(s) \in Seq(Nat) /\ StreamOK(s) /\ OrderOK(s) /\ DropOK(s)
  BY <1>1, ConcatProperties DEF Sent, SubOK
<1>a. /\ Len(s.ch) \in Nat /\ Len(s.got) \in Nat /\ Len(Sent(s)) \in Nat
      /\ Len(Sent(s)) = Len(s.got) + Len(s.ch)
  <2>1. s.got \in Seq(Nat) /\ s.ch \in Seq(Nat)
    BY <1>1
  <2>2. Sent(s) = s.got \o s.ch
    BY DEF Sent
  <2> QED BY <2>1, <2>2, ConcatFacts
<1>7. CASE r = s /\ ~(s.open /\ Matches(s.filter, t))
  <2>1. MatchingSeqs(s.filter, s.first, End(s))' =
          MatchingSeqs(s.filter, s.first, End(s))
    <3>1. CASE s.open
      <4>1. ~Matches(s.filter, t) /\ s.first <= nextSeq
        BY <1>1, <1>2, <1>7, <3>1
      <4>2. MatchingSeqs(s.filter, s.first, nextSeq)' =
              MatchingSeqs(s.filter, s.first, nextSeq)
        <5>1. MatchingSeqs(s.filter, s.first, nextSeq)' =
                MatchingSeqs(s.filter, s.first, nextSeq) \cup
                  (IF Matches(s.filter, t) THEN {nextSeq} ELSE {})
          BY <1>1, <4>1, MatchingGrows
        <5> QED BY <4>1, <5>1
      <4> QED BY <3>1, <4>2 DEF End
    <3>2. CASE ~s.open
      <4>1. s.last \in 0..nextSeq
        BY <1>1, <1>2
      <4>2. MatchingSeqs(s.filter, s.first, s.last)' =
              MatchingSeqs(s.filter, s.first, s.last)
        BY <1>1, <4>1, MatchingGrows
      <4> QED BY <3>2, <4>2 DEF End
    <3> QED BY <3>1, <3>2
  <2>2. StreamOK(r)'
    BY <1>6, <1>7, <2>1 DEF StreamOK, Sent
  <2> QED
    BY <1>1, <1>4, <1>5, <1>6, <1>7, <2>2 DEF SubOK, OrderOK, DropOK, Sent
<1>8. CASE s.open /\ Matches(s.filter, t)
  <2>1. MatchingSeqs(s.filter, s.first, End(s))' =
          MatchingSeqs(s.filter, s.first, End(s)) \cup {nextSeq}
    <3>1. s.first <= nextSeq
      BY <1>1, <1>2
    <3>2. MatchingSeqs(s.filter, s.first, nextSeq)' =
            MatchingSeqs(s.filter, s.first, nextSeq) \cup
              (IF Matches(s.filter, t) THEN {nextSeq} ELSE {})
      BY <1>1, <3>1, MatchingGrows
    <3>3. MatchingSeqs(s.filter, s.first, nextSeq)' =
            MatchingSeqs(s.filter, s.first, nextSeq) \cup {nextSeq}
      BY <1>8, <3>2
    <3> QED BY <1>8, <3>3 DEF End
  <2>2. /\ \A q \in MatchingSeqs(s.filter, s.first, End(s)) :
             q \in Nat /\ q < nextSeq
        /\ \A j \in 1..Len(Sent(s)) : Sent(s)[j] \in Nat /\ Sent(s)[j] < nextSeq
        /\ \A q \in s.dropped : q < nextSeq
    BY <1>1, <1>2, <1>6, <1>8 DEF MatchingSeqs, End, StreamOK
  <2>3. CASE Len(s.ch) < ChanCap
    <3>1. r = [s EXCEPT !.ch = Append(@, nextSeq)]
      BY <1>8, <2>3 DEF Offer
    <3>2. r.ch = Append(s.ch, nextSeq) /\ r.dropped = s.dropped
      BY <1>1, <3>1 DEF Subscription
    <3>3. r \in Subscription /\ Len(r.ch) <= ChanCap
      <4>1. Append(s.ch, nextSeq) \in Seq(Nat) /\ Len(Append(s.ch, nextSeq)) = Len(s.ch) + 1
        BY <1>1, AppendFacts
      <4>2. Len(r.ch) <= ChanCap
        BY <1>1, <1>a, <2>3, <3>2, <4>1
      <4>3. r \in Subscription
        BY <1>1, <3>1, <4>1 DEF Subscription
      <4> QED BY <4>2, <4>3
    <3>4. Sent(r) = Append(Sent(s), nextSeq)
      BY <1>1, <1>3, <3>2, SendAppends DEF Sent
    <3>5. /\ Len(Sent(r)) = Len(Sent(s)) + 1
          /\ \A j \in 1..Len(Sent(s)) : Sent(r)[j] = Sent(s)[j]
          /\ Sent(r)[Len(Sent(s)) + 1] = nextSeq
      <4>1. Sent(s) \in Seq(Nat) /\ nextSeq \in Nat
        BY <1>1, <1>6
      <4> QED BY <3>4, <4>1, AppendFacts
    <3>6. OrderOK(r)
      BY <1>6, <2>2, <3>5 DEF OrderOK
    <3>7. DropOK(r)
      <4> SUFFICES ASSUME NEW q \in s.dropped
                   PROVE  ChanCap <= Len(Sent(r)) /\ Sent(r)[ChanCap] < q
        BY <3>2 DEF DropOK
      <4>1. ChanCap <= Len(Sent(s)) /\ Sent(s)[ChanCap] < q
        BY <1>6 DEF DropOK
      <4>2. ChanCap \in 1..Len(Sent(s)) /\ ChanCap <= Len(Sent(r))
        <5>1. ChanCap \in Nat /\ 1 <= ChanCap
          BY <1>1
        <5> QED BY <1>a, <3>5, <4>1, <5>1, InSum
      <4> QED BY <3>5, <4>1, <4>2
    <3>8. StreamOK(r)'
      <4>1. Len(Sent(s)) \in Nat
        BY <1>a
      <4>2. \A j \in 1..Len(Sent(r)) :
              Sent(r)[j] \in MatchingSeqs(s.filter, s.first, End(s)) \cup {nextSeq}
        BY <1>6, <3>5, <4>1 DEF StreamOK
      <4>3. \A q \in MatchingSeqs(s.filter, s.first, End(s)) \cup {nextSeq} :
              (q \in s.dropped) <=> \A j \in 1..Len(Sent(r)) : Sent(r)[j] # q
        <5>1. ASSUME NEW q \in MatchingSeqs(s.filter, s.first, End(s))
              PROVE (q \in s.dropped) <=> \A j \in 1..Len(Sent(r)) : Sent(r)[j] # q
          <6>1. q # nextSeq
            BY <1>1, <2>2
          <6>2. (\A j \in 1..Len(Sent(r)) : Sent(r)[j] # q) <=>
                  (\A j \in 1..Len(Sent(s)) : Sent(s)[j] # q)
            BY <3>5, <4>1, <6>1
          <6> QED BY <1>6, <6>2 DEF StreamOK
        <5>2. nextSeq \notin s.dropped /\ ~ \A j \in 1..Len(Sent(r)) : Sent(r)[j] # nextSeq
          BY <1>1, <2>2, <3>5, <4>1
        <5> QED BY <5>1, <5>2
      <4> QED BY <1>3, <1>6, <2>1, <3>2, <4>2, <4>3 DEF StreamOK, Sent, End
    <3> QED BY <1>4, <1>5, <3>3, <3>6, <3>7, <3>8 DEF SubOK, OrderOK, DropOK, Sent
  <2>4. CASE ~(Len(s.ch) < ChanCap)
    <3>1. r = [s EXCEPT !.dropped = @ \cup {nextSeq}]
      BY <1>8, <2>4 DEF Offer
    <3>2. r.ch = s.ch /\ r.dropped = s.dropped \cup {nextSeq} /\ Sent(r) = Sent(s)
      BY <1>1, <1>3, <3>1 DEF Subscription, Sent
    <3>3. r \in Subscription /\ Len(r.ch) <= ChanCap
      BY <1>1, <3>1, <3>2 DEF Subscription
    <3>4. OrderOK(r)
      BY <1>6, <3>2 DEF OrderOK
    <3>5. DropOK(r)
      <4>1. ChanCap \in Nat /\ 1 <= ChanCap /\ ChanCap <= Len(s.ch)
        BY <1>1, <1>a, <2>4
      <4>2. ChanCap <= Len(Sent(s)) /\ ChanCap \in 1..Len(Sent(s))
        BY <1>a, <4>1, InSum
      <4>3. Sent(s)[ChanCap] < nextSeq
        BY <2>2, <4>2
      <4> QED BY <1>6, <3>2, <4>2, <4>3 DEF DropOK
    <3>6. StreamOK(r)'
      <4>1. \A q \in MatchingSeqs(s.filter, s.first, End(s)) \cup {nextSeq} :
              (q \in r.dropped) <=> \A j \in 1..Len(Sent(r)) : Sent(r)[j] # q
        <5>1. ASSUME NEW q \in MatchingSeqs(s.filter, s.first, End(s))
              PROVE (q \in r.dropped) <=> \A j \in 1..Len(Sent(r)) : Sent(r)[j] # q
          <6>1. q # nextSeq
            BY <1>1, <2>2
          <6> QED BY <1>6, <3>2, <6>1 DEF StreamOK
        <5>2. nextSeq \in r.dropped /\ \A j \in 1..Len(Sent(r)) : Sent(r)[j] # nextSeq
          BY <1>1, <2>2, <3>2
        <5> QED BY <5>1, <5>2
      <4> QED BY <1>3, <1>6, <2>1, <3>2, <4>1 DEF StreamOK, Sent, End
    <3> QED BY <1>4, <1>5, <3>3, <3>4, <3>5, <3>6 DEF SubOK, OrderOK, DropOK, Sent
  <2> QED BY <2>3, <2>4
<1>9. r = s \/ (s.open /\ Matches(s.filter, t))
  BY DEF Offer
<1> QED BY <1>7, <1>8, <1>9

\* A receive and a close leave the subscription accounted for.
LEMMA ReceiveKeepsSub ==
  ASSUME NEW s, SubOK(s), s.ch # <<>>,
         NEW r, r = [s EXCEPT !.got = Append(@, Head(s.ch)), !.ch = Tail(@)]
  PROVE  SubOK(r)
<1>1. /\ s \in Subscription /\ s.got \in Seq(Nat) /\ s.ch \in Seq(Nat)
      /\ ChanCap \in Nat
  BY BufferAssumption DEF SubOK, Subscription
<1>2. /\ Head(s.ch) \in Nat /\ Tail(s.ch) \in Seq(Nat)
      /\ Len(Tail(s.ch)) = Len(s.ch) - 1
      /\ Append(s.got, Head(s.ch)) \in Seq(Nat)
  BY <1>1, HeadTailProperties, AppendFacts
<1>3. /\ r \in Subscription
      /\ r.got = Append(s.got, Head(s.ch)) /\ r.ch = Tail(s.ch)
      /\ r.filter = s.filter /\ r.open = s.open /\ r.first = s.first
      /\ r.last = s.last /\ r.snapshot = s.snapshot /\ r.dropped = s.dropped
  BY <1>1, <1>2 DEF Subscription
<1>4. Sent(r) = Sent(s)
  BY <1>1, <1>3, ReceiveKeepsSent DEF Sent
<1>5. Len(r.ch) <= ChanCap
  <2>1. \A m \in Nat : m <= ChanCap => m - 1 <= ChanCap
    BY <1>1
  <2> QED BY <1>1, <1>2, <1>3, <2>1, LenProperties DEF SubOK
<1> QED
  BY <1>3, <1>4, <1>5
  DEF SubOK, SubBounds, SnapshotOK, StreamOK, OrderOK, DropOK, End

\* Unsubscribe keeps a subscription's properties: its account ends at nextSeq.
LEMMA CloseKeepsSub ==
  ASSUME RingOK, NEW s, SubOK(s), s.open,
         NEW r, r = [s EXCEPT !.open = FALSE, !.last = nextSeq]
  PROVE  SubOK(r)
<1>1. /\ s \in Subscription /\ nextSeq \in Nat /\ s.first \in Nat
      /\ s.last \in Nat /\ s.first <= s.last /\ s.last <= nextSeq
  BY DEF SubOK, Subscription, SubBounds, RingOK
<1>2. /\ r \in Subscription
      /\ r.got = s.got /\ r.ch = s.ch /\ r.filter = s.filter /\ r.first = s.first
      /\ r.snapshot = s.snapshot /\ r.dropped = s.dropped
      /\ r.last = nextSeq /\ r.open = FALSE
  BY <1>1 DEF Subscription
<1>3. End(r) = End(s) /\ Sent(r) = Sent(s)
  BY <1>2 DEF End, Sent
<1>4. SubBounds(r)
  <2>1. \A a, b, c \in Nat : a <= b /\ b <= c => a <= c /\ c <= c
    OBVIOUS
  <2> QED BY <1>1, <1>2, <2>1 DEF SubBounds
<1> QED
  BY <1>2, <1>3, <1>4 DEF SubOK, SnapshotOK, StreamOK, OrderOK, DropOK

\* What is in the ring is what the log says of the last MaxSize events.
LEMMA SnapshotIsWindow ==
  ASSUME RingOK, NEW f
  PROVE  Snapshot(f) = MatchingSeqs(f, OldestAt(nextSeq), nextSeq)
<1> DEFINE o == OldestAt(nextSeq)
<1>1. /\ nextSeq \in Nat /\ o \in Nat /\ o <= nextSeq
      /\ events \in Seq(Event) /\ DOMAIN events = 1..(nextSeq - o)
      /\ \A k \in 1..(nextSeq - o) :
           events[k] = [seq |-> o + k - 1, type |-> log[o + k]]
  BY BufferAssumption DEF RingOK, WindowIsTailOfLog, OldestAt
<1> HIDE DEF o
<1>2. ASSUME NEW q \in Snapshot(f)
      PROVE  q \in MatchingSeqs(f, o, nextSeq)
  <2>1. PICK k \in 1..(nextSeq - o) :
          q = events[k].seq /\ Matches(f, events[k].type)
    BY <1>1 DEF Snapshot
  <2>2. q = o + k - 1 /\ Matches(f, log[o + k])
    BY <1>1, <2>1
  <2>3. q \in o..(nextSeq - 1) /\ q + 1 = o + k
    BY <1>1, <2>2
  <2> QED BY <2>2, <2>3 DEF MatchingSeqs
<1>3. ASSUME NEW q \in MatchingSeqs(f, o, nextSeq)
      PROVE  q \in Snapshot(f)
  <2>1. q \in o..(nextSeq - 1) /\ Matches(f, log[q + 1])
    BY DEF MatchingSeqs
  <2> DEFINE k == q + 1 - o
  <2>2. k \in 1..(nextSeq - o) /\ o + k = q + 1 /\ o + k - 1 = q
    BY <1>1, <2>1
  <2>3. events[k].seq = q /\ Matches(f, events[k].type) /\ k \in DOMAIN events
    BY <1>1, <2>1, <2>2
  <2> QED BY <2>3 DEF Snapshot
<1> QED BY <1>2, <1>3 DEF o

\* A subscription just made has its snapshot, an empty channel and nothing owed.
LEMMA NewSubOK ==
  ASSUME RingOK, NEW f \in FilterSet,
         NEW r, r = [filter |-> f, open |-> TRUE, ch |-> <<>>,
                     snapshot |-> Snapshot(f), got |-> <<>>,
                     dropped |-> {}, first |-> nextSeq, last |-> nextSeq]
  PROVE  SubOK(r)
<1>1. nextSeq \in Nat /\ ChanCap \in Nat /\ OldestAt(nextSeq) \in Nat
  BY BufferAssumption DEF RingOK, OldestAt
<1>2. MatchingSeqs(f, OldestAt(nextSeq), nextSeq) \subseteq Nat
  BY <1>1 DEF MatchingSeqs
<1>3. r \in Subscription
  BY <1>1, <1>2, SnapshotIsWindow DEF Subscription
<1>4. Sent(r) = <<>> /\ Len(Sent(r)) = 0 /\ Len(r.ch) = 0
  BY DEF Sent
<1>5. MatchingSeqs(f, nextSeq, nextSeq) = {}
  BY <1>1 DEF MatchingSeqs
<1>6. /\ r.dropped = {} /\ r.open = TRUE /\ r.filter = f /\ r.first = nextSeq
      /\ r.last = nextSeq /\ r.snapshot = Snapshot(f)
  OBVIOUS
<1>7. SnapshotOK(r)
  BY <1>6, SnapshotIsWindow DEF SnapshotOK
<1>8. End(r) = nextSeq /\ 1..Len(Sent(r)) = {} /\ nextSeq <= nextSeq
  BY <1>1, <1>4, <1>6 DEF End
<1>9. StreamOK(r)
  BY <1>5, <1>6, <1>8 DEF StreamOK
<1>10. OrderOK(r) /\ DropOK(r) /\ SubBounds(r)
  BY <1>6, <1>8 DEF OrderOK, DropOK, SubBounds
<1> QED
  BY <1>1, <1>3, <1>4, <1>7, <1>9, <1>10 DEF SubOK

----------------------------------------------------------------------------
\* The buffer of NewConversationBuffer satisfies the invariant.
LEMMA InitBufferInv == Init => BufferInv
<1> SUFFICES ASSUME Init PROVE BufferInv
  OBVIOUS
<1>1. events = <<>> /\ log = <<>> /\ nextSeq = 0 /\ subs = <<>>
  BY DEF Init
<1>2. OldestAt(nextSeq) = 0
  BY <1>1, BufferAssumption DEF OldestAt
<1>3. WindowIsTailOfLog
  BY <1>1, <1>2 DEF WindowIsTailOfLog
<1> QED BY <1>1, <1>3 DEF Init, BufferInv, RingOK

\* A step that leaves the ring alone keeps what is known of a subscription.
LEMMA SubOKStable ==
  ASSUME UNCHANGED <<events, nextSeq, log>>
  PROVE  /\ RingOK => RingOK'
         /\ \A s : SubOK(s) => SubOK(s)'
<1>1. RingOK => RingOK'
  BY DEF RingOK, WindowIsTailOfLog, OldestAt
<1>2. ASSUME NEW s, SubOK(s)
      PROVE  SubOK(s)'
  <2>1. \A a, b : MatchingSeqs(s.filter, a, b)' = MatchingSeqs(s.filter, a, b)
    BY DEF MatchingSeqs, Matches
  <2>2. SnapshotOK(s)'
    BY <1>2, <2>1 DEF SubOK, SnapshotOK, OldestAt
  <2>3. StreamOK(s)'
    BY <1>2, <2>1 DEF SubOK, StreamOK, End, Sent
  <2> QED
    BY <1>2, <2>2, <2>3 DEF SubOK, SubBounds, OrderOK, DropOK, Sent
<1> QED BY <1>1, <1>2

\* Every method of the buffer, and every receive, preserves the invariant.
LEMMA NextBufferInv == BufferInv /\ [Next]_vars => BufferInv'
<1> SUFFICES ASSUME BufferInv, [Next]_vars PROVE BufferInv'
  OBVIOUS
<1>0. /\ RingOK /\ subs \in Seq(Subscription)
      /\ \A i \in 1..Len(subs) : SubOK(subs[i])
      /\ Len(subs) \in Nat /\ DOMAIN subs = 1..Len(subs)
  BY DEF BufferInv
<1>1. ASSUME NEW t \in EventTypes, AppendEvent(t)
      PROVE  BufferInv'
  <2>1. RingOK'
    BY <1>0, <1>1, AppendKeepsRing
  <2>2. /\ subs' = [i \in 1..Len(subs) |-> Offer(subs[i], [seq |-> nextSeq, type |-> t])]
        /\ nextSeq' = nextSeq + 1 /\ log' = Append(log, t)
    BY <1>0, <1>1 DEF AppendEvent
  <2>3. \A i \in 1..Len(subs) : \A r : r = subs'[i] => SubOK(r)'
    BY <1>0, <2>2, OfferKeepsSub
  <2>4. \A i \in 1..Len(subs) : subs'[i] \in Subscription
    BY <2>3 DEF SubOK
  <2>5. subs' \in Seq(Subscription) /\ Len(subs') = Len(subs)
    BY <1>0, <2>2, <2>4, IsASeq
  <2> QED BY <2>1, <2>3, <2>5 DEF BufferInv
<1>2. ASSUME NEW f \in Filters, Subscribe(f)
      PROVE  BufferInv'
  <2> DEFINE r == [filter |-> f, open |-> TRUE, ch |-> <<>>,
                   snapshot |-> Snapshot(f), got |-> <<>>,
                   dropped |-> {}, first |-> nextSeq, last |-> nextSeq]
  <2>1. subs' = Append(subs, r) /\ UNCHANGED <<events, nextSeq, log>>
    BY <1>2 DEF Subscribe
  <2>2. SubOK(r)
    BY <1>0, BufferAssumption, NewSubOK
  <2> HIDE DEF r
  <2>3. r \in Subscription
    BY <2>2 DEF SubOK
  <2>4. /\ subs' \in Seq(Subscription) /\ Len(subs') = Len(subs) + 1
        /\ \A i \in 1..Len(subs') : subs'[i] = r \/ (i \in 1..Len(subs) /\ subs'[i] = subs[i])
    BY <1>0, <2>1, <2>3
  <2>5. \A i \in 1..Len(subs') : SubOK(subs'[i])
    BY <1>0, <2>2, <2>4
  <2> QED BY <1>0, <2>1, <2>4, <2>5, SubOKStable DEF BufferInv
<1>3. ASSUME NEW j \in DOMAIN subs, NEW r, SubOK(r),
             subs' = [subs EXCEPT ![j] = r], UNCHANGED <<events, nextSeq, log>>
      PROVE  BufferInv'
  <2>1. r \in Subscription
    BY <1>3 DEF SubOK
  <2>2. /\ subs' \in Seq(Subscription) /\ Len(subs') = Len(subs)
        /\ \A i \in 1..Len(subs) : subs'[i] = IF i = j THEN r ELSE subs[i]
    BY <1>0, <1>3, <2>1, ExceptSeq
  <2>3. \A i \in 1..Len(subs') : SubOK(subs'[i])
    BY <1>0, <1>3, <2>2
  <2> QED BY <1>0, <1>3, <2>2, <2>3, SubOKStable DEF BufferInv
<1>4. ASSUME NEW i \in 1..MaxSubs, Unsubscribe(i)
      PROVE  BufferInv'
  <2> DEFINE r == [subs[i] EXCEPT !.open = FALSE, !.last = nextSeq]
  <2>1. /\ i \in DOMAIN subs /\ subs[i].open /\ subs' = [subs EXCEPT ![i] = r]
        /\ UNCHANGED <<events, nextSeq, log>>
    BY <1>4 DEF Unsubscribe
  <2>2. SubOK(r)
    BY <1>0, <2>1, CloseKeepsSub
  <2> QED BY <1>3, <2>1, <2>2
<1>5. ASSUME NEW i \in 1..MaxSubs, Receive(i)
      PROVE  BufferInv'
  <2> DEFINE r == [subs[i] EXCEPT !.got = Append(@, Head(subs[i].ch)), !.ch = Tail(@)]
  <2>1. /\ i \in DOMAIN subs /\ subs[i].ch # <<>> /\ subs' = [subs EXCEPT ![i] = r]
        /\ UNCHANGED <<events, nextSeq, log>>
    BY <1>5 DEF Receive
  <2>2. SubOK(r)
    BY <1>0, <2>1, ReceiveKeepsSub
  <2> QED BY <1>3, <2>1, <2>2
<1>6. CASE UNCHANGED vars
  BY <1>0, <1>6, SubOKStable DEF BufferInv, vars
<1> QED BY <1>1, <1>2, <1>4, <1>5, <1>6 DEF Next

\* The invariant holds in every reachable state.
THEOREM BufferInvariant == Spec => []BufferInv
BY InitBufferInv, NextBufferInv, PTL DEF Spec

\* The ring and the channels never outgrow their capacity, and every value
\* the buffer holds has its type.
THEOREM BufferTypes == Spec => []TypeOK
<1>1. BufferInv => TypeOK
  <2> SUFFICES ASSUME BufferInv PROVE TypeOK
    OBVIOUS
  <2>1. nextSeq \in Nat /\ MaxSize \in Nat \ {0} /\ Len(events) = nextSeq - OldestAt(nextSeq)
    BY BufferAssumption DEF BufferInv, RingOK, WindowIsTailOfLog
  <2>2. Len(events) <= MaxSize
    BY <2>1 DEF OldestAt
  <2> QED BY <2>2 DEF BufferInv, RingOK, SubOK, TypeOK
<1> QED BY <1>1, BufferInvariant, PTL

\* The ring is the end of the log: eviction takes the oldest event and only that.
THEOREM WindowTheorem == Spec => []WindowIsTailOfLog
<1>1. BufferInv => WindowIsTailOfLog
  BY DEF BufferInv, RingOK
<1> QED BY <1>1, BufferInvariant, PTL

\* The gap-freedom of Subscribe that buffer.go:84-85 claims, with the drops of
\* Append accounted for.
THEOREM GapFreedom == Spec => []SnapshotMeetsStream
<1>1. BufferInv => SnapshotMeetsStream
  BY DEF BufferInv, SubOK, SnapshotOK, StreamOK, SnapshotMeetsStream
<1> QED BY <1>1, BufferInvariant, PTL

\* Delivery is in the order of Append and free of duplicates.
THEOREM DeliveryInOrder == Spec => []InOrder
<1>1. BufferInv => InOrder
  BY DEF BufferInv, SubOK, OrderOK, InOrder
<1> QED BY <1>1, BufferInvariant, PTL

\* A subscriber loses nothing before ChanCap matching events have been sent.
THEOREM DropsNeedBacklog == Spec => []FirstEventsNeverDropped
<1>1. BufferInv => FirstEventsNeverDropped
  BY DEF BufferInv, SubOK, DropOK, FirstEventsNeverDropped
<1> QED BY <1>1, BufferInvariant, PTL

\* EventsSince returns all that is new, unless some of it was evicted.
THEOREM ResumeTheorem == Spec => []ResumeIsExact
<1>1. BufferInv => ResumeIsExact
  <2> SUFFICES ASSUME BufferInv, NEW f \in Filters, NEW after \in -1..nextSeq
               PROVE  LET r == EventsSince(after, f) IN
                        /\ r.ok <=> OldestAt(nextSeq) <= after + 1
                        /\ r.ok => r.seqs = MatchingSeqs(f, after + 1, nextSeq)
    BY DEF ResumeIsExact
  <2> DEFINE o == OldestAt(nextSeq)
  <2>1. /\ RingOK /\ nextSeq \in Nat /\ o \in Nat /\ o <= nextSeq /\ after \in Int
        /\ events \in Seq(Event) /\ Len(events) = nextSeq - o
        /\ events # <<>> => events[1].seq = o
    <3>1. /\ RingOK /\ nextSeq \in Nat /\ o \in Nat /\ o <= nextSeq
          /\ after \in Int /\ events \in Seq(Event)
      BY BufferAssumption DEF BufferInv, RingOK, OldestAt
    <3>2. Len(events) = nextSeq - o
      BY <3>1 DEF RingOK, WindowIsTailOfLog
    <3>3. ASSUME events # <<>> PROVE events[1].seq = o
      <4>1. 1 \in 1..Len(events) /\ o + 1 - 1 = o
        BY <3>1, <3>3, EmptySeq
      <4>2. events[1].seq = o + 1 - 1
        BY <3>1, <4>1 DEF RingOK, WindowIsTailOfLog
      <4> QED BY <4>1, <4>2
    <3> QED BY <3>1, <3>2, <3>3
  <2>2. Snapshot(f) = MatchingSeqs(f, o, nextSeq)
    BY <2>1, SnapshotIsWindow
  <2>3. events = <<>> => nextSeq = o /\ o = 0
    BY <2>1, BufferAssumption DEF OldestAt
  <2> HIDE DEF o
  <2>4. CASE events = <<>>
    <3>1. MatchingSeqs(f, after + 1, nextSeq) = {}
      BY <2>1, <2>3, <2>4 DEF MatchingSeqs
    <3>2. o <= after + 1
      BY <2>1, <2>3, <2>4
    <3> QED BY <2>4, <3>1, <3>2 DEF EventsSince, o
  <2>5. CASE events # <<>> /\ after < o - 1
    <3>1. MinSeq = o
      BY <2>1, <2>5 DEF MinSeq
    <3>2. EventsSince(after, f) = [ok |-> FALSE, seqs |-> {}] /\ ~(o <= after + 1)
      BY <2>1, <2>5, <3>1 DEF EventsSince
    <3> QED BY <3>2 DEF o
  <2>6. CASE events # <<>> /\ ~(after < o - 1)
    <3>1. MinSeq = o
      BY <2>1, <2>6 DEF MinSeq
    <3>2. EventsSince(after, f) = [ok |-> TRUE, seqs |-> {q \in Snapshot(f) : q > after}]
      BY <2>1, <2>6, <3>1 DEF EventsSince
    <3>3. {q \in MatchingSeqs(f, o, nextSeq) : q > after} = MatchingSeqs(f, after + 1, nextSeq)
      BY <2>1, <2>6 DEF MatchingSeqs
    <3>4. o <= after + 1
      BY <2>1, <2>6
    <3> QED BY <2>2, <3>2, <3>3, <3>4 DEF o
  <2> QED BY <2>4, <2>5, <2>6
<1> QED BY <1>1, BufferInvariant, PTL

\* No send after close: what would be a panic in Go is out of reach.
THEOREM NoSendAfterClose == Spec => ClosedStaysClosed
<1> DEFINE Closed ==
      \A i \in DOMAIN subs : ~subs[i].open =>
        /\ ~subs'[i].open
        /\ Sent(subs'[i]) = Sent(subs[i])
        /\ subs'[i].dropped = subs[i].dropped
<1>1. BufferInv /\ [Next]_vars => [Closed]_vars
  <2> SUFFICES ASSUME BufferInv, Next, NEW i \in DOMAIN subs, ~subs[i].open
               PROVE  /\ ~subs'[i].open
                      /\ Sent(subs'[i]) = Sent(subs[i])
                      /\ subs'[i].dropped = subs[i].dropped
    OBVIOUS
  <2>0. /\ subs \in Seq(Subscription) /\ DOMAIN subs = 1..Len(subs)
        /\ subs[i] \in Subscription /\ subs[i].got \in Seq(Nat) /\ subs[i].ch \in Seq(Nat)
    <3>1. subs \in Seq(Subscription)
      BY DEF BufferInv
    <3>2. DOMAIN subs = 1..Len(subs) /\ subs[i] \in Subscription
      BY <3>1, LenProperties
    <3> QED BY <3>1, <3>2 DEF Subscription
  <2>1. CASE \E t \in EventTypes : AppendEvent(t)
    <3>1. subs'[i] = subs[i]
      BY <2>0, <2>1 DEF AppendEvent, Offer
    <3> QED BY <3>1
  <2>2. CASE \E f \in Filters : Subscribe(f)
    <3>1. subs'[i] = subs[i]
      BY <2>0, <2>2 DEF Subscribe
    <3> QED BY <3>1
  <2>3. CASE \E j \in 1..MaxSubs : Unsubscribe(j)
    <3>1. subs'[i] = subs[i]
      BY <2>0, <2>3 DEF Unsubscribe
    <3> QED BY <3>1
  <2>4. CASE \E j \in 1..MaxSubs : Receive(j)
    <3>1. PICK j \in 1..MaxSubs : Receive(j)
      BY <2>4
    <3>2. CASE i = j
      <4>1. /\ subs[i].ch # <<>>
            /\ subs'[i].got = Append(subs[i].got, Head(subs[i].ch))
            /\ subs'[i].ch = Tail(subs[i].ch)
            /\ subs'[i].open = subs[i].open /\ subs'[i].dropped = subs[i].dropped
        BY <2>0, <3>1, <3>2 DEF Receive, Subscription
      <4>2. Sent(subs'[i]) = Sent(subs[i])
        BY <2>0, <4>1, ReceiveKeepsSent DEF Sent
      <4> QED BY <4>1, <4>2
    <3>3. CASE i # j
      <4>1. subs'[i] = subs[i]
        BY <2>0, <3>1, <3>3 DEF Receive
      <4> QED BY <4>1
    <3> QED BY <3>2, <3>3
  <2> QED BY <2>1, <2>2, <2>3, <2>4 DEF Next
<1>2. Spec => [][Closed]_vars
  BY <1>1, BufferInvariant, PTL DEF Spec
<1> QED BY <1>2 DEF ClosedStaysClosed
=============================================================================
