------------------------- MODULE OutputStreams_proofs -------------------------
(***************************************************************************)
(* Proofs about OutputStreams, for any clients, sessions, capacity of a    *)
(* channel and number of subscriptions: a subscriber gets the bytes in     *)
(* order and once; the pipe of a pane follows its subscribers; an open     *)
(* subscription is its client's, and none is left of a client that is gone.*)
(*                                                                         *)
(* The bytes need only what is in a stream (DataInv).  The rest is one     *)
(* argument: the stream on record for a session is the one that lives      *)
(* (RecordInv), so the number a client gives back is one of that stream    *)
(* (HolderInv), and Unsubscribe closes what was meant (HeldInv).           *)
(***************************************************************************)
EXTENDS OutputStreams, TLAPS

----------------------------------------------------------------------------
(* The data of a stream. *)

\* What comes before the chunk k of a channel.
Before(sub, k) == IF k = 1 THEN sub.got ELSE sub.ch[k - 1][2]

Ordered(sub) ==
  \A k \in 1..Len(sub.ch) :
    Before(sub, k) < sub.ch[k][1] /\ (~sub.gap => sub.ch[k][1] = Before(sub, k) + 1)

SubData(sub, flushed, opened) ==
  /\ sub \in Subscriber
  /\ Len(sub.ch) <= ChanCap
  /\ Ordered(sub)
  /\ LastByte(sub) <= flushed
  /\ sub.open /\ ~sub.gap => LastByte(sub) = flushed
  /\ ~opened => sub.ch = <<>>

StreamData(st) ==
  /\ st \in Stream
  /\ st.flushed <= st.size
  /\ \A k \in 1..Len(st.subs) : SubData(st.subs[k], st.flushed, st.opened)

DataOf(t) == t \in Seq(Stream) /\ \A i \in 1..Len(t) : StreamData(t[i])

DataInv == DataOf(streams)

LEMMA Empty ==
  /\ \A q : q = <<>> => Len(q) = 0
  /\ \A S : <<>> \in Seq(S) /\ \A q \in Seq(S) : Len(q) = 0 => q = <<>>
  OBVIOUS

LEMMA FreshSubscriber ==
  ASSUME NEW c \in Clients, NEW got \in Nat, NEW opened \in BOOLEAN
  PROVE  /\ NewSubscriber(c, got) \in Subscriber
         /\ SubData(NewSubscriber(c, got), got, opened)
  BY Empty, OutputAssumption DEF NewSubscriber, Subscriber, SubData, Ordered, LastByte

LEMMA EndedData ==
  ASSUME NEW sub \in Subscriber, NEW flushed \in Nat, NEW opened \in BOOLEAN
  PROVE  /\ SubData(Ended(sub), flushed, opened)
         /\ Ended(sub).client = sub.client /\ ~Ended(sub).open
<1>1. /\ Ended(sub) \in Subscriber /\ Ended(sub).ch = <<>> /\ Ended(sub).got = 0
      /\ Ended(sub).client = sub.client /\ Ended(sub).open = FALSE
  BY Empty DEF Ended, NewSubscriber, Subscriber
<1> QED BY <1>1, Empty, OutputAssumption DEF SubData, Ordered, LastByte

LEMMA SentData ==
  ASSUME NEW sub, NEW flushed \in Nat, NEW n \in Nat, flushed < n,
         SubData(sub, flushed, TRUE)
  PROVE  /\ SubData(Sent(sub, flushed + 1, n), n, TRUE)
         /\ Sent(sub, flushed + 1, n).client = sub.client
         /\ Sent(sub, flushed + 1, n).open = sub.open
<1>0. sub \in Subscriber /\ sub.ch \in Seq(Chunk) /\ sub.got \in Nat
  BY DEF SubData, Subscriber
<1>1. CASE ~sub.open
  <2>1. Sent(sub, flushed + 1, n) = sub
    BY <1>1 DEF Sent
  <2>2. LastByte(sub) \in Int
    BY <1>0 DEF LastByte, Chunk
  <2> QED BY <1>1, <2>1, <2>2 DEF SubData
<1>2. CASE sub.open /\ Len(sub.ch) >= ChanCap
  <2> DEFINE r == [sub EXCEPT !.gap = TRUE]
  <2>1. Sent(sub, flushed + 1, n) = r
    BY <1>0, <1>2, OutputAssumption DEF Sent
  <2>2. /\ r \in Subscriber /\ r.ch = sub.ch /\ r.got = sub.got /\ r.gap = TRUE
        /\ r.client = sub.client /\ r.open = sub.open
    BY <1>0 DEF Subscriber
  <2> HIDE DEF r
  <2>3. LastByte(r) = LastByte(sub) /\ LastByte(sub) \in Int
    BY <1>0, <2>2 DEF LastByte, Chunk
  <2>4. Ordered(r)
    BY <2>2 DEF SubData, Ordered, Before
  <2> QED BY <2>1, <2>2, <2>3, <2>4 DEF SubData
<1>3. CASE sub.open /\ Len(sub.ch) < ChanCap
  <2> DEFINE q == Append(sub.ch, <<flushed + 1, n>>)
             r == [sub EXCEPT !.ch = q]
             len == Len(sub.ch)
  <2>1. Sent(sub, flushed + 1, n) = r
    BY <1>3 DEF Sent
  <2>2. <<flushed + 1, n>> \in Chunk /\ len \in Nat
    BY <1>0 DEF Chunk
  <2>3. /\ q \in Seq(Chunk) /\ Len(q) = len + 1 /\ q[len + 1] = <<flushed + 1, n>>
        /\ \A k \in 1..len : q[k] = sub.ch[k]
    BY <1>0, <2>2
  <2>4. /\ r \in Subscriber /\ r.ch = q /\ r.got = sub.got /\ r.gap = sub.gap
        /\ r.client = sub.client /\ r.open = sub.open
    BY <1>0, <2>3 DEF Subscriber
  <2>5. LastByte(sub) = (IF len = 0 THEN sub.got ELSE sub.ch[len][2])
    BY <1>0, Empty DEF LastByte
  <2>6. LastByte(r) = n
    <3>1. r.ch # <<>> /\ Len(r.ch) = len + 1
      BY <2>2, <2>3, <2>4, Empty
    <3>2. LastByte(r) = r.ch[len + 1][2]
      BY <3>1 DEF LastByte
    <3> QED BY <2>3, <2>4, <3>2
  <2>7. Before(r, len + 1) = LastByte(sub) /\ LastByte(sub) \in Int
    BY <1>0, <2>2, <2>3, <2>4, <2>5 DEF Before, Chunk
  <2>8. \A k \in 1..len : Before(r, k) = Before(sub, k) /\ r.ch[k] = sub.ch[k]
    BY <1>0, <2>2, <2>3, <2>4 DEF Before
  <2>9. Ordered(r)
    <3> SUFFICES ASSUME NEW k \in 1..Len(r.ch)
                 PROVE  Before(r, k) < r.ch[k][1] /\ (~r.gap => r.ch[k][1] = Before(r, k) + 1)
      BY DEF Ordered
    <3>1. CASE k \in 1..len
      BY <2>4, <2>8, <3>1 DEF SubData, Ordered
    <3>2. CASE k = len + 1
      BY <1>3, <2>3, <2>4, <2>7, <3>2 DEF SubData
    <3> QED BY <2>2, <2>3, <2>4, <3>1, <3>2
  <2>10. Len(r.ch) <= ChanCap
    BY <1>3, <2>2, <2>3, <2>4, OutputAssumption
  <2> HIDE DEF q, r
  <2> QED BY <2>1, <2>4, <2>6, <2>9, <2>10 DEF SubData
<1>4. sub.open \in BOOLEAN /\ Len(sub.ch) \in Nat
  BY <1>0 DEF Subscriber
<1>5. ~sub.open \/ (sub.open /\ Len(sub.ch) >= ChanCap) \/ (sub.open /\ Len(sub.ch) < ChanCap)
  BY <1>4, OutputAssumption
<1> QED BY <1>1, <1>2, <1>3, <1>5, Zenon

\* What a goroutine, and the handler that drains, take from a channel.
Taken(sub) == [sub EXCEPT !.ch = Tail(@), !.got = sub.ch[1][2]]
Drained(sub) == [sub EXCEPT !.ch = <<>>, !.got = LastByte(sub)]
Redrawn(sub) == [sub EXCEPT !.forwarding = sub.open]

LEMMA ForwardedData ==
  ASSUME NEW sub, NEW flushed \in Nat, SubData(sub, flushed, TRUE), sub.ch # <<>>,
         NEW r, r = Taken(sub)
  PROVE  SubData(r, flushed, TRUE) /\ r.client = sub.client /\ r.open = sub.open
<1> DEFINE q == Tail(sub.ch)
           len == Len(sub.ch)
<1>0. sub \in Subscriber /\ sub.ch \in Seq(Chunk) /\ sub.got \in Nat /\ len \in Nat \ {0}
  BY DEF SubData, Subscriber
<1>1. sub.ch[1] \in Chunk /\ sub.ch[1][2] \in Nat
  BY <1>0 DEF Chunk
<1>2. q \in Seq(Chunk) /\ Len(q) = len - 1 /\ \A k \in 1..(len - 1) : q[k] = sub.ch[k + 1]
  BY <1>0
<1>3. /\ r \in Subscriber /\ r.ch = q /\ r.got = sub.ch[1][2] /\ r.gap = sub.gap
      /\ r.client = sub.client /\ r.open = sub.open
  BY <1>0, <1>1, <1>2 DEF Subscriber, Taken
<1>4. LastByte(sub) = sub.ch[len][2]
  BY DEF LastByte
<1>7. Len(r.ch) <= ChanCap
  BY <1>0, <1>2, <1>3, OutputAssumption DEF SubData
<1>8. \A k \in 1..len :
        Before(sub, k) < sub.ch[k][1] /\ (~sub.gap => sub.ch[k][1] = Before(sub, k) + 1)
  BY DEF SubData, Ordered
<1> HIDE DEF q, len
<1>5. LastByte(r) = LastByte(sub)
  <2>1. CASE len = 1
    <3>1. r.ch = <<>>
      BY <1>2, <1>3, <2>1, Empty
    <3> QED BY <1>3, <1>4, <2>1, <3>1 DEF LastByte
  <2>2. CASE len > 1
    <3>1. Len(r.ch) = len - 1 /\ r.ch # <<>>
      BY <1>0, <1>2, <1>3, <2>2, Empty
    <3>2. r.ch[len - 1] = sub.ch[len]
      BY <1>0, <1>2, <1>3, <2>2
    <3> QED BY <1>4, <3>1, <3>2 DEF LastByte
  <2> QED BY <1>0, <2>1, <2>2
<1>6. Ordered(r)
  <2> SUFFICES ASSUME NEW k \in 1..(len - 1)
               PROVE  Before(r, k) < r.ch[k][1] /\ (~r.gap => r.ch[k][1] = Before(r, k) + 1)
    BY <1>2, <1>3 DEF Ordered
  <2>1. r.ch[k] = sub.ch[k + 1] /\ Before(r, k) = Before(sub, k + 1)
    <3>1. CASE k = 1
      BY <1>0, <1>2, <1>3, <3>1 DEF Before
    <3>2. CASE k > 1
      <4>1. Before(r, k) = r.ch[k - 1][2] /\ Before(sub, k + 1) = sub.ch[k][2]
        BY <1>0, <3>2 DEF Before
      <4>2. k - 1 \in 1..(len - 1) /\ (k - 1) + 1 = k
        BY <1>0, <3>2
      <4> QED BY <1>2, <1>3, <4>1, <4>2
    <3> QED BY <1>0, <3>1, <3>2
  <2> QED BY <1>0, <1>3, <1>8, <2>1
<1> QED BY <1>3, <1>5, <1>6, <1>7 DEF SubData

LEMMA DrainedData ==
  ASSUME NEW sub, NEW flushed \in Nat, NEW opened \in BOOLEAN, SubData(sub, flushed, opened),
         NEW r, r = Drained(sub)
  PROVE  SubData(r, flushed, opened) /\ r.client = sub.client /\ r.open = sub.open
<1>1. sub \in Subscriber /\ sub.ch \in Seq(Chunk) /\ sub.got \in Nat
  BY DEF SubData, Subscriber
<1>2. LastByte(sub) \in Nat
  BY <1>1 DEF LastByte, Chunk
<1>3. /\ r \in Subscriber /\ r.ch = <<>> /\ r.got = LastByte(sub) /\ r.gap = sub.gap
      /\ r.client = sub.client /\ r.open = sub.open
  BY <1>1, <1>2, Empty DEF Subscriber, Drained
<1>4. LastByte(r) = LastByte(sub) /\ Len(r.ch) = 0
  BY <1>3, Empty DEF LastByte
<1>5. Ordered(r)
  BY <1>4 DEF Ordered
<1> QED BY <1>3, <1>4, <1>5, OutputAssumption DEF SubData

LEMMA RedrawnData ==
  ASSUME NEW sub, NEW flushed \in Nat, NEW opened \in BOOLEAN, SubData(sub, flushed, opened),
         NEW r, r = Redrawn(sub)
  PROVE  SubData(r, flushed, opened) /\ r.client = sub.client /\ r.open = sub.open
<1>1. /\ r \in Subscriber /\ r.ch = sub.ch /\ r.got = sub.got /\ r.gap = sub.gap
      /\ r.client = sub.client /\ r.open = sub.open
  BY DEF SubData, Subscriber, Redrawn
<1> QED BY <1>1 DEF SubData, Ordered, Before, LastByte

----------------------------------------------------------------------------
(* What a step does to the streams. *)

\* The same streams, with the same subscribers ...
Kept(t) ==
  /\ t \in Seq(Stream) /\ Len(t) = Len(streams)
  /\ \A i \in 1..Len(streams) :
       /\ t[i].session = streams[i].session
       /\ Len(t[i].subs) = Len(streams[i].subs)
       /\ \A k \in 1..Len(streams[i].subs) : t[i].subs[k].client = streams[i].subs[k].client

\* ... and as many of them live and open.
Alike(t) ==
  /\ Kept(t)
  /\ \A i \in 1..Len(streams) :
       /\ t[i].live = streams[i].live /\ (streams[i].cut => t[i].cut)
       /\ \A k \in 1..Len(streams[i].subs) : t[i].subs[k].open = streams[i].subs[k].open

LEMMA MadeFacts ==
  ASSUME DataInv
  PROVE  /\ \A ch \in Made : /\ ch[1] \in 1..Len(streams)
                            /\ ch[2] \in 1..Len(streams[ch[1]].subs)
                            /\ ch = <<ch[1], ch[2]>>
         /\ \A i \in 1..Len(streams) : \A k \in 1..Len(streams[i].subs) : <<i, k>> \in Made
         /\ Made \subseteq Channels /\ NoChannel \notin Made
<1>1. /\ DOMAIN streams = 1..Len(streams)
      /\ \A i \in 1..Len(streams) : DOMAIN streams[i].subs = 1..Len(streams[i].subs)
  BY DEF DataInv, DataOf, Stream
<1>2. /\ \A ch \in Made : /\ ch[1] \in 1..Len(streams)
                         /\ ch[2] \in 1..Len(streams[ch[1]].subs)
                         /\ ch = <<ch[1], ch[2]>>
      /\ \A i \in 1..Len(streams) : \A k \in 1..Len(streams[i].subs) : <<i, k>> \in Made
  BY <1>1 DEF Made
<1> QED BY <1>2 DEF Channels, NoChannel

Replace(i, st) == [streams EXCEPT ![i] = st]

LEMMA Replaced ==
  ASSUME DataInv, NEW i \in 1..Len(streams), NEW st, StreamData(st)
  PROVE  /\ DataOf(Replace(i, st)) /\ Len(Replace(i, st)) = Len(streams)
         /\ Replace(i, st)[i] = st
         /\ \A j \in 1..Len(streams) : j # i => Replace(i, st)[j] = streams[j]
<1>1. st \in Stream /\ streams \in Seq(Stream)
  BY DEF StreamData, DataInv, DataOf
<1> HIDE DEF Stream
<1>2. /\ Replace(i, st) \in Seq(Stream) /\ Len(Replace(i, st)) = Len(streams)
      /\ Replace(i, st)[i] = st
      /\ \A j \in 1..Len(streams) : j # i => Replace(i, st)[j] = streams[j]
  BY <1>1 DEF Replace
<1> QED BY <1>2 DEF DataInv, DataOf

\* A stream that keeps its session, its life and its subscribers.
LEMMA ReplacedAlike ==
  ASSUME DataInv, NEW i \in 1..Len(streams), NEW st, StreamData(st),
         st.session = streams[i].session, st.live = streams[i].live, streams[i].cut => st.cut,
         Len(st.subs) = Len(streams[i].subs),
         \A k \in 1..Len(streams[i].subs) :
           st.subs[k].client = streams[i].subs[k].client /\ st.subs[k].open = streams[i].subs[k].open
  PROVE  DataOf(Replace(i, st)) /\ Alike(Replace(i, st))
<1> DEFINE t == Replace(i, st)
<1>1. /\ DataOf(t) /\ Len(t) = Len(streams) /\ t[i] = st
      /\ \A j \in 1..Len(streams) : j # i => t[j] = streams[j]
  BY Replaced
<1> HIDE DEF t
<1>2. t \in Seq(Stream)
  BY <1>1 DEF DataOf
<1>3. Kept(t)
  <2> SUFFICES ASSUME NEW j \in 1..Len(streams)
               PROVE  /\ t[j].session = streams[j].session
                      /\ Len(t[j].subs) = Len(streams[j].subs)
                      /\ \A k \in 1..Len(streams[j].subs) :
                           t[j].subs[k].client = streams[j].subs[k].client
    BY <1>1, <1>2 DEF Kept
  <2> QED BY <1>1
<1>4. Alike(t)
  <2> SUFFICES ASSUME NEW j \in 1..Len(streams)
               PROVE  /\ t[j].live = streams[j].live /\ (streams[j].cut => t[j].cut)
                      /\ \A k \in 1..Len(streams[j].subs) :
                           t[j].subs[k].open = streams[j].subs[k].open
    BY <1>3 DEF Alike
  <2> QED BY <1>1
<1> QED BY <1>1, <1>4 DEF t

\* A subscriber that stays as open as it is.
LEMMA WithSubAlike ==
  ASSUME DataInv, NEW ch \in Made, NEW sub,
         SubData(sub, streams[ch[1]].flushed, streams[ch[1]].opened),
         sub.client = Sub(ch).client, sub.open = Sub(ch).open
  PROVE  DataOf(WithSub(ch, sub)) /\ Alike(WithSub(ch, sub))
<1> DEFINE i == ch[1]
           k == ch[2]
           old == streams[i]
           us == [old.subs EXCEPT ![k] = sub]
           st == [old EXCEPT !.subs = us]
<1>0. i \in 1..Len(streams) /\ k \in 1..Len(old.subs)
  BY MadeFacts
<1>1. StreamData(old) /\ old \in Stream /\ old.subs \in Seq(Subscriber) /\ sub \in Subscriber
  BY <1>0 DEF DataInv, DataOf, StreamData, Stream, SubData
<1>2. WithSub(ch, sub) = Replace(i, st)
  BY <1>0, <1>1 DEF WithSub, Replace
<1>3. /\ us \in Seq(Subscriber) /\ Len(us) = Len(old.subs) /\ us[k] = sub
      /\ \A m \in 1..Len(old.subs) : m # k => us[m] = old.subs[m]
  BY <1>0, <1>1
<1> HIDE DEF us
<1>4. /\ st \in Stream /\ st.subs = us /\ st.session = old.session /\ st.live = old.live
      /\ st.opened = old.opened /\ st.flushed = old.flushed /\ st.size = old.size
      /\ st.cut = old.cut
  BY <1>1, <1>3 DEF Stream
<1> HIDE DEF st
<1>5. \A m \in 1..Len(us) : SubData(us[m], old.flushed, old.opened)
  BY <1>1, <1>3 DEF StreamData
<1>6. StreamData(st)
  BY <1>1, <1>4, <1>5 DEF StreamData
<1>7. \A m \in 1..Len(old.subs) :
        st.subs[m].client = old.subs[m].client /\ st.subs[m].open = old.subs[m].open
  BY <1>3, <1>4 DEF Sub
<1> HIDE DEF old
<1>8. st.session = streams[i].session /\ st.live = streams[i].live
      /\ Len(st.subs) = Len(streams[i].subs) /\ (streams[i].cut => st.cut)
  BY <1>3, <1>4 DEF old
<1> QED BY <1>0, <1>2, <1>6, <1>7, <1>8, ReplacedAlike DEF old

LEMMA IsSequence ==
  ASSUME NEW S, NEW n \in Nat, NEW f \in [1..n -> S]
  PROVE  f \in Seq(S) /\ Len(f) = n
  OBVIOUS

LEMMA TailOpensAlike ==
  ASSUME DataInv, NEW i \in 1..Len(streams), TailOpens(i)
  PROVE  DataOf(streams') /\ Alike(streams')
<1> DEFINE old == streams[i]
           us == [k \in DOMAIN old.subs |->
                    IF old.subs[k].open THEN [old.subs[k] EXCEPT !.got = old.size]
                    ELSE old.subs[k]]
           st == [old EXCEPT !.opened = TRUE, !.flushed = old.size, !.subs = us]
<1>1. /\ StreamData(old) /\ old \in Stream /\ old.subs \in Seq(Subscriber)
      /\ old.size \in Nat /\ old.flushed \in Nat /\ old.flushed <= old.size /\ ~old.opened
  BY DEF DataInv, DataOf, StreamData, Stream, TailOpens
<1>2. streams' = Replace(i, st)
  BY DEF TailOpens, Replace
<1>3. ASSUME NEW k \in 1..Len(old.subs)
      PROVE  /\ SubData(us[k], old.size, TRUE)
             /\ us[k].client = old.subs[k].client /\ us[k].open = old.subs[k].open
  <2> DEFINE sub == old.subs[k]
             r == [sub EXCEPT !.got = old.size]
  <2>1. SubData(sub, old.flushed, FALSE) /\ sub \in Subscriber /\ sub.ch = <<>>
    BY <1>1 DEF StreamData, SubData
  <2>2. us[k] = IF sub.open THEN r ELSE sub
    BY <1>1
  <2> HIDE DEF us
  <2>3. CASE ~sub.open
    <3>1. us[k] = sub /\ LastByte(sub) \in Nat
      BY <2>1, <2>2, <2>3 DEF LastByte, Subscriber
    <3> HIDE DEF sub
    <3> QED BY <1>1, <2>1, <2>3, <3>1 DEF SubData, sub
  <2>4. CASE sub.open
    <3>1. /\ r \in Subscriber /\ r.ch = <<>> /\ r.got = old.size
          /\ r.client = sub.client /\ r.open = sub.open
      BY <1>1, <2>1 DEF Subscriber
    <3>2. us[k] = r
      BY <2>2, <2>4
    <3> HIDE DEF r
    <3>3. LastByte(r) = old.size /\ Len(r.ch) = 0 /\ Ordered(r)
      BY <3>1, Empty DEF LastByte, Ordered
    <3> QED BY <1>1, <3>1, <3>2, <3>3, OutputAssumption DEF SubData
  <2> QED BY <2>3, <2>4
<1>4. us \in Seq(Subscriber) /\ Len(us) = Len(old.subs)
  <2>1. DOMAIN us = 1..Len(old.subs) /\ Len(old.subs) \in Nat
    BY <1>1
  <2>2. \A k \in 1..Len(old.subs) : us[k] \in Subscriber
    BY <1>3 DEF SubData
  <2>3. us \in [1..Len(old.subs) -> Subscriber]
    BY <2>1, <2>2
  <2> HIDE DEF us
  <2> QED BY <2>1, <2>3, IsSequence
<1> HIDE DEF us
<1>5. /\ st \in Stream /\ st.subs = us /\ st.session = old.session /\ st.live = old.live
      /\ st.opened = TRUE /\ st.flushed = old.size /\ st.size = old.size
      /\ (old.cut => st.cut)
  BY <1>1, <1>4 DEF Stream
<1> HIDE DEF st
<1>6. StreamData(st)
  <2>1. \A k \in 1..Len(st.subs) : SubData(st.subs[k], st.flushed, st.opened)
    BY <1>3, <1>4, <1>5, Zenon
  <2> QED BY <1>1, <1>5, <2>1 DEF StreamData
<1> QED BY <1>2, <1>3, <1>4, <1>5, <1>6, ReplacedAlike

LEMMA FlushAlike ==
  ASSUME DataInv, NEW i \in 1..Len(streams), Flush(i)
  PROVE  DataOf(streams') /\ Alike(streams')
<1> DEFINE old == streams[i]
<1>1. /\ StreamData(old) /\ old \in Stream /\ old.subs \in Seq(Subscriber)
      /\ old.size \in Nat /\ old.flushed \in Nat /\ old.opened
  BY DEF DataInv, DataOf, StreamData, Stream, Flush
<1>2. PICK n \in (old.flushed + 1)..old.size :
        streams' = [streams EXCEPT ![i] =
          [old EXCEPT !.flushed = n,
             !.subs = [k \in DOMAIN old.subs |-> Sent(old.subs[k], old.flushed + 1, n)]]]
  BY DEF Flush
<1> DEFINE us == [k \in DOMAIN old.subs |-> Sent(old.subs[k], old.flushed + 1, n)]
           st == [old EXCEPT !.flushed = n, !.subs = us]
<1>3. streams' = Replace(i, st)
  BY <1>2 DEF Replace
<1>4. n \in Nat /\ old.flushed < n /\ n <= old.size
  BY <1>1
<1>5. ASSUME NEW k \in 1..Len(old.subs)
      PROVE  /\ SubData(us[k], n, TRUE)
             /\ us[k].client = old.subs[k].client /\ us[k].open = old.subs[k].open
  <2>1. SubData(old.subs[k], old.flushed, TRUE)
    BY <1>1 DEF StreamData
  <2>2. us[k] = Sent(old.subs[k], old.flushed + 1, n)
    BY <1>1
  <2> HIDE DEF us, old
  <2>3. SubData(Sent(old.subs[k], old.flushed + 1, n), n, TRUE)
    BY <1>1, <1>4, <2>1, SentData, Zenon
  <2>4. /\ Sent(old.subs[k], old.flushed + 1, n).client = old.subs[k].client
        /\ Sent(old.subs[k], old.flushed + 1, n).open = old.subs[k].open
    BY <1>1, <1>4, <2>1, SentData, Zenon
  <2> QED BY <2>2, <2>3, <2>4, Zenon
<1>6. us \in Seq(Subscriber) /\ Len(us) = Len(old.subs)
  <2>1. DOMAIN us = 1..Len(old.subs) /\ Len(old.subs) \in Nat
    BY <1>1
  <2>2. \A k \in 1..Len(old.subs) : us[k] \in Subscriber
    BY <1>5 DEF SubData
  <2>3. us \in [1..Len(old.subs) -> Subscriber]
    BY <2>1, <2>2
  <2> HIDE DEF us
  <2> QED BY <2>1, <2>3, IsSequence
<1> HIDE DEF us
<1>7. /\ st \in Stream /\ st.subs = us /\ st.session = old.session /\ st.live = old.live
      /\ st.opened = TRUE /\ st.flushed = n /\ st.size = old.size
      /\ (old.cut => st.cut)
  BY <1>1, <1>4, <1>6 DEF Stream
<1> HIDE DEF st
<1>8. StreamData(st)
  BY <1>4, <1>5, <1>6, <1>7 DEF StreamData
<1> QED BY <1>3, <1>5, <1>6, <1>7, <1>8, ReplacedAlike

LEMMA SubFacts ==
  ASSUME DataInv, NEW ch \in Made
  PROVE  /\ SubData(Sub(ch), streams[ch[1]].flushed, streams[ch[1]].opened)
         /\ streams[ch[1]].flushed \in Nat /\ streams[ch[1]].opened \in BOOLEAN
         /\ Sub(ch) \in Subscriber
<1>1. ch[1] \in 1..Len(streams) /\ ch[2] \in 1..Len(streams[ch[1]].subs)
  BY MadeFacts
<1> QED BY <1>1 DEF DataInv, DataOf, StreamData, Stream, SubData, Sub

LEMMA ForwardAlike ==
  ASSUME DataInv, NEW ch \in Made, Forward(ch)
  PROVE  DataOf(streams') /\ Alike(streams')
<1>1. streams' = WithSub(ch, Taken(Sub(ch))) /\ Sub(ch).ch # <<>>
  BY DEF Forward, Taken
<1>2. streams[ch[1]].opened = TRUE
  BY <1>1, SubFacts DEF SubData
<1>3. SubData(Sub(ch), streams[ch[1]].flushed, TRUE)
  BY <1>2, SubFacts, Zenon
<1>4. /\ SubData(Taken(Sub(ch)), streams[ch[1]].flushed, TRUE)
      /\ Taken(Sub(ch)).client = Sub(ch).client /\ Taken(Sub(ch)).open = Sub(ch).open
  BY <1>1, <1>3, SubFacts, ForwardedData, Zenon
<1>5. SubData(Taken(Sub(ch)), streams[ch[1]].flushed, streams[ch[1]].opened)
  BY <1>2, <1>4, Zenon
<1> QED BY <1>1, <1>4, <1>5, WithSubAlike, Zenon

LEMMA DrainAlike ==
  ASSUME DataInv, NEW c \in Clients, handler[c].chan \in Made, Drain(c)
  PROVE  DataOf(streams') /\ Alike(streams')
<1> DEFINE ch == handler[c].chan
<1>1. streams' = WithSub(ch, Drained(Sub(ch)))
  BY DEF Drain, Drained
<1>2. /\ SubData(Drained(Sub(ch)), streams[ch[1]].flushed, streams[ch[1]].opened)
      /\ Drained(Sub(ch)).client = Sub(ch).client /\ Drained(Sub(ch)).open = Sub(ch).open
  <2>1. /\ SubData(Sub(ch), streams[ch[1]].flushed, streams[ch[1]].opened)
        /\ streams[ch[1]].flushed \in Nat /\ streams[ch[1]].opened \in BOOLEAN
    BY SubFacts, Zenon
  <2> QED BY <2>1, DrainedData, Zenon
<1> QED BY <1>1, <1>2, WithSubAlike, Zenon

LEMMA RedrawAlike ==
  ASSUME DataInv, NEW c \in Clients, handler[c].chan \in Made, Redraw(c)
  PROVE  DataOf(streams') /\ Alike(streams')
<1> DEFINE ch == handler[c].chan
<1>1. streams' = WithSub(ch, Redrawn(Sub(ch)))
  BY DEF Redraw, Redrawn
<1>2. /\ SubData(Redrawn(Sub(ch)), streams[ch[1]].flushed, streams[ch[1]].opened)
      /\ Redrawn(Sub(ch)).client = Sub(ch).client /\ Redrawn(Sub(ch)).open = Sub(ch).open
  <2>1. /\ SubData(Sub(ch), streams[ch[1]].flushed, streams[ch[1]].opened)
        /\ streams[ch[1]].flushed \in Nat /\ streams[ch[1]].opened \in BOOLEAN
    BY SubFacts, Zenon
  <2> QED BY <2>1, RedrawnData, Zenon
<1> QED BY <1>1, <1>2, WithSubAlike, Zenon

\* A stream gets a byte, or loses its pane.
LEMMA FieldAlike ==
  ASSUME DataInv, NEW i \in 1..Len(streams), NEW cut \in BOOLEAN, NEW size \in Nat,
         streams[i].size <= size, streams[i].cut => cut
  PROVE  LET st == [streams[i] EXCEPT !.cut = cut, !.size = size] IN
           DataOf(Replace(i, st)) /\ Alike(Replace(i, st))
<1> DEFINE old == streams[i]
           st == [old EXCEPT !.cut = cut, !.size = size]
<1>1. StreamData(old) /\ old \in Stream
  BY DEF DataInv, DataOf, StreamData
<1>2. /\ st \in Stream /\ st.subs = old.subs /\ st.session = old.session /\ st.live = old.live
      /\ st.opened = old.opened /\ st.flushed = old.flushed /\ st.size = size
      /\ (old.cut => st.cut)
      /\ old.flushed \in Nat /\ old.size \in Nat
  BY <1>1 DEF Stream
<1> HIDE DEF st
<1>3. StreamData(st)
  <2>1. \A k \in 1..Len(st.subs) : SubData(st.subs[k], st.flushed, st.opened)
    BY <1>1, <1>2, Zenon DEF StreamData
  <2>2. st.flushed <= st.size
    BY <1>1, <1>2 DEF StreamData
  <2> QED BY <1>2, <2>1, <2>2 DEF StreamData
<1>4. DataOf(Replace(i, st)) /\ Alike(Replace(i, st))
  BY <1>2, <1>3, ReplacedAlike, Zenon
<1> QED BY <1>4 DEF st

LEMMA OutputAlike ==
  ASSUME DataInv, NEW s \in Sessions, pipe[s] \in -1..Len(streams), Output(s)
  PROVE  DataOf(streams') /\ Alike(streams')
<1> DEFINE i == pipe[s]
           old == streams[i]
           st == [old EXCEPT !.cut = old.cut, !.size = old.size + 1]
<1>1. i \in 1..Len(streams)
  BY DEF Output, DataInv, DataOf
<1>2. old \in Stream /\ old.size \in Nat /\ old.cut \in BOOLEAN
  <2>1. old \in Stream
    BY <1>1 DEF DataInv, DataOf
  <2> QED BY <2>1 DEF Stream
<1>3. streams' = Replace(i, st)
  BY <1>1, <1>2 DEF Output, Replace, Stream
<1>4. DataOf(Replace(i, st)) /\ Alike(Replace(i, st))
  <2>1. old.size + 1 \in Nat /\ old.size <= old.size + 1
    BY <1>2
  <2> QED BY <1>1, <1>2, <2>1, FieldAlike, Zenon
<1> QED BY <1>3, <1>4, Zenon

LEMMA PaneEndsAlike ==
  ASSUME DataInv, NEW s \in Sessions, pipe[s] \in -1..Len(streams), PaneEnds(s)
  PROVE  /\ DataOf(streams') /\ Alike(streams')
         /\ \A i \in 1..Len(streams) : pipe[s] = i => streams'[i].cut
<1>1. CASE pipe[s] > 0
  <2> DEFINE i == pipe[s]
             old == streams[i]
             st == [old EXCEPT !.cut = TRUE, !.size = old.size]
  <2>1. i \in 1..Len(streams)
    BY <1>1 DEF DataInv, DataOf
  <2>2. old \in Stream /\ old.size \in Nat /\ old.size <= old.size
    <3>1. old \in Stream
      BY <2>1 DEF DataInv, DataOf
    <3> QED BY <3>1 DEF Stream
  <2>3. streams' = Replace(i, st)
    BY <1>1, <2>1, <2>2 DEF PaneEnds, Replace, Stream
  <2>4. DataOf(Replace(i, st)) /\ Alike(Replace(i, st))
    BY <2>1, <2>2, FieldAlike, Zenon
  <2>5. st.cut /\ st \in Stream
    BY <2>2 DEF Stream
  <2> HIDE DEF st
  <2>6. streams'[i] = st /\ \A j \in 1..Len(streams) : j # i => streams'[j] = streams[j]
    BY <2>1, <2>3 DEF Replace, DataInv, DataOf
  <2> QED BY <2>3, <2>4, <2>5, <2>6, Zenon
<1>2. CASE ~(pipe[s] > 0)
  <2>1. streams' = streams
    BY <1>2 DEF PaneEnds
  <2>2. \A i \in 1..Len(streams) : pipe[s] # i
    BY <1>2
  <2> QED BY <2>1, <2>2 DEF DataInv, Alike, Kept, DataOf
<1> QED BY <1>1, <1>2

\* A stream without some of its subscribers.
LEMMA ClosedFacts ==
  ASSUME NEW old, StreamData(old), NEW ids
  PROVE  LET st == Closed(old, ids) IN
         /\ StreamData(st)
         /\ st.session = old.session /\ st.live = old.live /\ st.cut = old.cut
         /\ Len(st.subs) = Len(old.subs)
         /\ \A k \in 1..Len(old.subs) :
              /\ st.subs[k].client = old.subs[k].client
              /\ st.subs[k].open <=> old.subs[k].open /\ k \notin ids
<1> DEFINE us == [k \in DOMAIN old.subs |-> IF k \in ids THEN Ended(old.subs[k]) ELSE old.subs[k]]
           st == [old EXCEPT !.subs = us]
           n == Len(old.subs)
<1>1. /\ old \in Stream /\ old.subs \in Seq(Subscriber) /\ n \in Nat
      /\ old.flushed \in Nat /\ old.opened \in BOOLEAN /\ old.flushed <= old.size
  BY DEF StreamData, Stream
<1>2. ASSUME NEW k \in 1..n
      PROVE  /\ SubData(us[k], old.flushed, old.opened) /\ us[k] \in Subscriber
             /\ us[k].client = old.subs[k].client
             /\ us[k].open <=> old.subs[k].open /\ k \notin ids
  <2>1. SubData(old.subs[k], old.flushed, old.opened) /\ old.subs[k] \in Subscriber
    BY <1>1 DEF StreamData, SubData
  <2>2. us[k] = IF k \in ids THEN Ended(old.subs[k]) ELSE old.subs[k]
    BY <1>1
  <2> HIDE DEF us
  <2>3. CASE k \in ids
    <3>1. us[k] = Ended(old.subs[k])
      BY <2>2, <2>3
    <3>2. /\ SubData(Ended(old.subs[k]), old.flushed, old.opened)
          /\ Ended(old.subs[k]).client = old.subs[k].client /\ ~Ended(old.subs[k]).open
      BY <1>1, <2>1, EndedData, Zenon
    <3>3. SubData(us[k], old.flushed, old.opened) => us[k] \in Subscriber
      BY DEF SubData
    <3> QED BY <2>3, <3>1, <3>2, <3>3, Zenon
  <2>4. CASE k \notin ids
    BY <2>1, <2>2, <2>4, Zenon
  <2> QED BY <2>3, <2>4
<1>3. us \in Seq(Subscriber) /\ Len(us) = n
  <2>1. DOMAIN us = 1..n
    BY <1>1
  <2>2. us \in [1..n -> Subscriber]
    BY <1>2, <2>1
  <2> HIDE DEF us
  <2> QED BY <1>1, <2>2, IsSequence
<1> HIDE DEF us
<1>4. /\ st \in Stream /\ st.subs = us /\ st.session = old.session /\ st.live = old.live
      /\ st.opened = old.opened /\ st.flushed = old.flushed /\ st.size = old.size /\ st.cut = old.cut
  BY <1>1, <1>3 DEF Stream
<1>5. Closed(old, ids) = st
  BY DEF Closed, us
<1> HIDE DEF st
<1>6. \A k \in 1..Len(st.subs) : SubData(st.subs[k], st.flushed, st.opened)
  BY <1>2, <1>3, <1>4, Zenon
<1>7. StreamData(st)
  BY <1>1, <1>4, <1>6 DEF StreamData
<1>8. \A k \in 1..n : /\ st.subs[k].client = old.subs[k].client
                      /\ st.subs[k].open <=> old.subs[k].open /\ k \notin ids
  BY <1>2, <1>4, Zenon
<1> QED BY <1>3, <1>4, <1>5, <1>7, <1>8, Zenon

LEMMA StoppedFacts ==
  ASSUME NEW old, StreamData(old)
  PROVE  LET st == Stopped(old) IN
         /\ StreamData(st)
         /\ st.session = old.session /\ ~st.live
         /\ Len(st.subs) = Len(old.subs)
         /\ \A k \in 1..Len(old.subs) : st.subs[k].client = old.subs[k].client /\ ~st.subs[k].open
<1> DEFINE us == [k \in DOMAIN old.subs |-> Ended(old.subs[k])]
           st == [old EXCEPT !.live = FALSE, !.opened = FALSE, !.cut = FALSE, !.size = 0,
                             !.flushed = 0, !.subs = us]
           n == Len(old.subs)
<1>1. old \in Stream /\ old.subs \in Seq(Subscriber) /\ n \in Nat
  BY DEF StreamData, Stream
<1>2. ASSUME NEW k \in 1..n
      PROVE  /\ SubData(us[k], 0, FALSE) /\ us[k] \in Subscriber
             /\ us[k].client = old.subs[k].client /\ ~us[k].open
  <2>1. old.subs[k] \in Subscriber
    BY <1>1
  <2>2. us[k] = Ended(old.subs[k])
    BY <1>1
  <2> HIDE DEF us
  <2>3. 0 \in Nat /\ FALSE \in BOOLEAN
    OBVIOUS
  <2>4. /\ SubData(Ended(old.subs[k]), 0, FALSE)
        /\ Ended(old.subs[k]).client = old.subs[k].client /\ ~Ended(old.subs[k]).open
    BY <2>1, <2>3, EndedData, Zenon
  <2>5. SubData(us[k], 0, FALSE) => us[k] \in Subscriber
    BY DEF SubData
  <2> QED BY <2>2, <2>4, <2>5, Zenon
<1>3. us \in Seq(Subscriber) /\ Len(us) = n
  <2>1. DOMAIN us = 1..n
    BY <1>1
  <2>2. us \in [1..n -> Subscriber]
    BY <1>2, <2>1
  <2> HIDE DEF us
  <2> QED BY <1>1, <2>2, IsSequence
<1> HIDE DEF us
<1>4. /\ st \in Stream /\ st.subs = us /\ st.session = old.session /\ st.live = FALSE
      /\ st.opened = FALSE /\ st.flushed = 0 /\ st.size = 0
  BY <1>1, <1>3 DEF Stream
<1>5. Stopped(old) = st
  BY DEF Stopped, us
<1> HIDE DEF st
<1>6. \A k \in 1..Len(st.subs) : SubData(st.subs[k], st.flushed, st.opened)
  BY <1>2, <1>3, <1>4, Zenon
<1>7. StreamData(st)
  BY <1>4, <1>6 DEF StreamData
<1>8. \A k \in 1..n : st.subs[k].client = old.subs[k].client /\ ~st.subs[k].open
  BY <1>2, <1>4, Zenon
<1> QED BY <1>3, <1>4, <1>5, <1>7, <1>8, Zenon

\* PipePaneStop on the sessions in ss: what is not closed has gone astray.
PipesOf(ss) ==
  /\ pipe' = [t \in Sessions |-> pipe'[t]]
  /\ astray' \subseteq astray \cup ss
  /\ \A t \in Sessions :
       IF t \in ss
       THEN /\ pipe'[t] = 0 \/ pipe'[t] = pipe[t]
            /\ t \in astray' \/ pipe'[t] = 0 \/ stop.pc = "closed"
       ELSE pipe'[t] = pipe[t] /\ (t \in astray' <=> t \in astray)

LEMMA PipesClosedFacts ==
  ASSUME NEW ss, PipesClosed(ss)
  PROVE  PipesOf(ss)
<1> PICK failed \in SUBSET (ss \cap Unreliable) :
      LET closed == IF TmuxAnswers THEN ss \ failed ELSE {} IN
        /\ pipe' = [s \in Sessions |-> IF s \in closed THEN 0 ELSE pipe[s]]
        /\ astray' = (astray \cup failed) \ closed
  BY DEF PipesClosed
<1> QED BY DEF PipesOf, TmuxAnswers

LEMMA PipesTyped ==
  ASSUME NEW n \in Nat, pipe \in [Sessions -> -1..n], astray \subseteq Sessions,
         NEW ss \in SUBSET Sessions, PipesOf(ss)
  PROVE  pipe' \in [Sessions -> -1..n] /\ astray' \subseteq Sessions
<1>1. \A t \in Sessions : pipe'[t] \in -1..n
  BY DEF PipesOf
<1> QED BY <1>1 DEF PipesOf

\* Unsubscribe closes the subscriber it means, and a stream with no other stops.
UnsubscribeGone(s, id) ==
  LET i == current[s] IN
  /\ \A k \in 1..Len(streams[i].subs) : k # id => ~streams[i].subs[k].open
  /\ ~streams'[i].live
  /\ current' = [current EXCEPT ![s] = 0]
  /\ PipesOf({s})

UnsubscribeStays(s, id) ==
  LET i == current[s] IN
  /\ \E k \in 1..Len(streams[i].subs) : k # id /\ streams[i].subs[k].open
  /\ streams'[i].live = streams[i].live /\ streams'[i].cut = streams[i].cut
  /\ UNCHANGED <<current, pipe, astray>>

LEMMA UnsubscribeFacts ==
  ASSUME DataInv, NEW s, NEW id, current[s] \in 0..Len(streams), Unsubscribe(s, id)
  PROVE  /\ DataOf(streams') /\ Kept(streams')
         /\ current[s] = 0 => UNCHANGED <<streams, current, pipe, astray>>
         /\ current[s] # 0 =>
              /\ \A j \in 1..Len(streams) : j # current[s] => streams'[j] = streams[j]
              /\ \A k \in 1..Len(streams[current[s]].subs) :
                   streams'[current[s]].subs[k].open <=> streams[current[s]].subs[k].open /\ k # id
              /\ UnsubscribeGone(s, id) \/ UnsubscribeStays(s, id)
<1>1. CASE current[s] = 0
  <2>1. UNCHANGED <<streams, current, pipe, astray>>
    BY <1>1 DEF Unsubscribe
  <2> QED BY <1>1, <2>1 DEF DataInv, DataOf, Kept
<1>2. CASE current[s] # 0
  <2> DEFINE i == current[s]
             old == streams[i]
             st == Closed(old, {id})
  <2>1. i \in 1..Len(streams) /\ StreamData(old) /\ old \in Stream
    BY <1>2 DEF DataInv, DataOf, StreamData
  <2>2. /\ StreamData(st)
        /\ st.session = old.session /\ st.live = old.live /\ st.cut = old.cut
        /\ Len(st.subs) = Len(old.subs)
        /\ \A k \in 1..Len(old.subs) :
             /\ st.subs[k].client = old.subs[k].client
             /\ st.subs[k].open <=> old.subs[k].open /\ k \notin {id}
    BY <2>1, ClosedFacts, Zenon
  <2>3. /\ StreamData(Stopped(st))
        /\ Stopped(st).session = st.session /\ ~Stopped(st).live
        /\ Len(Stopped(st).subs) = Len(st.subs)
        /\ \A k \in 1..Len(st.subs) :
             Stopped(st).subs[k].client = st.subs[k].client /\ ~Stopped(st).subs[k].open
    BY <2>2, StoppedFacts, Zenon
  <2>4. Remaining(st) = {k \in 1..Len(old.subs) : old.subs[k].open /\ k # id}
    <3>1. DOMAIN st.subs = 1..Len(old.subs)
      BY <2>2 DEF StreamData, Stream
    <3> HIDE DEF st
    <3>2. \A k \in 1..Len(old.subs) : st.subs[k].open <=> old.subs[k].open /\ k # id
      BY <2>2, Zenon
    <3> HIDE DEF old
    <3> QED BY <3>1, <3>2 DEF Remaining
  <2>5. ASSUME NEW new, StreamData(new), new.session = old.session,
               Len(new.subs) = Len(old.subs), streams' = Replace(i, new),
               \A k \in 1..Len(old.subs) : new.subs[k].client = old.subs[k].client
        PROVE  /\ DataOf(streams') /\ Kept(streams') /\ streams'[i] = new
               /\ \A j \in 1..Len(streams) : j # i => streams'[j] = streams[j]
    <3>1. /\ DataOf(streams') /\ Len(streams') = Len(streams) /\ streams'[i] = new
          /\ \A j \in 1..Len(streams) : j # i => streams'[j] = streams[j]
      BY <2>1, <2>5, Replaced, Zenon
    <3>2. Kept(streams')
      <4>1. streams' \in Seq(Stream)
        BY <3>1 DEF DataOf
      <4> HIDE DEF st
      <4> QED BY <2>5, <3>1, <4>1 DEF Kept
    <3> QED BY <3>1, <3>2
  <2>6. CASE Remaining(st) # {}
    <3>1. streams' = Replace(i, st) /\ UNCHANGED <<current, pipe, astray>>
      BY <1>2, <2>6 DEF Unsubscribe, Replace
    <3> HIDE DEF st
    <3>2. /\ DataOf(streams') /\ Kept(streams') /\ streams'[i] = st
          /\ \A j \in 1..Len(streams) : j # i => streams'[j] = streams[j]
      BY <2>2, <2>5, <3>1, Zenon
    <3>3. UnsubscribeStays(s, id)
      <4>1. \E k \in 1..Len(old.subs) : k # id /\ old.subs[k].open
        BY <2>4, <2>6
      <4> QED BY <2>2, <3>1, <3>2, <4>1, Zenon DEF UnsubscribeStays
    <3>4. \A k \in 1..Len(old.subs) : streams'[i].subs[k].open <=> old.subs[k].open /\ k # id
      BY <2>2, <3>2, Zenon
    <3> QED BY <1>2, <3>2, <3>3, <3>4, Zenon
  <2>7. CASE Remaining(st) = {}
    <3> DEFINE new == Stopped(st)
    <3>1. /\ streams' = Replace(i, new)
          /\ current' = [current EXCEPT ![s] = 0]
          /\ PipesOf({s})
      BY <1>2, <2>7, PipesClosedFacts DEF Unsubscribe, Replace
    <3> HIDE DEF st
    <3>2. /\ StreamData(new) /\ new.session = old.session /\ Len(new.subs) = Len(old.subs)
          /\ \A k \in 1..Len(old.subs) : new.subs[k].client = old.subs[k].client
          /\ ~new.live /\ \A k \in 1..Len(old.subs) : ~new.subs[k].open
      BY <2>2, <2>3, Zenon
    <3> HIDE DEF new
    <3>3. /\ DataOf(streams') /\ Kept(streams') /\ streams'[i] = new
          /\ \A j \in 1..Len(streams) : j # i => streams'[j] = streams[j]
      BY <2>5, <3>1, <3>2, Zenon
    <3>4. \A k \in 1..Len(old.subs) : k # id => ~old.subs[k].open
      BY <2>4, <2>7
    <3>5. UnsubscribeGone(s, id)
      BY <3>1, <3>2, <3>3, <3>4, Zenon DEF UnsubscribeGone
    <3>6. \A k \in 1..Len(old.subs) : streams'[i].subs[k].open <=> old.subs[k].open /\ k # id
      BY <3>2, <3>3, <3>4, Zenon
    <3> QED BY <1>2, <3>3, <3>5, <3>6, Zenon
  <2> QED BY <2>6, <2>7
<1> QED BY <1>1, <1>2

LEMMA StopAllFacts ==
  ASSUME DataInv, StopAll
  PROVE  /\ DataOf(streams') /\ Kept(streams')
         /\ \A i \in 1..Len(streams) :
              IF i = current[streams[i].session]
              THEN ~streams'[i].live /\ \A k \in 1..Len(streams[i].subs) : ~streams'[i].subs[k].open
              ELSE streams'[i] = streams[i]
<1> DEFINE new(i) == IF i = current[streams[i].session] THEN Stopped(streams[i]) ELSE streams[i]
           n == Len(streams)
<1>1. streams \in Seq(Stream) /\ n \in Nat /\ \A i \in 1..n : StreamData(streams[i])
  BY DEF DataInv, DataOf
<1>2. streams' = [i \in 1..n |-> new(i)]
  BY <1>1 DEF StopAll
<1>3. ASSUME NEW i \in 1..n
      PROVE  /\ StreamData(streams'[i]) /\ streams'[i].session = streams[i].session
             /\ Len(streams'[i].subs) = Len(streams[i].subs)
             /\ \A k \in 1..Len(streams[i].subs) :
                  streams'[i].subs[k].client = streams[i].subs[k].client
             /\ IF i = current[streams[i].session]
                THEN ~streams'[i].live /\ \A k \in 1..Len(streams[i].subs) : ~streams'[i].subs[k].open
                ELSE streams'[i] = streams[i]
  <2>1. StreamData(streams[i])
    BY <1>1
  <2>2. CASE i = current[streams[i].session]
    <3>1. streams'[i] = Stopped(streams[i])
      BY <1>2, <2>2
    <3> QED BY <2>1, <2>2, <3>1, StoppedFacts, Zenon
  <2>3. CASE i # current[streams[i].session]
    <3>1. streams'[i] = streams[i]
      BY <1>2, <2>3
    <3> QED BY <2>1, <2>3, <3>1, Zenon
  <2> QED BY <2>2, <2>3
<1>4. streams' \in [1..n -> Stream]
  <2>1. \A i \in 1..n : streams'[i] \in Stream
    BY <1>3 DEF StreamData
  <2> HIDE DEF new
  <2> QED BY <1>2, <2>1
<1>5. streams' \in Seq(Stream) /\ Len(streams') = n
  BY <1>1, <1>4, IsSequence
<1>6. DataOf(streams')
  BY <1>3, <1>5 DEF DataOf
<1>7. Kept(streams')
  BY <1>3, <1>5, Zenon DEF Kept
<1> QED BY <1>3, <1>6, <1>7, Zenon

\* Subscribe adds one open subscriber, and leaves all others as they are.
Grown(ch, c, s) ==
  /\ streams' \in Seq(Stream) /\ Len(streams) <= Len(streams')
  /\ ch = <<ch[1], ch[2]>> /\ ch[1] \in 1..Len(streams') /\ ch[2] \in 1..Len(streams'[ch[1]].subs)
  /\ streams'[ch[1]].session = s /\ streams'[ch[1]].live
  /\ streams'[ch[1]].subs[ch[2]].client = c /\ streams'[ch[1]].subs[ch[2]].open
  /\ \A i \in 1..Len(streams) :
       /\ streams'[i].session = streams[i].session /\ streams'[i].live = streams[i].live
       /\ streams'[i].cut = streams[i].cut
       /\ Len(streams[i].subs) <= Len(streams'[i].subs)
       /\ \A k \in 1..Len(streams[i].subs) : streams'[i].subs[k] = streams[i].subs[k]
       /\ i = ch[1] => ch[2] \notin 1..Len(streams[i].subs)
  /\ \A i \in 1..Len(streams') : \A k \in 1..Len(streams'[i].subs) :
       <<i, k>> # ch => i \in 1..Len(streams) /\ k \in 1..Len(streams[i].subs)

LEMMA JoinedFacts ==
  ASSUME DataInv, NEW c \in Clients, NEW s \in Sessions, current[s] \in 1..Len(streams),
         streams[current[s]].session = s, streams[current[s]].live, streams' = Joined(c, s)
  PROVE  DataOf(streams') /\ Grown(<<current[s], Len(streams[current[s]].subs) + 1>>, c, s)
         /\ Len(streams') = Len(streams)
<1> DEFINE i == current[s]
           old == streams[i]
           n == Len(old.subs)
           sub == NewSubscriber(c, old.flushed)
           us == Append(old.subs, sub)
           st == [old EXCEPT !.subs = us]
<1>1. /\ StreamData(old) /\ old \in Stream /\ old.subs \in Seq(Subscriber) /\ n \in Nat
      /\ old.flushed \in Nat /\ old.opened \in BOOLEAN
  <2>1. StreamData(old) /\ old \in Stream
    BY DEF DataInv, DataOf, StreamData
  <2> QED BY <2>1 DEF Stream
<1>2. SubData(sub, old.flushed, old.opened) /\ sub \in Subscriber
  BY <1>1, FreshSubscriber, Zenon
<1>3. sub.client = c /\ sub.open
  BY DEF NewSubscriber
<1> HIDE DEF sub
<1>4. /\ us \in Seq(Subscriber) /\ Len(us) = n + 1 /\ us[n + 1] = sub
      /\ \A k \in 1..n : us[k] = old.subs[k]
  BY <1>1, <1>2
<1>5. streams' = Replace(i, st)
  BY <1>1 DEF Joined, Replace, sub
<1> HIDE DEF us
<1>6. /\ st \in Stream /\ st.subs = us /\ st.session = old.session /\ st.live = old.live
      /\ st.opened = old.opened /\ st.flushed = old.flushed /\ st.size = old.size /\ st.cut = old.cut
  BY <1>1, <1>4 DEF Stream
<1> HIDE DEF st
<1>7. StreamData(st)
  <2>1. \A k \in 1..n : SubData(us[k], old.flushed, old.opened)
    BY <1>1, <1>4 DEF StreamData
  <2>2. \A k \in 1..(n + 1) : k \in 1..n \/ k = n + 1
    BY <1>1
  <2>3. \A k \in 1..(n + 1) : SubData(us[k], old.flushed, old.opened)
    BY <1>2, <1>4, <2>1, <2>2, Zenon
  <2>4. \A k \in 1..Len(st.subs) : SubData(st.subs[k], st.flushed, st.opened)
    BY <1>4, <1>6, <2>3, Zenon
  <2> QED BY <1>1, <1>6, <2>4 DEF StreamData
<1>8. /\ DataOf(streams') /\ Len(streams') = Len(streams) /\ streams'[i] = st
      /\ \A j \in 1..Len(streams) : j # i => streams'[j] = streams[j]
  <2>1. /\ DataOf(Replace(i, st)) /\ Len(Replace(i, st)) = Len(streams)
        /\ Replace(i, st)[i] = st
        /\ \A j \in 1..Len(streams) : j # i => Replace(i, st)[j] = streams[j]
    BY <1>7, Replaced
  <2> QED BY <1>5, <2>1
<1>9. streams' \in Seq(Stream) /\ Len(streams) \in Nat
  BY <1>8 DEF DataOf, DataInv
<1> HIDE DEF n, old
<1>10. Grown(<<i, n + 1>>, c, s)
  <2>1. \A j \in 1..Len(streams) :
          /\ streams'[j].session = streams[j].session /\ streams'[j].live = streams[j].live
          /\ streams'[j].cut = streams[j].cut
          /\ \A k \in 1..Len(streams[j].subs) : streams'[j].subs[k] = streams[j].subs[k]
    <3> SUFFICES ASSUME NEW j \in 1..Len(streams)
                 PROVE  /\ streams'[j].session = streams[j].session
                        /\ streams'[j].live = streams[j].live
                        /\ streams'[j].cut = streams[j].cut
                        /\ \A k \in 1..Len(streams[j].subs) :
                             streams'[j].subs[k] = streams[j].subs[k]
      OBVIOUS
    <3>1. CASE j = i
      BY <1>4, <1>6, <1>8, <3>1 DEF old, n
    <3>2. CASE j # i
      BY <1>8, <3>2
    <3> QED BY <3>1, <3>2
  <2>2. \A j \in 1..Len(streams) : streams[j].subs \in Seq(Subscriber) /\ Len(streams[j].subs) \in Nat
    <3>1. \A j \in 1..Len(streams) : streams[j] \in Stream
      BY DEF DataInv, DataOf
    <3> QED BY <3>1 DEF Stream
  <2>3. Len(streams'[i].subs) = n + 1 /\ streams'[i].subs[n + 1] = sub
    BY <1>4, <1>6, <1>8
  <2>4. \A j \in 1..Len(streams) :
          /\ Len(streams[j].subs) <= Len(streams'[j].subs)
          /\ j = i => n + 1 \notin 1..Len(streams[j].subs)
    BY <1>1, <1>8, <2>2, <2>3 DEF old, n
  <2>5. \A j \in 1..Len(streams') : \A k \in 1..Len(streams'[j].subs) :
          <<j, k>> # <<i, n + 1>> => j \in 1..Len(streams) /\ k \in 1..Len(streams[j].subs)
    <3>1. \A k \in 1..(n + 1) : k # n + 1 => k \in 1..n
      BY <1>1
    <3>2. n = Len(streams[i].subs)
      BY DEF old, n
    <3> QED BY <1>8, <2>3, <3>1, <3>2
  <2>6. streams'[i].session = s /\ streams'[i].live
    BY <2>1
  <2>7. i \in 1..Len(streams') /\ n + 1 \in 1..Len(streams'[i].subs)
    BY <1>1, <1>8, <2>3
  <2>8. Len(streams) <= Len(streams')
    BY <1>8, <1>9
  <2> DEFINE ch == <<i, n + 1>>
  <2>9. ch[1] = i /\ ch[2] = n + 1 /\ ch = <<ch[1], ch[2]>>
    OBVIOUS
  <2> HIDE DEF ch
  <2>10. Grown(ch, c, s)
    BY <1>3, <1>9, <2>1, <2>3, <2>4, <2>5, <2>6, <2>7, <2>8, <2>9, Zenon DEF Grown, ch
  <2> QED BY <2>10 DEF ch
<1> QED BY <1>8, <1>10 DEF old, n

LEMMA StartedFacts ==
  ASSUME DataInv, NEW c \in Clients, NEW s \in Sessions, streams' = Started(c, s)
  PROVE  /\ DataOf(streams') /\ Grown(<<Len(streams) + 1, 1>>, c, s)
         /\ Len(streams') = Len(streams) + 1
<1> DEFINE n == Len(streams)
           sub == NewSubscriber(c, 0)
           us == <<sub>>
           st == [session |-> s, live |-> TRUE, opened |-> FALSE, cut |-> FALSE,
                  size |-> 0, flushed |-> 0, subs |-> us]
<1>1. streams \in Seq(Stream) /\ n \in Nat /\ \A i \in 1..n : StreamData(streams[i])
  BY DEF DataInv, DataOf
<1>2. SubData(sub, 0, FALSE) /\ sub \in Subscriber
  <2>1. 0 \in Nat /\ FALSE \in BOOLEAN
    OBVIOUS
  <2> QED BY <2>1, FreshSubscriber, Zenon
<1>3. sub.client = c /\ sub.open
  BY DEF NewSubscriber
<1>4. streams' = Append(streams, st)
  BY DEF Started
<1> HIDE DEF sub
<1>5. us \in Seq(Subscriber) /\ Len(us) = 1 /\ us[1] = sub
  BY <1>2
<1> HIDE DEF us
<1>6. /\ st \in Stream /\ st.subs = us /\ st.session = s /\ st.live = TRUE
      /\ st.opened = FALSE /\ st.flushed = 0 /\ st.size = 0
  BY <1>5 DEF Stream
<1> HIDE DEF st
<1>7. StreamData(st)
  <2>1. \A k \in 1..1 : SubData(us[k], 0, FALSE)
    <3>1. \A k \in 1..1 : k = 1
      OBVIOUS
    <3> QED BY <1>2, <1>5, <3>1, Zenon
  <2>2. \A k \in 1..Len(st.subs) : SubData(st.subs[k], st.flushed, st.opened)
    BY <1>5, <1>6, <2>1, Zenon
  <2> QED BY <1>6, <2>2 DEF StreamData
<1>8. /\ streams' \in Seq(Stream) /\ Len(streams') = n + 1 /\ streams'[n + 1] = st
      /\ \A j \in 1..n : streams'[j] = streams[j]
  BY <1>1, <1>4, <1>6
<1>9. \A j \in 1..(n + 1) : j \in 1..n \/ j = n + 1
  BY <1>1
<1>10. DataOf(streams')
  <2>1. \A j \in 1..(n + 1) : StreamData(streams'[j])
    BY <1>1, <1>7, <1>8, <1>9, Zenon
  <2> QED BY <1>8, <2>1, Zenon DEF DataOf
<1>11. \A j \in 1..n : Len(streams[j].subs) \in Nat
  <2>1. \A j \in 1..n : streams[j] \in Stream
    BY <1>1
  <2> QED BY <2>1 DEF Stream
<1>12. Grown(<<n + 1, 1>>, c, s)
  <2>0. /\ streams'[n + 1].subs = us /\ streams'[n + 1].session = s /\ streams'[n + 1].live = TRUE
        /\ Len(streams'[n + 1].subs) = 1 /\ streams'[n + 1].subs[1] = sub
    BY <1>5, <1>6, <1>8, Zenon
  <2>1. /\ n + 1 \in 1..Len(streams') /\ n <= Len(streams')
        /\ 1 \in 1..Len(streams'[n + 1].subs)
    BY <1>1, <1>8, <2>0
  <2>2. streams'[n + 1].session = s /\ streams'[n + 1].live /\ streams'[n + 1].subs[1] = sub
    BY <2>0
  <2>3. \A j \in 1..n : Len(streams[j].subs) <= Len(streams'[j].subs) /\ j # n + 1
    BY <1>1, <1>8, <1>11
  <2>4. \A j \in 1..Len(streams') : \A k \in 1..Len(streams'[j].subs) :
          <<j, k>> # <<n + 1, 1>> => j \in 1..n /\ k \in 1..Len(streams[j].subs)
    <3> SUFFICES ASSUME NEW j \in 1..(n + 1), NEW k \in 1..Len(streams'[j].subs),
                        j # n + 1 \/ k # 1
                 PROVE  j \in 1..n /\ k \in 1..Len(streams[j].subs)
      BY <1>8
    <3>1. ASSUME j = n + 1
          PROVE  FALSE
      <4>1. Len(streams'[j].subs) = 1
        BY <2>0, <3>1, Zenon
      <4>2. k \in 1..1
        BY <4>1, Zenon
      <4> QED BY <3>1, <4>2
    <3> QED BY <1>8, <1>9, <3>1
  <2> DEFINE ch == <<n + 1, 1>>
  <2>5. ch[1] = n + 1 /\ ch[2] = 1 /\ ch = <<ch[1], ch[2]>>
    OBVIOUS
  <2> HIDE DEF ch
  <2>6. \A j \in 1..n :
          /\ streams'[j].session = streams[j].session /\ streams'[j].live = streams[j].live
          /\ streams'[j].cut = streams[j].cut
          /\ \A k \in 1..Len(streams[j].subs) : streams'[j].subs[k] = streams[j].subs[k]
    BY <1>8
  <2>7. Grown(ch, c, s)
    BY <1>3, <1>8, <2>1, <2>2, <2>3, <2>4, <2>5, <2>6, Zenon DEF Grown, ch
  <2> QED BY <2>7 DEF ch
<1> QED BY <1>8, <1>10, <1>12

----------------------------------------------------------------------------
(* The invariant. *)

TypesInv ==
  /\ panes \subseteq Sessions
  /\ pipe \in [Sessions -> -1..Len(streams)]
  /\ astray \subseteq Sessions
  /\ changes \in 0..MaxChanges
  /\ current \in [Sessions -> 0..Len(streams)]
  /\ held \in [Clients -> [Sessions -> Channels]]
  /\ handler \in [Clients -> Handler]
  /\ conn \in [Clients -> BOOLEAN]
  /\ closer \in [Clients -> {"no", "server", "stop"}]
  /\ stop \in [pc : {"running", "closing", "stopped", "closed"}, todo : SUBSET Clients]

\* The stream on record for a session is the one of its streams that lives, and
\* an open subscriber's stream lives.
RecordInv ==
  /\ \A s \in Sessions : current[s] # 0 => streams[current[s]].session = s
  /\ \A i \in 1..Len(streams) :
       /\ streams[i].live <=> current[streams[i].session] = i
       /\ streams[i].live <=> \E k \in 1..Len(streams[i].subs) : streams[i].subs[k].open

PipeInv ==
  \A s \in Sessions :
    IF current[s] # 0
    THEN s \in astray \/ pipe[s] = current[s] \/ streams[current[s]].cut
    ELSE s \in astray \/ pipe[s] = 0 \/ stop.pc = "closed"

\* In the streams t, ch is a subscription of c to session s.
Owned(t, c, ch, s) ==
  /\ ch = <<ch[1], ch[2]>>
  /\ ch[1] \in 1..Len(t) /\ ch[2] \in 1..Len(t[ch[1]].subs)
  /\ t[ch[1]].subs[ch[2]].client = c /\ t[ch[1]].session = s

\* What a client has is its own, and while the handler has a subscription of a
\* session in hand, none of it is on the map.
HolderOf(c) ==
  /\ handler[c].pc \in {"replace", "store", "drain", "redraw", "drop"} =>
       Owned(streams, c, handler[c].chan, handler[c].session)
  /\ \A s \in Sessions : held[c][s] # NoChannel => Owned(streams, c, held[c][s], s)
  /\ handler[c].pc \in {"replace", "subscribe", "store", "drop"} =>
       held[c][handler[c].session] = NoChannel

HolderInv == \A c \in Clients : HolderOf(c)

Has(c, ch) ==
  \/ handler[c].pc \in {"replace", "store", "drop"} /\ handler[c].chan = ch
  \/ \E s \in Sessions : held[c][s] = ch

\* Until StopAll, whoever has a subscription has an open one.
Holding == stop.pc \in {"running", "closing"}

HeldInv ==
  \A c \in Clients : \A i \in 1..Len(streams) : \A k \in 1..Len(streams[i].subs) :
    streams[i].subs[k].client = c =>
      /\ streams[i].subs[k].open => Has(c, <<i, k>>)
      /\ Holding /\ Has(c, <<i, k>>) => streams[i].subs[k].open

GoneInv ==
  \A c \in Clients : handler[c].pc = "gone" /\ closer[c] = "no" =>
    \A s \in Sessions : held[c][s] = NoChannel

OutputInv == DataInv /\ TypesInv /\ RecordInv /\ PipeInv /\ HolderInv /\ HeldInv /\ GoneInv

----------------------------------------------------------------------------
(* The stream on record and its pipe. *)

LEMMA StreamTypes ==
  ASSUME DataInv
  PROVE  /\ Len(streams) \in Nat
         /\ \A i \in 1..Len(streams) :
              /\ streams[i].session \in Sessions /\ streams[i].live \in BOOLEAN
              /\ Len(streams[i].subs) \in Nat
              /\ \A k \in 1..Len(streams[i].subs) :
                   streams[i].subs[k].client \in Clients /\ streams[i].subs[k].open \in BOOLEAN
<1>1. \A i \in 1..Len(streams) : streams[i] \in Stream
  BY DEF DataInv, DataOf
<1>2. \A i \in 1..Len(streams) : \A k \in 1..Len(streams[i].subs) : streams[i].subs[k] \in Subscriber
  BY <1>1 DEF Stream
<1>3. \A i \in 1..Len(streams) :
        /\ streams[i].session \in Sessions /\ streams[i].live \in BOOLEAN
        /\ Len(streams[i].subs) \in Nat
  BY <1>1 DEF Stream
<1> QED BY <1>2, <1>3 DEF Subscriber, DataInv, DataOf

LEMMA AlikeRecord ==
  ASSUME DataInv, RecordInv, TypesInv, Alike(streams'), UNCHANGED current
  PROVE  RecordInv'
<1>1. \A i \in 1..Len(streams) :
        /\ streams'[i].session = streams[i].session /\ streams'[i].live = streams[i].live
        /\ Len(streams'[i].subs) = Len(streams[i].subs)
        /\ \A k \in 1..Len(streams[i].subs) : streams'[i].subs[k].open = streams[i].subs[k].open
  BY Zenon DEF Alike, Kept
<1>2. Len(streams') = Len(streams)
  BY DEF Alike, Kept
<1>3. \A s \in Sessions : current[s] # 0 => current[s] \in 1..Len(streams)
  BY StreamTypes DEF TypesInv
<1>4. \A s \in Sessions : current'[s] # 0 => streams'[current'[s]].session = s
  BY <1>1, <1>3, Zenon DEF RecordInv
<1>5. ASSUME NEW i \in 1..Len(streams)
      PROVE  /\ streams'[i].live <=> current'[streams'[i].session] = i
             /\ streams'[i].live <=> \E k \in 1..Len(streams'[i].subs) : streams'[i].subs[k].open
  <2>1. streams'[i].live <=> current'[streams'[i].session] = i
    BY <1>1, Zenon DEF RecordInv
  <2>2. streams[i].live <=> \E k \in 1..Len(streams[i].subs) : streams[i].subs[k].open
    BY Zenon DEF RecordInv
  <2>3. \A k \in 1..Len(streams[i].subs) : streams'[i].subs[k].open <=> streams[i].subs[k].open
    BY <1>1, Zenon
  <2>4. streams'[i].live <=> streams[i].live
    BY <1>1, Zenon
  <2>5. Len(streams'[i].subs) = Len(streams[i].subs)
    BY <1>1, Zenon
  <2>6. (\E k \in 1..Len(streams[i].subs) : streams'[i].subs[k].open)
          <=> \E k \in 1..Len(streams[i].subs) : streams[i].subs[k].open
    BY <2>3, Zenon
  <2> QED BY <2>1, <2>2, <2>4, <2>5, <2>6, Zenon
<1> QED BY <1>2, <1>4, <1>5, Zenon DEF RecordInv

LEMMA AlikePipe ==
  ASSUME DataInv, PipeInv, TypesInv, Alike(streams'), UNCHANGED <<current, pipe, astray>>,
         stop.pc = "closed" => stop'.pc = "closed"
  PROVE  PipeInv'
<1>1. \A i \in 1..Len(streams) : streams[i].cut => streams'[i].cut
  BY DEF Alike
<1>2. \A s \in Sessions : current[s] # 0 => current[s] \in 1..Len(streams)
  BY StreamTypes DEF TypesInv
<1> QED BY <1>1, <1>2, Zenon DEF PipeInv

LEMMA UnsubscribeRecord ==
  ASSUME DataInv, TypesInv, RecordInv, PipeInv, NEW s \in Sessions, NEW id,
         Unsubscribe(s, id), UNCHANGED stop
  PROVE  RecordInv' /\ PipeInv'
<1> DEFINE i == current[s]
<1>0. i \in 0..Len(streams) /\ Len(streams) \in Nat
  BY StreamTypes DEF TypesInv
<1>1. CASE i = 0
  <2>1. UNCHANGED <<streams, current, pipe, astray>>
    BY <1>0, <1>1, UnsubscribeFacts, Zenon
  <2> QED BY <2>1 DEF RecordInv, PipeInv
<1>2. CASE i # 0
  <2>1. /\ Kept(streams')
        /\ \A j \in 1..Len(streams) : j # i => streams'[j] = streams[j]
        /\ \A k \in 1..Len(streams[i].subs) :
             streams'[i].subs[k].open <=> streams[i].subs[k].open /\ k # id
        /\ UnsubscribeGone(s, id) \/ UnsubscribeStays(s, id)
    BY <1>0, <1>2, UnsubscribeFacts, Zenon
  <2>2. /\ i \in 1..Len(streams) /\ streams[i].session = s /\ streams[i].live
        /\ \A t \in Sessions : current[t] # 0 =>
             current[t] \in 1..Len(streams) /\ streams[current[t]].session = t
        /\ \A t \in Sessions : t # s => current[t] # i
        /\ \A j \in 1..Len(streams) : j # i => streams[j].session # s \/ ~streams[j].live
    BY <1>0, <1>2 DEF RecordInv, TypesInv
  <2>3. /\ Len(streams') = Len(streams)
        /\ \A j \in 1..Len(streams) :
             /\ streams'[j].session = streams[j].session
             /\ Len(streams'[j].subs) = Len(streams[j].subs)
    BY <2>1 DEF Kept
  <2>4. CASE UnsubscribeStays(s, id)
    <3>1. /\ UNCHANGED <<current, pipe, astray>> /\ streams'[i].live = streams[i].live
          /\ streams'[i].cut = streams[i].cut
          /\ \E k \in 1..Len(streams[i].subs) : k # id /\ streams[i].subs[k].open
      BY <2>4 DEF UnsubscribeStays
    <3>2. /\ \E k \in 1..Len(streams[i].subs) : streams'[i].subs[k].open
          /\ \A j \in 1..Len(streams) : streams'[j].live = streams[j].live /\ streams'[j].cut = streams[j].cut
      BY <2>1, <3>1, Zenon
    <3>3. RecordInv'
      <4>1. \A j \in 1..Len(streams) :
              streams'[j].live <=> \E k \in 1..Len(streams'[j].subs) : streams'[j].subs[k].open
        <5> SUFFICES ASSUME NEW j \in 1..Len(streams)
                     PROVE  streams'[j].live <=>
                              \E k \in 1..Len(streams'[j].subs) : streams'[j].subs[k].open
          OBVIOUS
        <5>1. CASE j = i
          <6>1. streams'[j].live
            BY <2>2, <3>2, <5>1, Zenon
          <6> QED BY <2>3, <3>2, <5>1, <6>1, Zenon
        <5>2. CASE j # i
          BY <2>1, <5>2, Zenon DEF RecordInv
        <5> QED BY <5>1, <5>2
      <4>2. \A j \in 1..Len(streams) : streams'[j].live <=> current'[streams'[j].session] = j
        BY <2>3, <3>1, <3>2, Zenon DEF RecordInv
      <4>3. \A t \in Sessions : current'[t] # 0 => streams'[current'[t]].session = t
        BY <2>2, <2>3, <3>1, Zenon
      <4> QED BY <2>3, <4>1, <4>2, <4>3, Zenon DEF RecordInv
    <3>4. PipeInv'
      BY <2>2, <3>1, <3>2, Zenon DEF PipeInv
    <3> QED BY <3>3, <3>4
  <2>5. CASE UnsubscribeGone(s, id)
    <3>1. /\ \A k \in 1..Len(streams[i].subs) : k # id => ~streams[i].subs[k].open
          /\ ~streams'[i].live
          /\ current' = [current EXCEPT ![s] = 0]
          /\ PipesOf({s})
      BY <2>5 DEF UnsubscribeGone
    <3>2. current'[s] = 0 /\ \A t \in Sessions : t # s => current'[t] = current[t]
      BY <3>1 DEF TypesInv
    <3>3. /\ s \in astray' \/ pipe'[s] = 0 \/ stop.pc = "closed"
          /\ \A t \in Sessions : t # s => pipe'[t] = pipe[t] /\ (t \in astray' <=> t \in astray)
      BY <3>1 DEF PipesOf
    <3>4. RecordInv'
      <4>1. ASSUME NEW j \in 1..Len(streams)
            PROVE  /\ streams'[j].live <=> \E k \in 1..Len(streams'[j].subs) : streams'[j].subs[k].open
                   /\ streams'[j].live <=> current'[streams'[j].session] = j
        <5>1. CASE j = i
          <6>1. ~streams'[j].live /\ \A k \in 1..Len(streams'[j].subs) : ~streams'[j].subs[k].open
            BY <2>1, <2>3, <3>1, <5>1, Zenon
          <6>2. current'[streams'[j].session] = 0 /\ j # 0
            BY <1>2, <2>2, <2>3, <3>2, <5>1, Zenon
          <6> QED BY <6>1, <6>2, Zenon
        <5>2. CASE j # i
          <6>1. streams'[j] = streams[j]
            BY <2>1, <5>2
          <6>2. streams[j].session \in Sessions
            BY StreamTypes
          <6>3. streams'[j].live <=> current'[streams'[j].session] = j
            <7>1. CASE streams[j].session = s
              <8>1. ~streams[j].live /\ current'[streams'[j].session] = 0 /\ j # 0
                BY <2>2, <3>2, <5>2, <6>1, <7>1
              <8> QED BY <6>1, <8>1
            <7>2. CASE streams[j].session # s
              <8>1. current'[streams'[j].session] = current[streams[j].session]
                BY <3>2, <6>1, <6>2, <7>2
              <8> QED BY <6>1, <8>1, Zenon DEF RecordInv
            <7> QED BY <7>1, <7>2
          <6> QED BY <6>1, <6>3, Zenon DEF RecordInv
        <5> QED BY <5>1, <5>2
      <4>2. \A t \in Sessions : current'[t] # 0 => streams'[current'[t]].session = t
        <5>1. \A t \in Sessions : current'[t] # 0 => t # s /\ current'[t] = current[t]
          BY <3>2
        <5> QED BY <2>2, <2>3, <5>1
      <4> QED BY <2>3, <4>1, <4>2, Zenon DEF RecordInv
    <3>5. PipeInv'
      <4> SUFFICES ASSUME NEW t \in Sessions
                   PROVE  IF current'[t] # 0
                          THEN \/ t \in astray' \/ pipe'[t] = current'[t]
                               \/ streams'[current'[t]].cut
                          ELSE t \in astray' \/ pipe'[t] = 0 \/ stop.pc = "closed"
        BY DEF PipeInv
      <4>1. CASE t = s
        BY <3>2, <3>3, <4>1
      <4>2. CASE t # s
        <5>1. current'[t] = current[t] /\ pipe'[t] = pipe[t] /\ (t \in astray' <=> t \in astray)
          BY <3>2, <3>3, <4>2
        <5>2. current[t] # 0 => streams'[current[t]] = streams[current[t]]
          BY <2>1, <2>2, <4>2, Zenon
        <5> QED BY <5>1, <5>2 DEF PipeInv
      <4> QED BY <4>1, <4>2
    <3> QED BY <3>4, <3>5
  <2> QED BY <2>1, <2>4, <2>5
<1> QED BY <1>1, <1>2

LEMMA GrownFacts ==
  ASSUME DataInv, DataOf(streams'), NEW ch, NEW c, NEW s, Grown(ch, c, s)
  PROVE  \A i \in 1..Len(streams) :
           /\ i \in 1..Len(streams')
           /\ \A k \in 1..Len(streams[i].subs) :
                k \in 1..Len(streams'[i].subs) /\ streams'[i].subs[k].open = streams[i].subs[k].open
           /\ (\E k \in 1..Len(streams[i].subs) : streams[i].subs[k].open) =>
                \E k \in 1..Len(streams'[i].subs) : streams'[i].subs[k].open
           /\ i # ch[1] =>
                \A k \in 1..Len(streams'[i].subs) : k \in 1..Len(streams[i].subs)
<1> SUFFICES ASSUME NEW i \in 1..Len(streams)
             PROVE  /\ i \in 1..Len(streams')
                    /\ \A k \in 1..Len(streams[i].subs) :
                         /\ k \in 1..Len(streams'[i].subs)
                         /\ streams'[i].subs[k].open = streams[i].subs[k].open
                    /\ (\E k \in 1..Len(streams[i].subs) : streams[i].subs[k].open) =>
                         \E k \in 1..Len(streams'[i].subs) : streams'[i].subs[k].open
                    /\ i # ch[1] =>
                         \A k \in 1..Len(streams'[i].subs) : k \in 1..Len(streams[i].subs)
  BY Zenon
<1>1. i \in 1..Len(streams')
  <2>1. Len(streams) <= Len(streams') /\ Len(streams) \in Nat /\ Len(streams') \in Nat
    BY StreamTypes DEF Grown
  <2> QED BY <2>1
<1>2. \A k \in 1..Len(streams[i].subs) : streams'[i].subs[k] = streams[i].subs[k]
  BY Zenon DEF Grown
<1>3. \A k \in 1..Len(streams[i].subs) : k \in 1..Len(streams'[i].subs)
  <2>1. Len(streams[i].subs) <= Len(streams'[i].subs) /\ Len(streams[i].subs) \in Nat
    BY StreamTypes DEF Grown
  <2>2. streams'[i] \in Stream
    BY <1>1 DEF DataOf
  <2>3. Len(streams'[i].subs) \in Nat
    BY <2>2 DEF Stream
  <2> QED BY <2>1, <2>3
<1>4. i # ch[1] => \A k \in 1..Len(streams'[i].subs) : k \in 1..Len(streams[i].subs)
  <2>1. ASSUME i # ch[1], NEW k \in 1..Len(streams'[i].subs)
        PROVE  k \in 1..Len(streams[i].subs)
    <3>1. <<i, k>> # ch
      <4>1. <<i, k>>[1] = i
        OBVIOUS
      <4> QED BY <2>1, <4>1, Zenon
    <3> QED BY <1>1, <3>1, Zenon DEF Grown
  <2> QED BY <2>1
<1> QED BY <1>1, <1>2, <1>3, <1>4, Zenon

\* PipePaneStart on session s, which said ok.
StartedPipe(s, ok) ==
  /\ pipe' = [t \in Sessions |-> pipe'[t]]
  /\ pipe'[s] \in {pipe[s], 0} \cup (IF ok THEN {Len(streams) + 1} ELSE {-1})
  /\ \A t \in Sessions : t # s => pipe'[t] = pipe[t]
  /\ \/ astray' = astray \cup {s}
     \/ /\ astray' = astray
        /\ IF ok THEN stop.pc # "closed" /\ (pipe[s] = 0 => pipe'[s] = Len(streams) + 1)
           ELSE pipe'[s] = pipe[s]

LEMMA SubscribeStarts ==
  ASSUME TypesInv, NEW c \in Clients, NEW s \in Sessions, Subscribe(c, s), current[s] = 0
  PROVE  \/ /\ streams' = Started(c, s) /\ current' = [current EXCEPT ![s] = Len(streams) + 1]
            /\ StartedPipe(s, TRUE) /\ Goes(c, "store", <<Len(streams) + 1, 1>>)
         \/ /\ UNCHANGED <<streams, current>>
            /\ StartedPipe(s, FALSE) /\ Goes(c, "idle", NoChannel)
<1> PICK done \in BOOLEAN, ok \in BOOLEAN :
      /\ Answered(s, done, ok)
      /\ pipe' = IF ~done THEN pipe ELSE Piped(s, IF ok THEN Len(streams) + 1 ELSE -1)
      /\ IF ok
         THEN /\ streams' = Started(c, s)
              /\ current' = [current EXCEPT ![s] = Len(streams) + 1]
              /\ Goes(c, "store", <<Len(streams) + 1, 1>>)
         ELSE /\ Goes(c, "idle", NoChannel)
              /\ UNCHANGED <<streams, current>>
  BY DEF Subscribe
<1>1. /\ pipe' = [t \in Sessions |-> pipe'[t]]
      /\ \A t \in Sessions : t # s => pipe'[t] = pipe[t]
  BY DEF Piped, TypesInv
<1>2. pipe'[s] = IF ~done THEN pipe[s] ELSE IF pipe[s] # 0 THEN 0
                 ELSE IF ok THEN Len(streams) + 1 ELSE -1
  BY DEF Piped, TypesInv
<1>3. /\ done => stop.pc # "closed"
      /\ astray' = IF ok = done THEN astray ELSE astray \cup {s}
  BY DEF Answered, TmuxAnswers
<1>4. CASE ok
  <2>1. StartedPipe(s, TRUE)
    BY <1>1, <1>2, <1>3, <1>4 DEF StartedPipe
  <2> QED BY <1>4, <2>1
<1>5. CASE ~ok
  <2>1. StartedPipe(s, FALSE)
    BY <1>1, <1>2, <1>3, <1>5 DEF StartedPipe
  <2> QED BY <1>5, <2>1
<1> QED BY <1>4, <1>5

LEMMA StartedTyped ==
  ASSUME NEW n \in Nat, Len(streams) \in Nat, TypesInv, NEW s \in Sessions, NEW ok \in BOOLEAN,
         StartedPipe(s, ok), n = IF ok THEN Len(streams) + 1 ELSE Len(streams)
  PROVE  pipe' \in [Sessions -> -1..n] /\ astray' \subseteq Sessions
<1>1. \A t \in Sessions : pipe[t] \in -1..Len(streams)
  BY DEF TypesInv
<1>2. \A t \in Sessions : pipe'[t] \in -1..n
  BY <1>1 DEF StartedPipe
<1>3. astray' \subseteq Sessions
  BY DEF StartedPipe, TypesInv
<1> QED BY <1>2, <1>3 DEF StartedPipe

LEMMA SubscribeRecord ==
  ASSUME DataInv, TypesInv, RecordInv, PipeInv, NEW c \in Clients, NEW s \in Sessions,
         Subscribe(c, s), UNCHANGED stop
  PROVE  RecordInv' /\ PipeInv' /\ DataInv'
<1>0. /\ Len(streams) \in Nat /\ current[s] \in 0..Len(streams)
      /\ \A t \in Sessions : current[t] # 0 => current[t] \in 1..Len(streams)
  BY StreamTypes DEF TypesInv
<1>1. CASE current[s] # 0
  <2> DEFINE ch == <<current[s], Len(streams[current[s]].subs) + 1>>
  <2>1. streams' = Joined(c, s) /\ UNCHANGED <<pipe, astray, current>>
    BY <1>1 DEF Subscribe
  <2>2. streams[current[s]].session = s /\ streams[current[s]].live /\ current[s] \in 1..Len(streams)
    BY <1>0, <1>1 DEF RecordInv
  <2>3. DataOf(streams') /\ Grown(ch, c, s) /\ Len(streams') = Len(streams)
    BY <2>1, <2>2, JoinedFacts
  <2>4. ch[1] = current[s]
    OBVIOUS
  <2> HIDE DEF ch
  <2>5. \A i \in 1..Len(streams) :
          /\ streams'[i].session = streams[i].session /\ streams'[i].live = streams[i].live
          /\ streams'[i].cut = streams[i].cut
    BY <2>3, Zenon DEF Grown
  <2>6. RecordInv'
    <3>1. \A t \in Sessions : current'[t] # 0 => streams'[current'[t]].session = t
      BY <1>0, <2>1, <2>5, Zenon DEF RecordInv
    <3>2. ASSUME NEW i \in 1..Len(streams)
          PROVE  /\ streams'[i].live <=> current'[streams'[i].session] = i
                 /\ streams'[i].live <=> \E k \in 1..Len(streams'[i].subs) : streams'[i].subs[k].open
      <4>1. streams'[i].live <=> current'[streams'[i].session] = i
        BY <2>1, <2>5, Zenon DEF RecordInv
      <4>2. CASE i = ch[1]
        <5>1. \E k \in 1..Len(streams'[i].subs) : streams'[i].subs[k].open
          BY <2>3, <4>2, Zenon DEF Grown
        <5>2. streams'[i].live
          BY <2>2, <2>4, <2>5, <4>2, Zenon
        <5> QED BY <4>1, <5>1, <5>2, Zenon
      <4>3. CASE i # ch[1]
        <5>1. \A k \in 1..Len(streams'[i].subs) :
                k \in 1..Len(streams[i].subs) /\ streams'[i].subs[k].open = streams[i].subs[k].open
          BY <2>3, <4>3, GrownFacts, Zenon
        <5>2. (\E k \in 1..Len(streams[i].subs) : streams[i].subs[k].open) =>
                 \E k \in 1..Len(streams'[i].subs) : streams'[i].subs[k].open
          BY <2>3, GrownFacts, Zenon
        <5>3. streams[i].live <=> \E k \in 1..Len(streams[i].subs) : streams[i].subs[k].open
          BY Zenon DEF RecordInv
        <5>4. (\E k \in 1..Len(streams'[i].subs) : streams'[i].subs[k].open) =>
                 \E k \in 1..Len(streams[i].subs) : streams[i].subs[k].open
          BY <5>1, Zenon
        <5> QED BY <2>5, <4>1, <5>2, <5>3, <5>4, Zenon
      <4> QED BY <4>2, <4>3
    <3> QED BY <2>3, <3>1, <3>2, Zenon DEF RecordInv
  <2>7. PipeInv'
    BY <1>0, <2>1, <2>5, Zenon DEF PipeInv
  <2> QED BY <2>3, <2>6, <2>7 DEF DataInv
<1>2. CASE current[s] = 0 /\ streams' = Started(c, s)
           /\ current' = [current EXCEPT ![s] = Len(streams) + 1] /\ StartedPipe(s, TRUE)
  <2> DEFINE n == Len(streams)
             ch == <<n + 1, 1>>
  <2>1. streams' = Started(c, s) /\ current' = [current EXCEPT ![s] = n + 1]
    BY <1>2
  <2>2. DataOf(streams') /\ Grown(ch, c, s) /\ Len(streams') = n + 1
    BY <2>1, StartedFacts
  <2>3. ch[1] = n + 1
    OBVIOUS
  <2>4. /\ current'[s] = n + 1 /\ \A t \in Sessions : t # s => current'[t] = current[t]
        /\ s \in astray' \/ (s \notin astray /\ stop.pc # "closed"
                              /\ (pipe[s] = 0 => pipe'[s] = n + 1))
        /\ \A t \in Sessions : t # s => pipe'[t] = pipe[t] /\ (t \in astray' <=> t \in astray)
    BY <1>2, <2>1 DEF TypesInv, StartedPipe
  <2>5. n \in Nat /\ \A i \in 1..(n + 1) : i \in 1..n \/ i = n + 1
    BY <1>0
  <2>6. s \in astray' \/ pipe'[s] = n + 1
    BY <1>2, <2>4 DEF PipeInv
  <2> HIDE DEF n, ch
  <2>7. \A i \in 1..n :
          /\ streams'[i].session = streams[i].session /\ streams'[i].live = streams[i].live
          /\ streams'[i].cut = streams[i].cut
    BY <2>2, Zenon DEF Grown, n
  <2>8. streams'[n + 1].session = s /\ streams'[n + 1].live
        /\ \E k \in 1..Len(streams'[n + 1].subs) : streams'[n + 1].subs[k].open
    BY <2>2, <2>3, Zenon DEF Grown
  <2>9. RecordInv'
    <3>1. \A t \in Sessions : current'[t] # 0 => streams'[current'[t]].session = t
      <4>1. \A t \in Sessions : t # s /\ current[t] # 0 => current[t] \in 1..n
        BY <1>0 DEF n
      <4> SUFFICES ASSUME NEW t \in Sessions, current'[t] # 0
                   PROVE  streams'[current'[t]].session = t
        OBVIOUS
      <4>2. CASE t = s
        BY <2>4, <2>8, <4>2, Zenon
      <4>3. CASE t # s
        <5>1. current'[t] = current[t]
          BY <2>4, <4>3
        <5>2. current[t] \in 1..n /\ streams[current[t]].session = t
          BY <4>1, <4>3, <5>1, Zenon DEF RecordInv
        <5>3. streams'[current[t]].session = streams[current[t]].session
          BY <2>7, <5>2
        <5> QED BY <5>1, <5>2, <5>3
      <4> QED BY <4>2, <4>3
    <3>2. ASSUME NEW i \in 1..n
          PROVE  /\ streams'[i].live <=> current'[streams'[i].session] = i
                 /\ streams'[i].live <=> \E k \in 1..Len(streams'[i].subs) : streams'[i].subs[k].open
      <4>0. i # n + 1 /\ i # 0
        BY <2>5
      <4>1. streams[i].session \in Sessions
        BY StreamTypes DEF n
      <4>2. streams'[i].live <=> current'[streams'[i].session] = i
        <5>1. streams[i].live <=> current[streams[i].session] = i
          BY Zenon DEF RecordInv, n
        <5> QED BY <1>2, <2>4, <2>7, <4>0, <4>1, <5>1, Zenon
      <4>3. \A k \in 1..Len(streams'[i].subs) :
              k \in 1..Len(streams[i].subs) /\ streams'[i].subs[k].open = streams[i].subs[k].open
        BY <2>2, <2>3, <4>0, GrownFacts, Zenon DEF n
      <4>4. (\E k \in 1..Len(streams[i].subs) : streams[i].subs[k].open) =>
               \E k \in 1..Len(streams'[i].subs) : streams'[i].subs[k].open
        BY <2>2, GrownFacts, Zenon DEF n
      <4>5. streams[i].live <=> \E k \in 1..Len(streams[i].subs) : streams[i].subs[k].open
        BY Zenon DEF RecordInv, n
      <4>6. (\E k \in 1..Len(streams'[i].subs) : streams'[i].subs[k].open) =>
               \E k \in 1..Len(streams[i].subs) : streams[i].subs[k].open
        BY <4>3, Zenon
      <4> QED BY <2>7, <4>2, <4>4, <4>5, <4>6, Zenon
    <3>3. /\ streams'[n + 1].live <=> current'[streams'[n + 1].session] = n + 1
          /\ streams'[n + 1].live <=>
               \E k \in 1..Len(streams'[n + 1].subs) : streams'[n + 1].subs[k].open
      BY <2>4, <2>8, Zenon
    <3> QED BY <2>2, <2>5, <3>1, <3>2, <3>3, Zenon DEF RecordInv
  <2>10. PipeInv'
    <3> SUFFICES ASSUME NEW t \in Sessions
                 PROVE  IF current'[t] # 0
                        THEN \/ t \in astray' \/ pipe'[t] = current'[t]
                             \/ streams'[current'[t]].cut
                        ELSE t \in astray' \/ pipe'[t] = 0 \/ stop.pc = "closed"
      BY DEF PipeInv
    <3>1. CASE t = s
      BY <2>4, <2>5, <2>6, <3>1
    <3>2. CASE t # s
      <4>1. current[t] # 0 => streams'[current[t]].cut = streams[current[t]].cut
        BY <1>0, <2>7 DEF n
      <4> QED BY <2>4, <3>2, <4>1 DEF PipeInv
    <3> QED BY <3>1, <3>2
  <2> QED BY <2>2, <2>9, <2>10 DEF DataInv
<1>3. CASE current[s] = 0 /\ UNCHANGED <<streams, current>> /\ StartedPipe(s, FALSE)
  <2>1. \A t \in Sessions : t # s => pipe'[t] = pipe[t] /\ (t \in astray' <=> t \in astray)
    BY <1>3 DEF StartedPipe
  <2>2. s \in astray' \/ (s \notin astray /\ pipe'[s] = pipe[s])
    BY <1>3 DEF StartedPipe
  <2>3. PipeInv'
    BY <1>3, <2>1, <2>2 DEF PipeInv
  <2> QED BY <1>3, <2>3 DEF RecordInv, DataInv
<1> QED BY <1>1, <1>2, <1>3, SubscribeStarts

LEMMA StopAllRecord ==
  ASSUME DataInv, TypesInv, RecordInv, PipeInv, StopAll
  PROVE  RecordInv' /\ PipeInv'
<1>1. /\ Len(streams') = Len(streams)
      /\ \A i \in 1..Len(streams) :
           /\ streams'[i].session = streams[i].session
           /\ Len(streams'[i].subs) = Len(streams[i].subs)
           /\ IF i = current[streams[i].session]
              THEN ~streams'[i].live /\ \A k \in 1..Len(streams[i].subs) : ~streams'[i].subs[k].open
              ELSE streams'[i] = streams[i]
  BY StopAllFacts, Zenon DEF Kept
<1>2. /\ \A s \in Sessions : current'[s] = 0
      /\ PipesOf({s \in Sessions : current[s] # 0})
  BY PipesClosedFacts DEF StopAll
<1>3. ASSUME NEW i \in 1..Len(streams)
      PROVE  ~streams'[i].live /\ \A k \in 1..Len(streams'[i].subs) : ~streams'[i].subs[k].open
  BY <1>1, Zenon DEF RecordInv
<1>4. \A i \in 1..Len(streams) : streams'[i].session \in Sessions /\ i # 0
  BY <1>1, StreamTypes
<1>5. RecordInv'
  BY <1>1, <1>2, <1>3, <1>4 DEF RecordInv
<1>6. PipeInv'
  <2>1. stop'.pc = "stopped" /\ stop.pc = "closing"
    BY DEF StopAll, TypesInv
  <2> QED BY <1>2, <2>1 DEF PipeInv, PipesOf
<1> QED BY <1>5, <1>6

LEMMA PaneEndsPipe ==
  ASSUME DataInv, TypesInv, RecordInv, PipeInv, NEW s \in Sessions, PaneEnds(s)
  PROVE  PipeInv'
<1>1. pipe[s] \in -1..Len(streams) /\ Len(streams) \in Nat
  BY StreamTypes DEF TypesInv
<1>2. /\ \A i \in 1..Len(streams) : streams[i].cut \/ pipe[s] = i => streams'[i].cut
      /\ current' = current /\ stop' = stop
  <2>1. Alike(streams') /\ \A i \in 1..Len(streams) : pipe[s] = i => streams'[i].cut
    BY <1>1, PaneEndsAlike
  <2> QED BY <2>1 DEF Alike, PaneEnds
<1>3. pipe'[s] = 0 /\ (\A t \in Sessions : t # s => pipe'[t] = pipe[t]) /\ astray' = astray
  BY DEF PaneEnds, TypesInv
<1>4. \A t \in Sessions : current[t] # 0 => current[t] \in 1..Len(streams)
  BY <1>1 DEF TypesInv
<1> SUFFICES ASSUME NEW t \in Sessions
             PROVE  IF current'[t] # 0
                    THEN t \in astray' \/ pipe'[t] = current'[t] \/ streams'[current'[t]].cut
                    ELSE t \in astray' \/ pipe'[t] = 0 \/ stop'.pc = "closed"
  BY DEF PipeInv
<1>5. CASE t = s
  BY <1>1, <1>2, <1>3, <1>4, <1>5 DEF PipeInv
<1>6. CASE t # s
  BY <1>1, <1>2, <1>3, <1>4, <1>6 DEF PipeInv
<1> QED BY <1>5, <1>6

----------------------------------------------------------------------------
(* Who has which subscription. *)

OwnedStays ==
  \A c \in Clients : \A s \in Sessions : \A ch :
    Owned(streams, c, ch, s) => Owned(streams', c, ch, s)

LEMMA KeptOwned ==
  ASSUME Kept(streams')
  PROVE  OwnedStays
  BY Zenon DEF OwnedStays, Owned, Kept

LEMMA GrownOwned ==
  ASSUME DataInv, DataOf(streams'), NEW ch, NEW c, NEW s, Grown(ch, c, s)
  PROVE  OwnedStays /\ Owned(streams', c, ch, s)
<1>1. Owned(streams', c, ch, s)
  BY Zenon DEF Grown, Owned
<1>2. ASSUME NEW d, NEW t, NEW x, Owned(streams, d, x, t)
      PROVE  Owned(streams', d, x, t)
  <2>1. /\ x = <<x[1], x[2]>> /\ x[1] \in 1..Len(streams) /\ x[2] \in 1..Len(streams[x[1]].subs)
        /\ streams[x[1]].subs[x[2]].client = d /\ streams[x[1]].session = t
    BY <1>2, Zenon DEF Owned
  <2>2. x[1] \in 1..Len(streams') /\ x[2] \in 1..Len(streams'[x[1]].subs)
    BY <2>1, GrownFacts, Zenon
  <2>3. /\ streams'[x[1]].session = streams[x[1]].session
        /\ streams'[x[1]].subs[x[2]] = streams[x[1]].subs[x[2]]
    BY <2>1, Zenon DEF Grown
  <2> QED BY <2>1, <2>2, <2>3, Zenon DEF Owned
<1> QED BY <1>1, <1>2, Zenon DEF OwnedStays

\* A step of one client, or of nobody.
LEMMA HolderStep ==
  ASSUME TypesInv, HolderInv, OwnedStays, NEW C \in SUBSET Clients,
         \A d \in Clients \ C : handler'[d] = handler[d] /\ held'[d] = held[d],
         \A c \in C : HolderOf(c)'
  PROVE  HolderInv'
<1> SUFFICES ASSUME NEW d \in Clients, d \notin C
             PROVE  HolderOf(d)'
  BY Zenon DEF HolderInv
<1>1. handler'[d] = handler[d] /\ held'[d] = held[d]
  BY Zenon
<1>2. handler[d].session \in Sessions
  BY DEF TypesInv, Handler
<1>3. HolderOf(d)
  BY Zenon DEF HolderInv
<1>4. handler'[d].pc \in {"replace", "store", "drain", "redraw", "drop"} =>
        Owned(streams', d, handler'[d].chan, handler'[d].session)
  BY <1>1, <1>2, <1>3, Zenon DEF HolderOf, OwnedStays
<1>5. \A s \in Sessions : held'[d][s] # NoChannel => Owned(streams', d, held'[d][s], s)
  BY <1>1, <1>3, Zenon DEF HolderOf, OwnedStays
<1>6. handler'[d].pc \in {"replace", "subscribe", "store", "drop"} =>
        held'[d][handler'[d].session] = NoChannel
  BY <1>1, <1>3, Zenon DEF HolderOf
<1> QED BY <1>4, <1>5, <1>6, Zenon DEF HolderOf

\* Who has what is the same, and so are the subscriptions.
LEMMA SameHeld ==
  ASSUME DataInv, HeldInv, Alike(streams'), Holding' => Holding,
         \A c \in Clients : \A i, k \in Nat \ {0} : Has(c, <<i, k>>)' <=> Has(c, <<i, k>>)
  PROVE  HeldInv'
<1> SUFFICES ASSUME NEW c \in Clients, NEW i \in 1..Len(streams'),
                    NEW k \in 1..Len(streams'[i].subs), streams'[i].subs[k].client = c
             PROVE  /\ streams'[i].subs[k].open => Has(c, <<i, k>>)'
                    /\ Holding' /\ Has(c, <<i, k>>)' => streams'[i].subs[k].open
  BY Zenon DEF HeldInv
<1>1. i \in 1..Len(streams) /\ k \in 1..Len(streams[i].subs)
  BY Zenon DEF Alike, Kept
<1>2. i \in Nat \ {0} /\ k \in Nat \ {0}
  BY <1>1, StreamTypes
<1>3. streams[i].subs[k].client = c /\ (streams'[i].subs[k].open <=> streams[i].subs[k].open)
  BY <1>1, Zenon DEF Alike, Kept
<1>4. Has(c, <<i, k>>)' <=> Has(c, <<i, k>>)
  BY <1>2, Zenon
<1> QED BY <1>1, <1>3, <1>4, Zenon DEF HeldInv

\* A client gives a subscription back: it is the one that Unsubscribe closes.
LEMMA GivenBack ==
  ASSUME DataInv, TypesInv, RecordInv, HeldInv, NEW c \in Clients, NEW s \in Sessions, NEW ch,
         Owned(streams, c, ch, s), Has(c, ch), Unsubscribe(s, ch[2]), Holding' <=> Holding,
         \A d \in Clients \ {c} : \A x : Has(d, x)' <=> Has(d, x),
         \A i, k \in Nat \ {0} : Has(c, <<i, k>>)' <=> Has(c, <<i, k>>) /\ <<i, k>> # ch
  PROVE  HeldInv'
<1>0. /\ ch = <<ch[1], ch[2]>> /\ ch[1] \in 1..Len(streams) /\ ch[2] \in 1..Len(streams[ch[1]].subs)
      /\ streams[ch[1]].subs[ch[2]].client = c /\ streams[ch[1]].session = s
      /\ current[s] \in 0..Len(streams)
  BY DEF Owned, TypesInv
<1>1. \A i \in 1..Len(streams) : \A k \in 1..Len(streams[i].subs) :
        streams[i].subs[k].open => current[streams[i].session] = i
  BY Zenon DEF RecordInv
\* Open is what was open, but for the number given back in the stream on record.
<1>2. /\ Kept(streams')
      /\ \A i \in 1..Len(streams) : \A k \in 1..Len(streams[i].subs) :
           streams'[i].subs[k].open <=>
             streams[i].subs[k].open /\ ~(i = current[s] /\ k = ch[2])
  <2>1. CASE current[s] = 0
    <3>1. UNCHANGED streams /\ Kept(streams') /\ \A i \in 1..Len(streams) : i # current[s]
      BY <1>0, <2>1, UnsubscribeFacts
    <3> QED BY <3>1, Zenon
  <2>2. CASE current[s] # 0
    <3>1. /\ Kept(streams')
          /\ \A j \in 1..Len(streams) : j # current[s] => streams'[j] = streams[j]
          /\ \A k \in 1..Len(streams[current[s]].subs) :
               streams'[current[s]].subs[k].open <=> streams[current[s]].subs[k].open /\ k # ch[2]
      BY <1>0, <2>2, UnsubscribeFacts
    <3> QED BY <3>1, Zenon
  <2> QED BY <2>1, <2>2
<1> SUFFICES ASSUME NEW d \in Clients, NEW i \in 1..Len(streams'),
                    NEW k \in 1..Len(streams'[i].subs), streams'[i].subs[k].client = d
             PROVE  /\ streams'[i].subs[k].open => Has(d, <<i, k>>)'
                    /\ Holding' /\ Has(d, <<i, k>>)' => streams'[i].subs[k].open
  BY Zenon DEF HeldInv
<1>3. i \in 1..Len(streams) /\ k \in 1..Len(streams[i].subs) /\ streams[i].subs[k].client = d
  BY <1>2, Zenon DEF Kept
<1>4. i \in Nat \ {0} /\ k \in Nat \ {0}
  BY <1>3, StreamTypes
<1>5. /\ streams[i].subs[k].open => Has(d, <<i, k>>)
      /\ Holding /\ Has(d, <<i, k>>) => streams[i].subs[k].open
  BY <1>3, Zenon DEF HeldInv
<1>6. <<i, k>> = ch <=> i = ch[1] /\ k = ch[2]
  BY <1>0
<1>7. CASE <<i, k>> = ch
  <2>1. d = c /\ ~Has(c, <<i, k>>)'
    BY <1>0, <1>3, <1>4, <1>6, <1>7
  <2>2. ~streams'[i].subs[k].open
    BY <1>0, <1>1, <1>2, <1>3, <1>6, <1>7, Zenon
  <2> QED BY <2>1, <2>2
<1>8. CASE <<i, k>> # ch
  <2>1. Has(d, <<i, k>>)' <=> Has(d, <<i, k>>)
    BY <1>4, <1>8
  <2>2. Holding => (streams'[i].subs[k].open <=> streams[i].subs[k].open)
    <3>1. SUFFICES ASSUME Holding, i = current[s], k = ch[2]
                   PROVE  FALSE
      BY <1>2, <1>3, Zenon
    <3>2. streams[ch[1]].subs[ch[2]].open
      BY <1>0, <3>1, Zenon DEF HeldInv
    <3>3. current[s] = ch[1]
      BY <1>0, <1>1, <3>2, Zenon
    <3> QED BY <1>6, <1>8, <3>1, <3>3
  <2>3. streams'[i].subs[k].open => streams[i].subs[k].open
    BY <1>2, <1>3, Zenon
  <2> QED BY <1>5, <2>1, <2>2, <2>3, Zenon
<1> QED BY <1>7, <1>8

ClientsInv == TypesInv /\ HolderInv /\ HeldInv /\ GoneInv

\* A step that no client takes.
LEMMA ClientsStay ==
  ASSUME DataInv, ClientsInv, Alike(streams'), UNCHANGED clientVars, Holding' => Holding
  PROVE  HolderInv' /\ HeldInv' /\ GoneInv'
<1>1. UNCHANGED <<held, handler, closer>>
  BY DEF clientVars
<1>2. HolderInv'
  <2>1. OwnedStays
    BY KeptOwned DEF Alike
  <2>2. {} \in SUBSET Clients
    OBVIOUS
  <2> QED BY <1>1, <2>1, <2>2, HolderStep DEF ClientsInv
<1>3. HeldInv'
  BY <1>1, SameHeld DEF ClientsInv, Has
<1>4. GoneInv'
  BY <1>1 DEF ClientsInv, GoneInv
<1> QED BY <1>2, <1>3, <1>4


\* The panes, tailFile and the forwarding goroutines.
LEMMA OutsideStep ==
  ASSUME OutputInv,
         (\E s \in Sessions : Pane(s)) \/ (\E i \in DOMAIN streams : TailFile(i))
           \/ (\E ch \in Made : Forward(ch))
  PROVE  OutputInv'
<1> USE DEF OutputInv
<1>0. DOMAIN streams = 1..Len(streams)
  BY DEF DataInv, DataOf
<1>1. ASSUME DataOf(streams'), Alike(streams'), UNCHANGED <<tmuxVars, current, clientVars, stop>>
      PROVE  OutputInv'
  <2>1. RecordInv' /\ PipeInv'
    BY <1>1, AlikeRecord, AlikePipe DEF tmuxVars
  <2>2. HolderInv' /\ HeldInv' /\ GoneInv'
    BY <1>1, ClientsStay DEF ClientsInv, Holding
  <2>3. TypesInv'
    <3>1. UNCHANGED <<panes, pipe, astray, changes, current, held, handler, conn, closer, stop>>
      BY <1>1 DEF tmuxVars, clientVars
    <3>2. Len(streams') = Len(streams)
      BY <1>1 DEF Alike, Kept
    <3> QED BY <3>1, <3>2 DEF TypesInv
  <2> QED BY <1>1, <2>1, <2>2, <2>3 DEF DataInv
<1>2. ASSUME NEW s \in Sessions, Output(s)
      PROVE  OutputInv'
  <2>1. pipe[s] \in -1..Len(streams)
    BY DEF TypesInv
  <2>2. DataOf(streams') /\ Alike(streams')
    BY <1>2, <2>1, OutputAlike
  <2> QED BY <1>1, <1>2, <2>2 DEF Output
<1>3. ASSUME NEW s \in Sessions, PaneEnds(s)
      PROVE  OutputInv'
  <2>1. pipe[s] \in -1..Len(streams)
    BY DEF TypesInv
  <2>2. DataOf(streams') /\ Alike(streams')
    BY <1>3, <2>1, PaneEndsAlike
  <2>3. UNCHANGED <<astray, current, clientVars, stop>> /\ pipe' = [pipe EXCEPT ![s] = 0]
    BY <1>3 DEF PaneEnds
  <2>4. RecordInv' /\ PipeInv'
    BY <1>3, <2>2, <2>3, AlikeRecord, PaneEndsPipe
  <2>5. HolderInv' /\ HeldInv' /\ GoneInv'
    BY <2>2, <2>3, ClientsStay DEF ClientsInv, Holding
  <2>6. TypesInv'
    <3>1. pipe' \in [Sessions -> -1..Len(streams)]
      BY <2>3, StreamTypes DEF TypesInv
    <3>2. Len(streams') = Len(streams) /\ panes' \subseteq Sessions /\ changes' \in 0..MaxChanges
      BY <1>3, <2>2, OutputAssumption DEF Alike, Kept, PaneEnds, TypesInv
    <3> QED BY <2>3, <3>1, <3>2 DEF TypesInv, clientVars
  <2> QED BY <2>2, <2>4, <2>5, <2>6 DEF DataInv
<1>4. ASSUME NEW s \in Sessions, PaneStarts(s)
      PROVE  OutputInv'
  <2>1. UNCHANGED <<pipe, astray, streams, current, clientVars, stop>>
    BY <1>4 DEF PaneStarts
  <2>2. Alike(streams')
    BY <2>1 DEF Alike, Kept, DataInv, DataOf
  <2>3. RecordInv' /\ PipeInv'
    BY <2>1, <2>2, AlikeRecord, AlikePipe
  <2>4. HolderInv' /\ HeldInv' /\ GoneInv'
    BY <2>1, <2>2, ClientsStay DEF ClientsInv, Holding
  <2>5. TypesInv'
    <3>1. panes' \subseteq Sessions /\ changes' \in 0..MaxChanges
      BY <1>4, OutputAssumption DEF PaneStarts, TypesInv
    <3> QED BY <2>1, <3>1 DEF TypesInv, clientVars
  <2> QED BY <2>1, <2>3, <2>4, <2>5 DEF DataInv
<1>5. ASSUME NEW i \in 1..Len(streams), TailFile(i)
      PROVE  OutputInv'
  <2>1. CASE TailOpens(i)
    <3>1. DataOf(streams') /\ Alike(streams')
      BY <2>1, TailOpensAlike
    <3> QED BY <1>1, <2>1, <3>1 DEF TailOpens
  <2>2. CASE Flush(i)
    <3>1. DataOf(streams') /\ Alike(streams')
      BY <2>2, FlushAlike
    <3> QED BY <1>1, <2>2, <3>1 DEF Flush
  <2> QED BY <1>5, <2>1, <2>2 DEF TailFile
<1>6. ASSUME NEW ch \in Made, Forward(ch)
      PROVE  OutputInv'
  <2>1. DataOf(streams') /\ Alike(streams')
    BY <1>6, ForwardAlike
  <2> QED BY <1>1, <1>6, <2>1 DEF Forward
<1> QED BY <1>0, <1>2, <1>3, <1>4, <1>5, <1>6 DEF Pane

\* A step of one client that keeps the subscriptions it has.
LEMMA SameSubscriptions ==
  ASSUME OutputInv, DataOf(streams'), Alike(streams'), UNCHANGED stop,
         RecordInv', PipeInv', TypesInv', NEW c \in Clients,
         \A d \in Clients \ {c} : handler'[d] = handler[d] /\ held'[d] = held[d],
         HolderOf(c)',
         \A i, k \in Nat \ {0} : Has(c, <<i, k>>)' <=> Has(c, <<i, k>>),
         GoneInv'
  PROVE  OutputInv'
<1> USE DEF OutputInv
<1>1. HolderInv'
  <2>1. OwnedStays
    BY KeptOwned DEF Alike
  <2>2. {c} \in SUBSET Clients
    OBVIOUS
  <2> QED BY <2>1, <2>2, HolderStep
<1>2. HeldInv'
  <2>1. \A d \in Clients : \A i, k \in Nat \ {0} : Has(d, <<i, k>>)' <=> Has(d, <<i, k>>)
    <3>1. \A d \in Clients \ {c} : \A x : Has(d, x)' <=> Has(d, x)
      BY Zenon DEF Has
    <3> QED BY <3>1, Zenon
  <2>2. Holding' <=> Holding
    BY DEF Holding
  <2> QED BY <2>1, <2>2, SameHeld
<1> QED BY <1>1, <1>2 DEF DataInv

LEMMA OneClient ==
  ASSUME OutputInv, DataOf(streams'), Alike(streams'), UNCHANGED <<tmuxVars, current, stop>>,
         NEW c \in Clients,
         \A d \in Clients \ {c} : handler'[d] = handler[d] /\ held'[d] = held[d],
         handler' \in [Clients -> Handler], held' \in [Clients -> [Sessions -> Channels]],
         conn' \in [Clients -> BOOLEAN], closer' \in [Clients -> {"no", "server", "stop"}],
         HolderOf(c)',
         \A i, k \in Nat \ {0} : Has(c, <<i, k>>)' <=> Has(c, <<i, k>>),
         GoneInv'
  PROVE  OutputInv'
<1>1. RecordInv' /\ PipeInv'
  BY AlikeRecord, AlikePipe DEF OutputInv, tmuxVars
<1>2. TypesInv'
  <2>1. UNCHANGED <<panes, pipe, astray, changes, current, stop>>
    BY DEF tmuxVars
  <2>2. Len(streams') = Len(streams)
    BY DEF Alike, Kept
  <2> QED BY <2>1, <2>2 DEF OutputInv, TypesInv
<1> QED BY <1>1, <1>2, SameSubscriptions

LEMMA Unchanged ==
  ASSUME DataInv, UNCHANGED streams
  PROVE  DataOf(streams') /\ Alike(streams')
  BY DEF DataInv, DataOf, Alike, Kept

\* The handler of a client after its step, and its map after a change.
LEMMA HandlerAt ==
  ASSUME TypesInv, NEW c \in Clients, NEW r, handler' = [handler EXCEPT ![c] = r]
  PROVE  /\ handler'[c] = r /\ \A d \in Clients \ {c} : handler'[d] = handler[d]
         /\ r \in Handler => handler' \in [Clients -> Handler]
  BY DEF TypesInv

LEMMA GoesFacts ==
  ASSUME TypesInv, NEW c \in Clients, NEW pc, NEW ch, Goes(c, pc, ch)
  PROVE  /\ handler'[c].pc = pc /\ handler'[c].chan = ch /\ handler'[c].session = handler[c].session
         /\ \A d \in Clients \ {c} : handler'[d] = handler[d]
         /\ ch \in Channels /\ pc \in {"idle", "replace", "subscribe", "store", "drain", "redraw",
                                     "drop", "ended", "gone"} =>
              handler' \in [Clients -> Handler]
<1> DEFINE r == [pc |-> pc, session |-> handler[c].session, chan |-> ch]
<1>1. handler' = [handler EXCEPT ![c] = r]
  BY DEF Goes
<1>2. r.pc = pc /\ r.chan = ch /\ r.session = handler[c].session
  OBVIOUS
<1>3. ch \in Channels /\ pc \in {"idle", "replace", "subscribe", "store", "drain", "redraw",
                               "drop", "ended", "gone"} => r \in Handler
  BY DEF TypesInv, Handler
<1> HIDE DEF r
<1> QED BY <1>1, <1>2, <1>3, HandlerAt

LEMMA HeldAt ==
  ASSUME TypesInv, NEW c \in Clients, NEW s \in Sessions, NEW ch \in Channels,
         held' = [held EXCEPT ![c][s] = ch]
  PROVE  /\ held' \in [Clients -> [Sessions -> Channels]]
         /\ held'[c][s] = ch /\ \A t \in Sessions : t # s => held'[c][t] = held[c][t]
         /\ \A d \in Clients \ {c} : held'[d] = held[d]
  BY DEF TypesInv

LEMMA Nowhere ==
  ASSUME NEW i \in Nat \ {0}, NEW k
  PROVE  <<i, k>> # NoChannel
  BY DEF NoChannel

LEMMA SubscribeOutputStep ==
  ASSUME OutputInv, NEW c \in Clients, NEW s \in Sessions, SubscribeOutput(c, s)
  PROVE  OutputInv'
<1> USE DEF OutputInv
<1> DEFINE new == [pc |-> IF held[c][s] = NoChannel THEN "subscribe" ELSE "replace",
                   session |-> s, chan |-> held[c][s]]
<1>1. /\ handler[c].pc = "idle"
      /\ handler' = [handler EXCEPT ![c] = new]
      /\ held' = [held EXCEPT ![c][s] = NoChannel]
      /\ UNCHANGED <<tmuxVars, streams, current, conn, closer, stop>>
  BY DEF SubscribeOutput, CanHandle
<1>2. /\ new \in Handler /\ new.session = s /\ new.chan = held[c][s] /\ NoChannel \in Channels
      /\ new.pc = IF held[c][s] = NoChannel THEN "subscribe" ELSE "replace"
  BY DEF TypesInv, Handler, NoChannel, Channels
<1> HIDE DEF new
<1>3. /\ handler'[c] = new /\ \A d \in Clients \ {c} : handler'[d] = handler[d]
      /\ handler' \in [Clients -> Handler]
  BY <1>1, <1>2, HandlerAt
<1>4. /\ held' \in [Clients -> [Sessions -> Channels]]
      /\ held'[c][s] = NoChannel /\ \A t \in Sessions : t # s => held'[c][t] = held[c][t]
      /\ \A d \in Clients \ {c} : held'[d] = held[d]
  BY <1>1, <1>2, HeldAt
<1>5. HolderOf(c)'
  <2>1. HolderOf(c)
    BY DEF HolderInv
  <2>2. handler'[c].pc = "replace" => Owned(streams', c, handler'[c].chan, handler'[c].session)
    BY <1>1, <1>2, <1>3, <2>1 DEF HolderOf
  <2>3. \A t \in Sessions : held'[c][t] # NoChannel => Owned(streams', c, held'[c][t], t)
    BY <1>1, <1>4, <2>1 DEF HolderOf
  <2> QED BY <1>2, <1>3, <1>4, <2>2, <2>3 DEF HolderOf
<1>6. ASSUME NEW i \in Nat \ {0}, NEW k \in Nat \ {0}
      PROVE  Has(c, <<i, k>>)' <=> Has(c, <<i, k>>)
  <2>1. <<i, k>> # NoChannel
    BY Nowhere
  <2> DEFINE ch == <<i, k>>
  <2> HIDE DEF ch
  <2>2. Has(c, ch)' <=> Has(c, ch)
    BY <1>1, <1>2, <1>3, <1>4, <2>1 DEF Has, ch
  <2> QED BY <2>2 DEF ch
<1>7. GoneInv'
  BY <1>1, <1>2, <1>3, <1>4 DEF GoneInv
<1> QED BY <1>1, <1>3, <1>4, <1>5, <1>6, <1>7, Unchanged, OneClient DEF TypesInv

LEMMA UnsubscribeOutputStep ==
  ASSUME OutputInv, NEW c \in Clients, NEW s \in Sessions, UnsubscribeOutput(c, s)
  PROVE  OutputInv'
<1> USE DEF OutputInv
<1> DEFINE new == [pc |-> "drop", session |-> s, chan |-> held[c][s]]
<1>1. /\ handler[c].pc = "idle" /\ held[c][s] # NoChannel
      /\ handler' = [handler EXCEPT ![c] = new]
      /\ held' = [held EXCEPT ![c][s] = NoChannel]
      /\ UNCHANGED <<tmuxVars, streams, current, conn, closer, stop>>
  BY DEF UnsubscribeOutput, CanHandle
<1>2. /\ new \in Handler /\ new.session = s /\ new.chan = held[c][s] /\ NoChannel \in Channels
      /\ new.pc = "drop"
  BY DEF TypesInv, Handler, NoChannel, Channels
<1> HIDE DEF new
<1>3. /\ handler'[c] = new /\ \A d \in Clients \ {c} : handler'[d] = handler[d]
      /\ handler' \in [Clients -> Handler]
  BY <1>1, <1>2, HandlerAt
<1>4. /\ held' \in [Clients -> [Sessions -> Channels]]
      /\ held'[c][s] = NoChannel /\ \A t \in Sessions : t # s => held'[c][t] = held[c][t]
      /\ \A d \in Clients \ {c} : held'[d] = held[d]
  <2>1. held' = [held EXCEPT ![c][s] = NoChannel] /\ NoChannel \in Channels
    BY <1>1, <1>2
  <2> QED BY <2>1, HeldAt
<1>5. HolderOf(c)'
  <2>1. HolderOf(c)
    BY DEF HolderInv
  <2>2. Owned(streams', c, handler'[c].chan, handler'[c].session)
    BY <1>1, <1>2, <1>3, <2>1 DEF HolderOf
  <2>3. \A t \in Sessions : held'[c][t] # NoChannel => Owned(streams', c, held'[c][t], t)
    BY <1>1, <1>4, <2>1 DEF HolderOf
  <2> QED BY <1>2, <1>3, <1>4, <2>2, <2>3 DEF HolderOf
<1>6. ASSUME NEW i \in Nat \ {0}, NEW k \in Nat \ {0}
      PROVE  Has(c, <<i, k>>)' <=> Has(c, <<i, k>>)
  <2>1. <<i, k>> # NoChannel
    BY Nowhere
  <2> DEFINE ch == <<i, k>>
  <2> HIDE DEF ch
  <2>2. Has(c, ch)' <=> held[c][s] = ch \/ \E t \in Sessions : t # s /\ held[c][t] = ch
    BY <1>2, <1>3, <1>4, <2>1 DEF Has, ch
  <2>3. Has(c, ch) <=> \E t \in Sessions : held[c][t] = ch
    BY <1>1 DEF Has
  <2>4. Has(c, ch)' <=> Has(c, ch)
    BY <2>2, <2>3
  <2> QED BY <2>4 DEF ch
<1>7. GoneInv'
  BY <1>1, <1>2, <1>3, <1>4 DEF GoneInv
<1> QED BY <1>1, <1>3, <1>4, <1>5, <1>6, <1>7, Unchanged, OneClient DEF TypesInv

LEMMA StoreStep ==
  ASSUME OutputInv, NEW c \in Clients, Store(c)
  PROVE  OutputInv'
<1> USE DEF OutputInv
<1> DEFINE s == handler[c].session
           ch == handler[c].chan
<1>0. s \in Sessions /\ ch \in Channels
  BY DEF TypesInv, Handler
<1>1. /\ handler[c].pc = "store" /\ closer[c] = "no"
      /\ held' = [held EXCEPT ![c][s] = ch]
      /\ UNCHANGED <<tmuxVars, streams, current, conn, closer, stop>>
  BY DEF Store
<1>2. /\ handler'[c].pc = "drain" /\ handler'[c].session = s /\ handler'[c].chan = ch
      /\ \A d \in Clients \ {c} : handler'[d] = handler[d]
      /\ handler' \in [Clients -> Handler]
  BY <1>0, GoesFacts DEF Store
<1>3. HolderOf(c)
  BY DEF HolderInv
<1>4. held[c][s] = NoChannel /\ Owned(streams, c, ch, s)
  BY <1>1, <1>3 DEF HolderOf
<1> HIDE DEF s, ch
<1>5. /\ held' \in [Clients -> [Sessions -> Channels]]
      /\ held'[c][s] = ch /\ \A t \in Sessions : t # s => held'[c][t] = held[c][t]
      /\ \A d \in Clients \ {c} : held'[d] = held[d]
  BY <1>0, <1>1, HeldAt
<1>6. HolderOf(c)'
  BY <1>0, <1>1, <1>2, <1>3, <1>4, <1>5 DEF HolderOf
<1>7. ASSUME NEW i \in Nat \ {0}, NEW k \in Nat \ {0}
      PROVE  Has(c, <<i, k>>)' <=> Has(c, <<i, k>>)
  <2>1. <<i, k>> # NoChannel
    BY Nowhere
  <2> DEFINE x == <<i, k>>
  <2> HIDE DEF x
  <2>2. Has(c, x)' <=> x = ch \/ \E t \in Sessions : t # s /\ held[c][t] = x
    BY <1>0, <1>2, <1>5 DEF Has
  <2>3. Has(c, x) <=> x = ch \/ \E t \in Sessions : held[c][t] = x
    BY <1>1 DEF Has, ch
  <2>4. Has(c, x)' <=> Has(c, x)
    BY <1>4, <2>1, <2>2, <2>3 DEF x
  <2> QED BY <2>4 DEF x
<1>8. GoneInv'
  BY <1>1, <1>2, <1>5 DEF GoneInv
<1> QED BY <1>1, <1>2, <1>5, <1>6, <1>7, <1>8, Unchanged, OneClient DEF TypesInv

\* The steps of the handler and of the connection that only move on.
LEMMA MovesOn ==
  ASSUME OutputInv, NEW c \in Clients, handler[c].chan \in Made \/ UNCHANGED streams,
         Drain(c) \/ Redraw(c) \/ ReadEnds(c) \/ Disconnect(c) \/ ServerCloses(c)
  PROVE  OutputInv'
<1> USE DEF OutputInv
<1>1. DataOf(streams') /\ Alike(streams')
  BY DrainAlike, RedrawAlike, Unchanged DEF ReadEnds, Disconnect, ServerCloses
<1>2. /\ UNCHANGED <<tmuxVars, current, held, stop>>
      /\ \A d \in Clients \ {c} : handler'[d] = handler[d]
      /\ handler' \in [Clients -> Handler] /\ handler'[c].session = handler[c].session
      /\ handler'[c].chan = handler[c].chan \/ handler'[c].chan = NoChannel
      /\ conn' \in [Clients -> BOOLEAN] /\ closer' \in [Clients -> {"no", "server", "stop"}]
  <2>1. NoChannel \in Channels
    BY DEF NoChannel, Channels
  <2>2. handler[c].chan \in Channels
    BY DEF TypesInv, Handler
  <2>3. CASE Drain(c)
    BY <2>2, <2>3, GoesFacts DEF Drain, TypesInv
  <2>4. CASE Redraw(c)
    BY <2>1, <2>4, GoesFacts DEF Redraw, TypesInv
  <2>5. CASE ReadEnds(c)
    BY <2>1, <2>5, GoesFacts DEF ReadEnds, TypesInv
  <2>6. CASE Disconnect(c)
    BY <2>6 DEF Disconnect, TypesInv
  <2>7. CASE ServerCloses(c)
    BY <2>1, <2>7, GoesFacts DEF ServerCloses, TypesInv
  <2> QED BY <2>3, <2>4, <2>5, <2>6, <2>7
<1>3. \/ UNCHANGED handler
      \/ /\ handler[c].pc = "drain" /\ handler'[c].pc = "redraw"
         /\ handler'[c].chan = handler[c].chan
      \/ handler[c].pc \in {"idle", "ended", "redraw"} /\ handler'[c].pc \in {"idle", "ended", "gone"}
  BY GoesFacts DEF Drain, Redraw, ReadEnds, Disconnect, ServerCloses
<1>4. HolderOf(c)'
  <2>1. HolderOf(c) /\ handler[c].session \in Sessions
    BY DEF HolderInv, TypesInv, Handler
  <2>2. OwnedStays
    BY <1>1, KeptOwned DEF Alike
  <2>3. handler'[c].pc \in {"replace", "store", "drain", "redraw", "drop"} =>
          Owned(streams', c, handler'[c].chan, handler'[c].session)
    <3>1. \A ch : Owned(streams, c, ch, handler[c].session) => Owned(streams', c, ch, handler[c].session)
      BY <2>1, <2>2 DEF OwnedStays
    <3> QED BY <1>2, <1>3, <2>1, <3>1 DEF HolderOf
  <2>4. \A s \in Sessions : held'[c][s] # NoChannel => Owned(streams', c, held'[c][s], s)
    BY <1>2, <2>1, <2>2, Zenon DEF HolderOf, OwnedStays
  <2>5. handler'[c].pc \in {"replace", "subscribe", "store", "drop"} =>
          held'[c][handler'[c].session] = NoChannel
    BY <1>2, <1>3, <2>1 DEF HolderOf
  <2> QED BY <2>3, <2>4, <2>5 DEF HolderOf
<1>5. \A x : Has(c, x)' <=> Has(c, x)
  <2>1. /\ handler[c].pc \in {"replace", "store", "drop"} <=>
             handler'[c].pc \in {"replace", "store", "drop"}
        /\ handler'[c].pc \in {"replace", "store", "drop"} => handler'[c].chan = handler[c].chan
    BY <1>3
  <2>2. held' = held
    BY <1>2
  <2> QED BY <2>1, <2>2, Zenon DEF Has
<1>6. GoneInv'
  <2>1. ASSUME NEW d \in Clients, handler'[d].pc = "gone", closer'[d] = "no"
        PROVE  handler[d].pc = "gone" /\ closer[d] = "no"
    <3>1. CASE ServerCloses(c)
      <4>1. closer'[c] = "server" /\ \A e \in Clients \ {c} : closer'[e] = closer[e]
        BY <3>1 DEF ServerCloses, TypesInv
      <4>2. d # c
        BY <2>1, <4>1
      <4> QED BY <1>2, <2>1, <4>1, <4>2
    <3>2. CASE Drain(c) \/ Redraw(c) \/ ReadEnds(c) \/ Disconnect(c)
      <4>1. closer' = closer /\ (handler'[c].pc = "gone" => handler[c].pc = "gone")
        BY <3>2, GoesFacts DEF Drain, Redraw, ReadEnds, Disconnect
      <4> QED BY <1>2, <2>1, <4>1
    <3> QED BY <3>1, <3>2
  <2> QED BY <1>2, <2>1 DEF GoneInv
<1>7. /\ \A d \in Clients \ {c} : handler'[d] = handler[d] /\ held'[d] = held[d]
      /\ held' \in [Clients -> [Sessions -> Channels]]
  BY <1>2 DEF TypesInv
<1>8. \A i, k \in Nat \ {0} : Has(c, <<i, k>>)' <=> Has(c, <<i, k>>)
  BY <1>5, Zenon
<1> QED BY <1>1, <1>2, <1>4, <1>6, <1>7, <1>8, OneClient

LEMMA SubscribePipeStep ==
  ASSUME OutputInv, NEW c \in Clients, SubscribePipe(c)
  PROVE  OutputInv'
<1> USE DEF OutputInv
<1> DEFINE s == handler[c].session
<1>0. /\ s \in Sessions /\ handler[c].pc = "subscribe" /\ Subscribe(c, s)
      /\ UNCHANGED <<panes, changes, held, conn, closer, stop>>
  BY DEF TypesInv, Handler, SubscribePipe
<1>1. RecordInv' /\ PipeInv' /\ DataInv'
  BY <1>0, SubscribeRecord
<1>2. Len(streams) \in Nat /\ current[s] \in 0..Len(streams)
      /\ Len(streams') \in Nat
  BY <1>0, <1>1, StreamTypes DEF TypesInv, DataInv, DataOf
<1>3. HolderOf(c) /\ held[c][s] = NoChannel
  BY <1>0 DEF HolderInv, HolderOf
\* Either c has a new subscription in hand, or at most the pipe has changed.
<1>4. \/ \E ch : /\ Grown(ch, c, s) /\ ch \in Channels
                 /\ Goes(c, "store", ch)
                 /\ current' \in [Sessions -> 0..Len(streams')]
                 /\ pipe' \in [Sessions -> -1..Len(streams')] /\ astray' \subseteq Sessions
      \/ /\ UNCHANGED <<streams, current>>
         /\ pipe' \in [Sessions -> -1..Len(streams')] /\ astray' \subseteq Sessions
         /\ Goes(c, "idle", NoChannel)
  <2>1. CASE current[s] # 0
    <3> DEFINE ch == <<current[s], Len(streams[current[s]].subs) + 1>>
    <3>1. /\ streams' = Joined(c, s) /\ UNCHANGED <<pipe, astray, current>>
          /\ Goes(c, "store", ch)
      BY <1>0, <2>1 DEF Subscribe
    <3>2. streams[current[s]].session = s /\ streams[current[s]].live /\ current[s] \in 1..Len(streams)
      BY <1>0, <1>2, <2>1 DEF RecordInv
    <3>3. Grown(ch, c, s) /\ Len(streams') = Len(streams)
      BY <1>0, <3>1, <3>2, JoinedFacts
    <3>4. ch \in Channels
      BY <1>2, <3>2, StreamTypes DEF Channels
    <3>5. /\ current' \in [Sessions -> 0..Len(streams')] /\ pipe' \in [Sessions -> -1..Len(streams')]
          /\ astray' \subseteq Sessions
      BY <3>1, <3>3 DEF TypesInv
    <3> HIDE DEF ch
    <3> QED BY <3>1, <3>3, <3>4, <3>5
  <2>2. CASE /\ streams' = Started(c, s) /\ current' = [current EXCEPT ![s] = Len(streams) + 1]
             /\ StartedPipe(s, TRUE) /\ Goes(c, "store", <<Len(streams) + 1, 1>>)
             /\ current[s] = 0
    <3> DEFINE ch == <<Len(streams) + 1, 1>>
    <3>1. Goes(c, "store", ch)
      BY <2>2
    <3>2. Grown(ch, c, s) /\ Len(streams') = Len(streams) + 1
      BY <1>0, <2>2, StartedFacts
    <3>3. ch \in Channels
      BY <1>2 DEF Channels
    <3>4. current' \in [Sessions -> 0..Len(streams')]
      <4>1. \A t \in Sessions : current[t] \in 0..Len(streams')
        BY <1>2, <3>2 DEF TypesInv
      <4>2. Len(streams) + 1 \in 0..Len(streams')
        BY <1>2, <3>2
      <4>3. DOMAIN current = Sessions /\ current = [t \in Sessions |-> current[t]]
        BY DEF TypesInv
      <4> QED BY <2>2, <4>1, <4>2, <4>3
    <3>5. pipe' \in [Sessions -> -1..Len(streams')] /\ astray' \subseteq Sessions
      BY <1>0, <1>2, <2>2, <3>2, StartedTyped
    <3> HIDE DEF ch
    <3> QED BY <3>1, <3>2, <3>3, <3>4, <3>5
  <2>3. CASE /\ UNCHANGED <<streams, current>>
             /\ StartedPipe(s, FALSE) /\ Goes(c, "idle", NoChannel)
    <3>1. pipe' \in [Sessions -> -1..Len(streams')] /\ astray' \subseteq Sessions
      BY <1>0, <1>2, <2>3, StartedTyped
    <3> QED BY <2>3, <3>1
  <2> QED BY <1>0, <2>1, <2>2, <2>3, SubscribeStarts
<1>5. CASE /\ UNCHANGED <<streams, current>>
           /\ pipe' \in [Sessions -> -1..Len(streams')] /\ astray' \subseteq Sessions
           /\ Goes(c, "idle", NoChannel)
  <2>1. /\ handler'[c].pc = "idle" /\ \A d \in Clients \ {c} : handler'[d] = handler[d]
        /\ handler' \in [Clients -> Handler]
    <3>1. NoChannel \in Channels
      BY DEF NoChannel, Channels
    <3> QED BY <1>5, <3>1, GoesFacts
  <2>2. HolderOf(c)'
    BY <1>0, <1>3, <1>5, <2>1 DEF HolderOf
  <2>3. \A x : Has(c, x)' <=> Has(c, x)
    BY <1>0, <2>1 DEF Has
  <2>4. GoneInv'
    BY <1>0, <2>1 DEF GoneInv
  <2>5. DataOf(streams') /\ Alike(streams')
    BY <1>5, Unchanged
  <2>6. TypesInv'
    BY <1>0, <1>5, <2>1 DEF TypesInv
  <2>7. stop' = stop /\ \A d \in Clients \ {c} : handler'[d] = handler[d] /\ held'[d] = held[d]
    BY <1>0, <2>1
  <2>8. \A i, k \in Nat \ {0} : Has(c, <<i, k>>)' <=> Has(c, <<i, k>>)
    BY <2>3, Zenon
  <2> QED BY <1>1, <2>2, <2>4, <2>5, <2>6, <2>7, <2>8, SameSubscriptions
<1>6. ASSUME NEW ch, Grown(ch, c, s), ch \in Channels,
             Goes(c, "store", ch),
             current' \in [Sessions -> 0..Len(streams')],
             pipe' \in [Sessions -> -1..Len(streams')], astray' \subseteq Sessions
      PROVE  OutputInv'
  <2>1. /\ handler'[c].pc = "store" /\ handler'[c].chan = ch /\ handler'[c].session = s
        /\ \A d \in Clients \ {c} : handler'[d] = handler[d]
        /\ handler' \in [Clients -> Handler]
    BY <1>6, GoesFacts
  <2>2. held' = held
    BY <1>0
  <2>3. OwnedStays /\ Owned(streams', c, ch, s) /\ DataOf(streams')
    BY <1>1, <1>6, GrownOwned DEF DataInv
  <2>4. HolderInv'
    <3>1. HolderOf(c)'
      <4>1. \A t \in Sessions : held'[c][t] # NoChannel => Owned(streams', c, held'[c][t], t)
        BY <1>3, <2>2, <2>3, Zenon DEF HolderOf, OwnedStays
      <4>2. Owned(streams', c, handler'[c].chan, handler'[c].session)
        BY <2>1, <2>3
      <4>3. held'[c][handler'[c].session] = NoChannel
        BY <1>3, <2>1, <2>2
      <4> QED BY <4>1, <4>2, <4>3 DEF HolderOf
    <3>2. {c} \in SUBSET Clients
      OBVIOUS
    <3>3. \A d \in Clients \ {c} : handler'[d] = handler[d] /\ held'[d] = held[d]
      BY <2>1, <2>2
    <3> HIDE DEF s
    <3> QED BY <2>3, <3>1, <3>2, <3>3, HolderStep, Zenon
  <2>5. HeldInv'
    <3> SUFFICES ASSUME NEW d \in Clients, NEW i \in 1..Len(streams'),
                        NEW k \in 1..Len(streams'[i].subs), streams'[i].subs[k].client = d
                 PROVE  /\ streams'[i].subs[k].open => Has(d, <<i, k>>)'
                        /\ Holding' /\ Has(d, <<i, k>>)' => streams'[i].subs[k].open
      BY Zenon DEF HeldInv
    <3>1. CASE <<i, k>> = ch
      <4>1. i = ch[1] /\ k = ch[2]
        BY <3>1
      <4>2. streams'[i].subs[k].open /\ d = c
        <5>1. streams'[ch[1]].subs[ch[2]].client = c /\ streams'[ch[1]].subs[ch[2]].open
          BY <1>6, Zenon DEF Grown
        <5> QED BY <4>1, <5>1
      <4>3. Has(d, <<i, k>>)'
        BY <2>1, <3>1, <4>2 DEF Has
      <4> QED BY <4>2, <4>3
    <3>2. CASE <<i, k>> # ch
      <4>1. i \in 1..Len(streams) /\ k \in 1..Len(streams[i].subs)
        BY <1>6, <3>2, Zenon DEF Grown
      <4>2. streams'[i].subs[k] = streams[i].subs[k]
        <5>1. \A j \in 1..Len(streams) : \A m \in 1..Len(streams[j].subs) :
                streams'[j].subs[m] = streams[j].subs[m]
          BY <1>6, Zenon DEF Grown
        <5> QED BY <4>1, <5>1
      <4>3. Has(d, <<i, k>>)' <=> Has(d, <<i, k>>)
        <5>1. CASE d = c
          BY <1>0, <2>1, <2>2, <3>2, <5>1 DEF Has
        <5>2. CASE d # c
          BY <2>1, <2>2, <5>2 DEF Has
        <5> QED BY <5>1, <5>2
      <4>4. Holding' <=> Holding
        BY <1>0 DEF Holding
      <4>5. /\ streams[i].subs[k].open => Has(d, <<i, k>>)
            /\ Holding /\ Has(d, <<i, k>>) => streams[i].subs[k].open
        BY <4>1, <4>2, Zenon DEF HeldInv
      <4> QED BY <4>2, <4>3, <4>4, <4>5, Zenon
    <3> QED BY <3>1, <3>2
  <2>6. GoneInv'
    BY <1>0, <2>1 DEF GoneInv
  <2>7. TypesInv'
    BY <1>0, <1>6, <2>1 DEF TypesInv
  <2> QED BY <1>1, <2>4, <2>5, <2>6, <2>7
<1> QED BY <1>4, <1>5, <1>6

\* What a step that gives a subscription back does to the rest.
LEMMA GivesBack ==
  ASSUME OutputInv, NEW c \in Clients, NEW s \in Sessions, NEW ch,
         Owned(streams, c, ch, s), Has(c, ch), Unsubscribe(s, ch[2]),
         UNCHANGED <<panes, changes, conn, closer, stop>>,
         \A d \in Clients \ {c} : handler'[d] = handler[d] /\ held'[d] = held[d],
         handler' \in [Clients -> Handler], held' \in [Clients -> [Sessions -> Channels]],
         HolderOf(c) /\ OwnedStays => HolderOf(c)',
         \A i, k \in Nat \ {0} : Has(c, <<i, k>>)' <=> Has(c, <<i, k>>) /\ <<i, k>> # ch,
         GoneInv'
  PROVE  OutputInv'
<1> USE DEF OutputInv
<1>0. current[s] \in 0..Len(streams) /\ Len(streams) \in Nat
  BY StreamTypes DEF TypesInv
<1>1. RecordInv' /\ PipeInv'
  BY UnsubscribeRecord
<1>2. DataOf(streams') /\ Kept(streams')
  BY <1>0, UnsubscribeFacts
<1>3. HolderInv'
  <2>1. OwnedStays
    BY <1>2, KeptOwned
  <2>2. {c} \in SUBSET Clients
    OBVIOUS
  <2>3. HolderOf(c)'
    BY <2>1 DEF HolderInv
  <2> QED BY <2>1, <2>2, <2>3, HolderStep
<1>4. HeldInv'
  <2>1. \A d \in Clients \ {c} : \A x : Has(d, x)' <=> Has(d, x)
    BY Zenon DEF Has
  <2>2. Holding' <=> Holding
    BY DEF Holding
  <2> QED BY <2>1, <2>2, GivenBack
<1>5. TypesInv'
  <2>1. /\ current' \in [Sessions -> 0..Len(streams)] /\ pipe' \in [Sessions -> -1..Len(streams)]
        /\ astray' \subseteq Sessions
    <3>1. CASE UNCHANGED <<current, pipe, astray>>
      BY <3>1 DEF TypesInv
    <3>2. CASE current' = [current EXCEPT ![s] = 0] /\ PipesOf({s})
      <4>1. {s} \in SUBSET Sessions /\ pipe \in [Sessions -> -1..Len(streams)] /\ astray \subseteq Sessions
        BY DEF TypesInv
      <4>2. pipe' \in [Sessions -> -1..Len(streams)] /\ astray' \subseteq Sessions
        BY <1>0, <3>2, <4>1, PipesTyped
      <4>3. current' \in [Sessions -> 0..Len(streams)]
        BY <1>0, <3>2 DEF TypesInv
      <4> QED BY <4>2, <4>3
    <3>3. UNCHANGED <<current, pipe, astray>> \/ (current' = [current EXCEPT ![s] = 0] /\ PipesOf({s}))
      BY <1>0, UnsubscribeFacts DEF UnsubscribeGone, UnsubscribeStays
    <3> QED BY <3>1, <3>2, <3>3
  <2>2. Len(streams') = Len(streams)
    BY <1>2 DEF Kept
  <2> QED BY <2>1, <2>2 DEF TypesInv
<1> QED BY <1>1, <1>2, <1>3, <1>4, <1>5 DEF DataInv

LEMMA ReleaseStep ==
  ASSUME OutputInv, NEW c \in Clients, Release(c)
  PROVE  OutputInv'
<1> USE DEF OutputInv
<1> DEFINE s == handler[c].session
           ch == handler[c].chan
           to == IF handler[c].pc = "replace" THEN "subscribe" ELSE "idle"
<1>0. /\ handler[c].pc \in {"replace", "drop"} /\ Unsubscribe(s, ch[2])
      /\ UNCHANGED <<panes, changes, held, conn, closer, stop>>
      /\ s \in Sessions /\ NoChannel \in Channels
  BY DEF Release, TypesInv, Handler, NoChannel, Channels
<1>1. /\ handler'[c].pc = to /\ handler'[c].session = s
      /\ \A d \in Clients \ {c} : handler'[d] = handler[d]
      /\ handler' \in [Clients -> Handler]
  BY <1>0, GoesFacts DEF Release
<1>2. HolderOf(c) /\ Owned(streams, c, ch, s) /\ held[c][s] = NoChannel
  BY <1>0 DEF HolderInv, HolderOf
<1>3. Has(c, ch)
  BY <1>0 DEF Has
<1>4. ASSUME HolderOf(c), OwnedStays
      PROVE  HolderOf(c)'
  <2>1. \A t \in Sessions : held'[c][t] # NoChannel => Owned(streams', c, held'[c][t], t)
    BY <1>0, <1>4, Zenon DEF HolderOf, OwnedStays
  <2> QED BY <1>0, <1>1, <1>2, <2>1 DEF HolderOf
<1>5. ASSUME NEW i \in Nat \ {0}, NEW k \in Nat \ {0}
      PROVE  Has(c, <<i, k>>)' <=> Has(c, <<i, k>>) /\ <<i, k>> # ch
  <2>1. <<i, k>> # NoChannel
    BY Nowhere
  <2> DEFINE x == <<i, k>>
  <2> HIDE DEF x
  <2>2. \A t \in Sessions : held[c][t] # ch
    <3> SUFFICES ASSUME NEW t \in Sessions, held[c][t] = ch
                 PROVE  FALSE
      OBVIOUS
    <3>1. ch # NoChannel
      BY <1>2 DEF Owned, NoChannel
    <3>2. Owned(streams, c, ch, t)
      BY <1>2, <3>1 DEF HolderOf
    <3>3. t = s
      BY <1>2, <3>2 DEF Owned
    <3> QED BY <1>2, <3>1, <3>3
  <2>3. Has(c, x)' <=> \E t \in Sessions : held[c][t] = x
    BY <1>0, <1>1 DEF Has
  <2>4. Has(c, x) <=> x = ch \/ \E t \in Sessions : held[c][t] = x
    BY <1>0 DEF Has
  <2>5. Has(c, x)' <=> Has(c, x) /\ x # ch
    BY <2>2, <2>3, <2>4
  <2> QED BY <2>5 DEF x
<1>6. GoneInv'
  BY <1>0, <1>1 DEF GoneInv
<1>7. /\ \A d \in Clients \ {c} : handler'[d] = handler[d] /\ held'[d] = held[d]
      /\ held' \in [Clients -> [Sessions -> Channels]]
  BY <1>0, <1>1 DEF TypesInv
<1> HIDE DEF s, ch, to
<1> QED BY <1>0, <1>1, <1>2, <1>3, <1>4, <1>5, <1>6, <1>7, GivesBack

LEMMA CloseOneStep ==
  ASSUME OutputInv, NEW c \in Clients, NEW s \in Sessions, CloseOne(c, s)
  PROVE  OutputInv'
<1> USE DEF OutputInv
<1> DEFINE ch == held[c][s]
<1>0. /\ ch # NoChannel /\ closer[c] # "no" /\ Unsubscribe(s, ch[2])
      /\ held' = [held EXCEPT ![c][s] = NoChannel]
      /\ UNCHANGED <<panes, changes, handler, conn, closer, stop>>
      /\ NoChannel \in Channels
  BY DEF CloseOne, NoChannel, Channels
<1>1. /\ held' \in [Clients -> [Sessions -> Channels]]
      /\ held'[c][s] = NoChannel /\ \A t \in Sessions : t # s => held'[c][t] = held[c][t]
      /\ \A d \in Clients \ {c} : held'[d] = held[d]
  <2>1. held' = [held EXCEPT ![c][s] = NoChannel] /\ NoChannel \in Channels
    BY <1>0
  <2> QED BY <2>1, HeldAt
<1>2. HolderOf(c) /\ Owned(streams, c, ch, s)
  BY <1>0 DEF HolderInv, HolderOf
<1>3. Has(c, ch)
  BY DEF Has
<1>4. ASSUME HolderOf(c), OwnedStays
      PROVE  HolderOf(c)'
  <2>1. \A t \in Sessions : held'[c][t] # NoChannel => Owned(streams', c, held'[c][t], t)
    <3>1. \A t \in Sessions : held'[c][t] # NoChannel => held'[c][t] = held[c][t]
      BY <1>1
    <3>2. \A t \in Sessions : held[c][t] # NoChannel => Owned(streams', c, held[c][t], t)
      BY <1>4, Zenon DEF HolderOf, OwnedStays
    <3> QED BY <3>1, <3>2
  <2>2. handler'[c] = handler[c] /\ handler[c].session \in Sessions
    BY <1>0 DEF TypesInv, Handler
  <2>3. handler'[c].pc \in {"replace", "store", "drain", "redraw", "drop"} =>
          Owned(streams', c, handler'[c].chan, handler'[c].session)
    BY <1>4, <2>2, Zenon DEF HolderOf, OwnedStays
  <2>4. handler'[c].pc \in {"replace", "subscribe", "store", "drop"} =>
          held'[c][handler'[c].session] = NoChannel
    BY <1>1, <1>4, <2>2 DEF HolderOf
  <2> QED BY <2>1, <2>3, <2>4 DEF HolderOf
<1>5. ASSUME NEW i \in Nat \ {0}, NEW k \in Nat \ {0}
      PROVE  Has(c, <<i, k>>)' <=> Has(c, <<i, k>>) /\ <<i, k>> # ch
  <2>1. <<i, k>> # NoChannel
    BY Nowhere
  <2> DEFINE x == <<i, k>>
             InHandOf == handler[c].pc \in {"replace", "store", "drop"} /\ handler[c].chan = x
  <2> HIDE DEF x
  <2>2. \A t \in Sessions : t # s => held[c][t] # ch
    <3> SUFFICES ASSUME NEW t \in Sessions, held[c][t] = ch
                 PROVE  t = s
      OBVIOUS
    <3>1. Owned(streams, c, ch, t)
      BY <1>0, <1>2 DEF HolderOf
    <3> QED BY <1>2, <3>1 DEF Owned
  <2>3. handler[c].pc \in {"replace", "store", "drop"} => handler[c].chan # ch
    <3> SUFFICES ASSUME handler[c].pc \in {"replace", "store", "drop"}, handler[c].chan = ch
                 PROVE  FALSE
      OBVIOUS
    <3>1. Owned(streams, c, ch, handler[c].session) /\ held[c][handler[c].session] = NoChannel
      BY <1>2 DEF HolderOf
    <3>2. handler[c].session = s
      BY <1>2, <3>1 DEF Owned
    <3> QED BY <1>0, <3>1, <3>2
  <2>4. Has(c, x)' <=> InHandOf \/ \E t \in Sessions : t # s /\ held[c][t] = x
    BY <1>0, <1>1, <2>1 DEF Has, x
  <2>5. Has(c, x) <=> InHandOf \/ x = ch \/ \E t \in Sessions : t # s /\ held[c][t] = x
    BY DEF Has
  <2>6. Has(c, x)' <=> Has(c, x) /\ x # ch
    BY <2>2, <2>3, <2>4, <2>5
  <2> QED BY <2>6 DEF x
<1>6. GoneInv'
  BY <1>0, <1>1 DEF GoneInv
<1>7. /\ \A d \in Clients \ {c} : handler'[d] = handler[d] /\ held'[d] = held[d]
      /\ handler' \in [Clients -> Handler]
  BY <1>0, <1>1 DEF TypesInv
<1> HIDE DEF ch
<1> QED BY <1>0, <1>1, <1>2, <1>3, <1>4, <1>5, <1>6, <1>7, GivesBack

\* The steps of Close and of Stop that leave the streams and the subscriptions.
LEMMA CloseSteps ==
  ASSUME OutputInv,
         (\E c \in Clients : CloseEnds(c) \/ StopCloses(c)) \/ StopBegins \/ StopEnds
  PROVE  OutputInv'
<1> USE DEF OutputInv
<1>1. /\ UNCHANGED <<tmuxVars, streams, current, held, handler>>
      /\ stop.pc = "closed" => stop'.pc = "closed"
      /\ Holding' => Holding
      /\ conn' \in [Clients -> BOOLEAN] /\ closer' \in [Clients -> {"no", "server", "stop"}]
      /\ stop' \in [pc : {"running", "closing", "stopped", "closed"}, todo : SUBSET Clients]
  <2>1. ASSUME NEW c \in Clients, CloseEnds(c)
        PROVE  <1>1
    BY <2>1 DEF CloseEnds, TypesInv, Holding
  <2>2. ASSUME NEW c \in Clients, StopCloses(c)
        PROVE  <1>1
    BY <2>2 DEF StopCloses, TypesInv, Holding
  <2>3. CASE StopBegins
    BY <2>3 DEF StopBegins, TypesInv, Holding, clientVars
  <2>4. CASE StopEnds
    BY <2>4 DEF StopEnds, TypesInv, Holding, clientVars
  <2> QED BY <2>1, <2>2, <2>3, <2>4
<1>2. DataOf(streams') /\ Alike(streams')
  BY <1>1, Unchanged
<1>3. RecordInv' /\ PipeInv'
  BY <1>1, <1>2, AlikeRecord, AlikePipe DEF tmuxVars
<1>4. HolderInv'
  BY <1>1 DEF HolderInv, HolderOf
<1>5. HeldInv'
  BY <1>1, <1>2, SameHeld DEF Has
<1>6. GoneInv'
  <2>1. ASSUME NEW c \in Clients, CloseEnds(c)
        PROVE  GoneInv'
    <3>1. /\ \A d \in Clients \ {c} : closer'[d] = closer[d]
          /\ \A s \in Sessions : held[c][s] = NoChannel
      BY <2>1 DEF CloseEnds, TypesInv
    <3> QED BY <1>1, <3>1 DEF GoneInv
  <2>2. ASSUME NEW c \in Clients, StopCloses(c)
        PROVE  GoneInv'
    <3>1. closer'[c] = "stop" /\ \A d \in Clients \ {c} : closer'[d] = closer[d]
      BY <2>2 DEF StopCloses, TypesInv
    <3> QED BY <1>1, <3>1 DEF GoneInv
  <2>3. CASE StopBegins \/ StopEnds
    <3>1. closer' = closer
      BY <2>3 DEF StopBegins, StopEnds, clientVars
    <3> QED BY <1>1, <3>1 DEF GoneInv
  <2> QED BY <2>1, <2>2, <2>3
<1>7. TypesInv'
  BY <1>1 DEF TypesInv, tmuxVars
<1> QED BY <1>2, <1>3, <1>4, <1>5, <1>6, <1>7 DEF DataInv

LEMMA StopAllStep ==
  ASSUME OutputInv, StopAll
  PROVE  OutputInv'
<1> USE DEF OutputInv
<1>1. /\ DataOf(streams') /\ Kept(streams')
      /\ \A i \in 1..Len(streams) :
           IF i = current[streams[i].session]
           THEN ~streams'[i].live /\ \A k \in 1..Len(streams[i].subs) : ~streams'[i].subs[k].open
           ELSE streams'[i] = streams[i]
  BY StopAllFacts
<1>2. /\ UNCHANGED <<panes, changes, held, handler, conn, closer>>
      /\ stop' = [stop EXCEPT !.pc = "stopped"]
      /\ current' = [s \in Sessions |-> 0]
      /\ PipesOf({s \in Sessions : current[s] # 0})
  BY PipesClosedFacts DEF StopAll, clientVars
<1>3. RecordInv' /\ PipeInv'
  BY StopAllRecord
<1>4. HolderInv'
  <2>1. OwnedStays
    BY <1>1, KeptOwned
  <2>2. {} \in SUBSET Clients
    OBVIOUS
  <2>3. \A d \in Clients : handler'[d] = handler[d] /\ held'[d] = held[d]
    BY <1>2
  <2> QED BY <2>1, <2>2, <2>3, HolderStep
<1>5. HeldInv'
  <2> SUFFICES ASSUME NEW c \in Clients, NEW i \in 1..Len(streams'),
                      NEW k \in 1..Len(streams'[i].subs), streams'[i].subs[k].client = c
               PROVE  /\ streams'[i].subs[k].open => Has(c, <<i, k>>)'
                      /\ Holding' /\ Has(c, <<i, k>>)' => streams'[i].subs[k].open
    BY Zenon DEF HeldInv
  <2>1. i \in 1..Len(streams) /\ k \in 1..Len(streams[i].subs) /\ streams[i].subs[k].client = c
    BY <1>1, Zenon DEF Kept
  <2>2. ~Holding'
    BY <1>2 DEF Holding, TypesInv
  <2>3. streams'[i].subs[k].open => streams[i].subs[k].open
    BY <1>1, <2>1, Zenon
  <2>4. Has(c, <<i, k>>)' <=> Has(c, <<i, k>>)
    BY <1>2 DEF Has
  <2> QED BY <2>1, <2>2, <2>3, <2>4, Zenon DEF HeldInv
<1>6. GoneInv'
  BY <1>2 DEF GoneInv
<1>7. TypesInv'
  <2>1. Len(streams') = Len(streams) /\ Len(streams) \in Nat
    BY <1>1, StreamTypes DEF Kept
  <2>2. current' \in [Sessions -> 0..Len(streams)]
    BY <1>2, <2>1 DEF TypesInv
  <2>3. pipe' \in [Sessions -> -1..Len(streams)] /\ astray' \subseteq Sessions
    <3>1. {s \in Sessions : current[s] # 0} \in SUBSET Sessions
      OBVIOUS
    <3> QED BY <1>2, <2>1, <3>1, PipesTyped DEF TypesInv
  <2> QED BY <1>2, <2>1, <2>2, <2>3 DEF TypesInv
<1> QED BY <1>1, <1>3, <1>4, <1>5, <1>6, <1>7 DEF DataInv

----------------------------------------------------------------------------
(* The theorems. *)

LEMMA InitInv ==
  ASSUME Init
  PROVE  OutputInv
<1>1. streams = <<>> /\ Len(streams) = 0
  BY Empty DEF Init
<1>2. DataInv
  BY <1>1, Empty DEF DataInv, DataOf
<1>3. (CHOOSE s \in Sessions : TRUE) \in Sessions
  BY OutputAssumption
<1>4. TypesInv
  <2>1. NoChannel \in Channels
    BY DEF NoChannel, Channels
  <2>2. [pc |-> "idle", session |-> CHOOSE s \in Sessions : TRUE, chan |-> NoChannel] \in Handler
    BY <1>3, <2>1 DEF Handler
  <2>3. handler \in [Clients -> Handler] /\ held \in [Clients -> [Sessions -> Channels]]
    BY <2>1, <2>2, Zenon DEF Init
  <2>4. /\ pipe \in [Sessions -> -1..0] /\ current \in [Sessions -> 0..0] /\ changes \in 0..MaxChanges
        /\ astray \subseteq Sessions
    BY OutputAssumption DEF Init
  <2> QED BY <1>1, <2>3, <2>4 DEF Init, TypesInv
<1>5. RecordInv /\ PipeInv
  BY <1>1, OutputAssumption DEF RecordInv, PipeInv, Init
<1>6. HolderInv /\ GoneInv
  BY DEF HolderInv, HolderOf, GoneInv, Init
<1>7. HeldInv
  BY <1>1 DEF HeldInv
<1> QED BY <1>2, <1>4, <1>5, <1>6, <1>7 DEF OutputInv

LEMMA StepInv ==
  ASSUME OutputInv, [OutputNext]_vars
  PROVE  OutputInv'
<1>1. CASE \/ \E s \in Sessions : Pane(s)
           \/ \E i \in DOMAIN streams : TailFile(i)
           \/ \E ch \in Made : Forward(ch)
  BY <1>1, OutsideStep
<1>2. ASSUME NEW c \in Clients, Requests(c)
      PROVE  OutputInv'
  BY <1>2, SubscribeOutputStep, UnsubscribeOutputStep DEF Requests
<1>3. ASSUME NEW c \in Clients, Handling(c) \/ Disconnect(c) \/ ServerCloses(c)
      PROVE  OutputInv'
  <2>1. CASE Release(c) \/ SubscribePipe(c) \/ Store(c)
    BY <2>1, ReleaseStep, SubscribePipeStep, StoreStep
  <2>2. CASE Drain(c) \/ Redraw(c)
    <3>1. HolderOf(c) /\ handler[c].pc \in {"drain", "redraw"}
      BY <2>2 DEF OutputInv, HolderInv, Drain, Redraw
    <3>2. Owned(streams, c, handler[c].chan, handler[c].session)
      BY <3>1 DEF HolderOf
    <3>3. handler[c].chan \in Made
      <4> DEFINE ch == handler[c].chan
      <4> HIDE DEF ch
      <4>1. ch = <<ch[1], ch[2]>> /\ <<ch[1], ch[2]>> \in Made
        BY <3>2, MadeFacts DEF Owned, OutputInv, ch
      <4>2. ch \in Made
        BY <4>1, Zenon
      <4> QED BY <4>2 DEF ch
    <3> QED BY <2>2, <3>3, MovesOn
  <2>3. CASE ReadEnds(c) \/ Disconnect(c) \/ ServerCloses(c)
    <3>1. UNCHANGED streams
      BY <2>3 DEF ReadEnds, Disconnect, ServerCloses
    <3> QED BY <2>3, <3>1, MovesOn
  <2> QED BY <1>3, <2>1, <2>2, <2>3 DEF Handling
<1>4. ASSUME NEW c \in Clients, Closing(c)
      PROVE  OutputInv'
  BY <1>4, CloseOneStep, CloseSteps DEF Closing
<1>5. CASE Stopping
  BY <1>5, CloseSteps, StopAllStep DEF Stopping
<1>6. CASE UNCHANGED vars
  <2>1. UNCHANGED <<tmuxVars, streams, current, held, handler, conn, closer, stop>>
    BY <1>6 DEF vars, clientVars
  <2>2. DataOf(streams') /\ Alike(streams')
    BY <2>1, Unchanged DEF OutputInv
  <2>3. RecordInv' /\ PipeInv'
    BY <2>1, <2>2, AlikeRecord, AlikePipe DEF OutputInv, tmuxVars
  <2>4. HolderInv' /\ HeldInv' /\ GoneInv'
    BY <2>1, <2>2, ClientsStay DEF OutputInv, ClientsInv, clientVars, Holding
  <2>5. TypesInv'
    BY <2>1 DEF OutputInv, TypesInv, tmuxVars
  <2> QED BY <2>2, <2>3, <2>4, <2>5 DEF OutputInv, DataInv
<1> QED BY <1>1, <1>2, <1>3, <1>4, <1>5, <1>6 DEF OutputNext

\* Everything above holds of every state: what the other theorems rest on.
THEOREM OutputInvariant == OutputSpec => []OutputInv
<1>1. Init => OutputInv
  BY InitInv
<1>2. OutputInv /\ [OutputNext]_vars => OutputInv'
  BY StepInv
<1> QED BY <1>1, <1>2, PTL DEF OutputSpec

LEMMA Domains ==
  ASSUME DataInv
  PROVE  /\ DOMAIN streams = 1..Len(streams)
         /\ \A i \in 1..Len(streams) : DOMAIN streams[i].subs = 1..Len(streams[i].subs)
<1>1. \A i \in 1..Len(streams) : streams[i] \in Stream
  BY DEF DataInv, DataOf
<1>2. \A i \in 1..Len(streams) : streams[i].subs \in Seq(Subscriber)
  BY <1>1 DEF Stream
<1> QED BY <1>2 DEF DataInv, DataOf

\* Types, for any clients and sessions; a channel never holds more than its
\* capacity, and what a client has on its map is a subscription that was made.
THEOREM OutputTypeCorrect == OutputSpec => []OutputTypeOK
<1>1. ASSUME OutputInv PROVE OutputTypeOK
  <2> USE <1>1 DEF OutputInv
  <2>1. \A i \in DOMAIN streams :
          /\ streams[i] \in Stream
          /\ streams[i].flushed <= streams[i].size
          /\ \A k \in DOMAIN streams[i].subs : Len(streams[i].subs[k].ch) <= ChanCap
    BY Domains DEF DataInv, DataOf, StreamData, SubData
  <2>2. held \in [Clients -> [Sessions -> Made \cup {NoChannel}]]
    <3>1. ASSUME NEW c \in Clients, NEW s \in Sessions, held[c][s] # NoChannel
          PROVE  held[c][s] \in Made
      <4> DEFINE ch == held[c][s]
      <4>1. Owned(streams, c, ch, s)
        BY <3>1 DEF HolderInv, HolderOf
      <4> HIDE DEF ch
      <4>2. ch = <<ch[1], ch[2]>> /\ <<ch[1], ch[2]>> \in Made
        BY <4>1, MadeFacts DEF Owned
      <4>3. ch \in Made
        BY <4>2, Zenon
      <4> QED BY <4>3 DEF ch
    <3>2. held \in [Clients -> [Sessions -> Channels]]
      BY DEF TypesInv
    <3> QED BY <3>1, <3>2
  <2> QED BY <2>1, <2>2 DEF OutputTypeOK, TypesInv
<1> QED BY <1>1, OutputInvariant, PTL

\* The bytes of a pane reach each of its subscribers in order and at most once,
\* and all of them unless its channel was full: tailFile and the goroutines that
\* read the channels, with drain and redraw, for any capacity.
THEOREM DeliveredOnceHolds == OutputSpec => []DeliveredOnce
<1>1. ASSUME OutputInv PROVE DeliveredOnce
  <2> SUFFICES ASSUME NEW ch \in Made
               PROVE
      LET sub == Sub(ch)
          q == sub.ch
          before == [k \in DOMAIN q |-> IF k = 1 THEN sub.got ELSE q[k - 1][2]]
      IN /\ \A k \in DOMAIN q :
              before[k] < q[k][1] /\ (~sub.gap => q[k][1] = before[k] + 1)
         /\ LastByte(sub) <= streams[ch[1]].flushed
         /\ sub.open /\ ~sub.gap => LastByte(sub) = streams[ch[1]].flushed
    BY DEF DeliveredOnce
  <2>1. SubData(Sub(ch), streams[ch[1]].flushed, streams[ch[1]].opened) /\ Sub(ch) \in Subscriber
    BY <1>1, SubFacts DEF OutputInv
  <2> DEFINE sub == Sub(ch)
             flushed == streams[ch[1]].flushed
             before == [k \in DOMAIN sub.ch |-> IF k = 1 THEN sub.got ELSE sub.ch[k - 1][2]]
  <2>2. DOMAIN sub.ch = 1..Len(sub.ch)
    BY <2>1 DEF Subscriber
  <2>3. Ordered(sub) /\ LastByte(sub) <= flushed /\ (sub.open /\ ~sub.gap => LastByte(sub) = flushed)
    BY <2>1 DEF SubData
  <2> HIDE DEF sub, flushed
  <2>4. \A k \in DOMAIN sub.ch : before[k] = Before(sub, k)
    BY DEF Before
  <2>5. \A k \in DOMAIN sub.ch :
          before[k] < sub.ch[k][1] /\ (~sub.gap => sub.ch[k][1] = before[k] + 1)
    BY <2>2, <2>3, <2>4, Zenon DEF Ordered
  <2> QED BY <2>3, <2>5 DEF sub, flushed
<1> QED BY <1>1, OutputInvariant, PTL

\* The pipe of a pane follows its subscribers: who subscribes first has it
\* started, who unsubscribes last has it stopped, whatever clients do meanwhile,
\* until a pipe-pane does other than its answer says, and again once a
\* PipePaneStop is carried out.
THEOREM PipeFollows == OutputSpec => []PipeFollowsSubscribers
<1>1. ASSUME OutputInv PROVE PipeFollowsSubscribers
  <2> USE <1>1 DEF OutputInv
  <2> SUFFICES ASSUME NEW s \in Sessions
               PROVE
      LET i == current[s] IN
        IF i # 0
        THEN /\ streams[i].live /\ Remaining(streams[i]) # {}
             /\ s \in astray \/ pipe[s] = i \/ streams[i].cut
        ELSE s \in astray \/ pipe[s] = 0 \/ stop.pc = "closed"
    BY DEF PipeFollowsSubscribers
  <2>1. current[s] \in 0..Len(streams) /\ pipe[s] \in -1..Len(streams) /\ Len(streams) \in Nat
    BY StreamTypes DEF TypesInv
  <2>2. CASE current[s] # 0
    <3> DEFINE i == current[s]
    <3>1. i \in 1..Len(streams) /\ streams[i].session = s
      BY <2>1, <2>2 DEF RecordInv
    <3>2. streams[i].live
      BY <3>1 DEF RecordInv
    <3>3. PICK k \in 1..Len(streams[i].subs) : streams[i].subs[k].open
      BY <3>1, <3>2 DEF RecordInv
    <3>4. k \in Remaining(streams[i])
      BY <3>1, <3>3, Domains DEF Remaining
    <3>5. s \in astray \/ pipe[s] = i \/ streams[i].cut
      BY <2>2 DEF PipeInv
    <3> QED BY <2>2, <3>2, <3>4, <3>5
  <2>3. CASE current[s] = 0
    BY <2>3 DEF PipeInv
  <2> QED BY <2>2, <2>3
<1> QED BY <1>1, OutputInvariant, PTL

LEMMA OpenIsHeld ==
  ASSUME OutputInv, NEW c \in Clients, NEW ch \in MadeBy(c), Sub(ch).open
  PROVE  Has(c, ch)
<1>1. /\ ch[1] \in 1..Len(streams) /\ ch[2] \in 1..Len(streams[ch[1]].subs)
      /\ ch = <<ch[1], ch[2]>>
      /\ Sub(ch).client = c
  BY MadeFacts DEF OutputInv, MadeBy
<1>2. Has(c, <<ch[1], ch[2]>>)
  BY <1>1 DEF OutputInv, HeldInv, Sub
<1> QED BY <1>1, <1>2, Zenon

\* An open subscription is on its client's map or in its handler's hands, and
\* until StopAll every one that is there is open: a subscription number that one
\* client gives back never closes the channel of another.
THEOREM SubscriptionsHeld == OutputSpec => []SubscriptionsAreHeld
<1>1. ASSUME OutputInv PROVE SubscriptionsAreHeld
  <2> USE <1>1 DEF OutputInv
  <2> SUFFICES ASSUME NEW c \in Clients
               PROVE
      LET open == {ch \in MadeBy(c) : Sub(ch).open}
          has == InHand(c) \cup ({held[c][s] : s \in Sessions} \ {NoChannel})
      IN /\ open \subseteq has
         /\ stop.pc \in {"running", "closing"} => open = has
    BY DEF SubscriptionsAreHeld
  <2> DEFINE open == {ch \in MadeBy(c) : Sub(ch).open}
             has == InHand(c) \cup ({held[c][s] : s \in Sessions} \ {NoChannel})
  <2>1. ASSUME NEW ch \in open
        PROVE  ch \in has
    <3>1. Has(c, ch)
      BY OpenIsHeld
    <3>2. ch # NoChannel
      BY MadeFacts DEF MadeBy
    <3> QED BY <3>1, <3>2, Zenon DEF Has, InHand
  <2>2. ASSUME NEW ch \in has, Holding
        PROVE  ch \in open
    <3>1. Has(c, ch)
      BY DEF Has, InHand
    <3>2. PICK s \in Sessions : Owned(streams, c, ch, s)
      <4>1. CASE ch \in InHand(c)
        <5>1. handler[c].pc \in {"replace", "store", "drop"} /\ ch = handler[c].chan
          BY <4>1 DEF InHand
        <5>2. Owned(streams, c, ch, handler[c].session)
          BY <5>1 DEF HolderInv, HolderOf
        <5>3. handler[c].session \in Sessions
          BY DEF TypesInv, Handler
        <5> QED BY <5>2, <5>3
      <4>2. CASE ch \in {held[c][s] : s \in Sessions} \ {NoChannel}
        <5>1. PICK s \in Sessions : ch = held[c][s] /\ held[c][s] # NoChannel
          BY <4>2
        <5>2. Owned(streams, c, held[c][s], s)
          BY <5>1 DEF HolderInv, HolderOf
        <5> QED BY <5>1, <5>2
      <4> QED BY <4>1, <4>2
    <3>3. /\ ch = <<ch[1], ch[2]>>
          /\ ch[1] \in 1..Len(streams) /\ ch[2] \in 1..Len(streams[ch[1]].subs)
          /\ streams[ch[1]].subs[ch[2]].client = c
      BY <3>2, Zenon DEF Owned
    <3>4. <<ch[1], ch[2]>> \in Made
      BY <3>3, MadeFacts
    <3>5. ch \in Made
      BY <3>3, <3>4, Zenon
    <3>6. Has(c, <<ch[1], ch[2]>>)
      BY <3>1, <3>3, Zenon
    <3>7. streams[ch[1]].subs[ch[2]].open
      BY <2>2, <3>3, <3>6 DEF HeldInv
    <3> QED BY <3>3, <3>5, <3>7 DEF MadeBy, Sub
  <2>3. open \subseteq has
    BY <2>1
  <2>4. stop.pc \in {"running", "closing"} => open = has
    <3>1. ASSUME Holding PROVE has \subseteq open
      BY <2>2, <3>1
    <3> HIDE DEF open, has
    <3> QED BY <2>3, <3>1, Zenon DEF Holding
  <2> QED BY <2>3, <2>4
<1> QED BY <1>1, OutputInvariant, PTL

\* When the server is through with a client, none of its channels is open, in
\* whatever step of a subscribe-output Close by Stop found it.
THEOREM GoneHasNothing == OutputSpec => []GoneHoldsNothing
<1>1. ASSUME OutputInv PROVE GoneHoldsNothing
  <2> SUFFICES ASSUME NEW c \in Clients, handler[c].pc = "gone", closer[c] = "no"
               PROVE  /\ \A s \in Sessions : held[c][s] = NoChannel
                      /\ \A ch \in MadeBy(c) : ~Sub(ch).open
    BY DEF GoneHoldsNothing
  <2>1. \A s \in Sessions : held[c][s] = NoChannel
    BY <1>1 DEF OutputInv, GoneInv
  <2>2. ASSUME NEW ch \in MadeBy(c), Sub(ch).open PROVE FALSE
    <3>1. Has(c, ch)
      BY <1>1, <2>2, OpenIsHeld
    <3>2. ch # NoChannel
      BY <1>1, MadeFacts DEF OutputInv, MadeBy
    <3> QED BY <2>1, <3>1, <3>2 DEF Has
  <2> QED BY <2>1, <2>2
<1> QED BY <1>1, OutputInvariant, PTL
=============================================================================
