---------------------------- MODULE Tailer_proofs ----------------------------
(***************************************************************************)
(* Proofs about Tailer, for a channel of any capacity and a file of any    *)
(* length: the types, and that it implements LineStream.                   *)
(*                                                                         *)
(* A Tailer does not know what a line is until it has seen where it ends,  *)
(* so that a step of the refinement needs to know what the fragments that  *)
(* are read, put together and still in the file have to do with each other *)
(* and with what was sent: they come in order (OrderInv), none that is owed *)
(* is left out (OwedInv), and those that are put together are one line     *)
(* (JoinInv).  All of this ends with Stop, after which lines may be sent   *)
(* again; and what a truncation cuts off is lost.                          *)
(***************************************************************************)
EXTENDS Tailer, SequenceTheorems, TLAPS

----------------------------------------------------------------------------
(* Sequences. *)

LEMMA SubFacts ==
  ASSUME NEW S, NEW q \in Seq(S), NEW i \in Nat, NEW to \in i .. Len(q)
  PROVE  /\ SubSeq(q, i + 1, to) \in Seq(S)
         /\ Len(SubSeq(q, i + 1, to)) = to - i
         /\ \A k \in 1 .. to - i : SubSeq(q, i + 1, to)[k] = q[i + k]
  BY SubSeqProperties

LEMMA RestFacts ==
  ASSUME NEW S, NEW q \in Seq(S), q # <<>>
  PROVE  /\ Len(q) \in Nat /\ Len(q) >= 1 /\ q[1] \in S
         /\ Tail(q) \in Seq(S) /\ Len(Tail(q)) = Len(q) - 1
         /\ \A i \in 1..Len(q) - 1 : Tail(q)[i] = q[i + 1]
<1>1. Len(q) \in Nat /\ Len(q) >= 1 /\ q[1] \in S
  OBVIOUS
<1>2. Tail(q) \in Seq(S) /\ Len(Tail(q)) = Len(q) - 1
  OBVIOUS
<1>3. \A i \in 1..Len(q) - 1 : Tail(q)[i] = q[i + 1]
  BY <1>1, <1>2
<1> QED BY <1>1, <1>2, <1>3

LEMMA AppendFacts ==
  ASSUME NEW S, NEW q \in Seq(S), NEW e \in S
  PROVE  /\ Len(q) \in Nat
         /\ Append(q, e) \in Seq(S) /\ Len(Append(q, e)) = Len(q) + 1
         /\ \A i \in 1..Len(q) : Append(q, e)[i] = q[i]
         /\ Append(q, e)[Len(q) + 1] = e
  OBVIOUS

----------------------------------------------------------------------------
(* Types. *)

\* Nothing is left in the scanner when the end of the file was seen and nothing is
\* to be sent.
EofOK == eof => buf = <<>> /\ (pc = "scan" => acc = <<>>)

LEMMA TypeInit == Init => TailerTypeOK
<1> SUFFICES ASSUME Init PROVE TailerTypeOK
  OBVIOUS
<1>1. /\ <<>> \in Seq(Fragment) /\ <<>> \in Seq([line : Nat, whole : BOOLEAN])
      /\ Len(<<>>) = 0
  OBVIOUS
<1>2. file \in Seq(Fragment) /\ buf \in Seq(Fragment) /\ acc \in Seq(Fragment)
      /\ sent \in Seq([line : Nat, whole : BOOLEAN]) /\ Len(sent) = 0
  BY <1>1 DEF Init
<1>3. written \subseteq Nat /\ lost \subseteq Nat /\ taken \in 0 .. Len(sent) /\ Len(sent) - taken <= Cap
  BY <1>2, TailerAssumption DEF Init
<1> QED BY <1>2, <1>3 DEF Init, TailerTypeOK

LEMMA TypeStep ==
  ASSUME TailerTypeOK, EofOK, TailerNext
  PROVE  TailerTypeOK' /\ EofOK'
<1> USE TailerAssumption
<1>e. <<>> \in Seq(Fragment)
  OBVIOUS
<1>l. ASSUME NEW s \in Seq(Fragment)
      PROVE  LinesOf(s) \subseteq Nat /\ \A k \in DOMAIN s : s[k].line \in Nat
  <2>1. \A k \in DOMAIN s : s[k] \in Fragment
    OBVIOUS
  <2> QED BY <2>1 DEF LinesOf, Fragment
<1>r. ASSUME NEW p \in Nat, ReadFrom(p), lost' \subseteq Nat, stale' \in BOOLEAN,
             pc # "send"
      PROVE  TailerTypeOK' /\ EofOK'
  BY <1>e, <1>r DEF ReadFrom, fileVars, chanVars, TailerTypeOK, EofOK
<1>1. ASSUME NEW part \in Parts, Write(part)
      PROVE  TailerTypeOK' /\ EofOK'
  <2> DEFINE n == IF part \in {"tail", "newline"} THEN lines ELSE lines + 1
             f == [line |-> n, part |-> part]
  <2>1. n \in Nat
    BY DEF TailerTypeOK
  <2>2. f \in Fragment
    BY <2>1 DEF Fragment
  <2>3. /\ file' = Append(file, f) /\ writes' = writes + 1 /\ lines' = n
        /\ written' = IF part \in {"whole", "text", "tail"} THEN written \cup {n} ELSE written
        /\ UNCHANGED <<truncations, offset, scanVars, chanVars, stopped, lost, stale>>
    BY <1>1 DEF Write
  <2> HIDE DEF n, f
  <2> QED BY <2>1, <2>2, <2>3 DEF TailerTypeOK, EofOK, scanVars, chanVars
<1>2. CASE Truncate
  <2>1. lost' \subseteq Nat /\ file' \in Seq(Fragment)
    BY <1>2, <1>e, <1>l DEF Truncate, TailerTypeOK
  <2>2. truncations' \in Nat /\ stale' \in BOOLEAN
    BY <1>2 DEF Truncate, TailerTypeOK
  <2> QED BY <1>2, <2>1, <2>2 DEF Truncate, TailerTypeOK, EofOK, scanVars, chanVars
<1>3. CASE StartRead
  <2>1. SubSeq(file, 1, offset) \in Seq(Fragment) \/ ~(Len(file) >= offset)
    <3>1. CASE Len(file) >= offset
      <4>1. 0 \in Nat /\ offset \in 0 .. Len(file)
        BY <3>1 DEF TailerTypeOK
      <4> QED BY <4>1, SubFacts DEF TailerTypeOK
    <3> QED BY <3>1
  <2>2. lost' \subseteq Nat
    BY <1>3, <1>l, <2>1 DEF StartRead, TailerTypeOK
  <2>3. (IF Len(file) < offset THEN 0 ELSE offset) \in Nat
    BY DEF TailerTypeOK
  <2> QED BY <1>3, <1>r, <2>2, <2>3 DEF StartRead
<1>4. CASE Fill
  <2>1. PICK to \in pos + 1 .. Len(file) : buf' = SubSeq(file, pos + 1, to) /\ pos' = to
    BY <1>4 DEF Fill
  <2>2. /\ pos \in Nat /\ file \in Seq(Fragment) /\ to \in pos .. Len(file) /\ to \in Nat
        /\ 0 \in Nat /\ pos + 1 \in 0 .. Len(file)
    BY <2>1 DEF TailerTypeOK
  <2>3. buf' \in Seq(Fragment) /\ SubSeq(file, 1, pos + 1) \in Seq(Fragment)
    <3>1. SubSeq(file, pos + 1, to) \in Seq(Fragment)
      BY <2>2, SubFacts
    <3>2. SubSeq(file, 0 + 1, pos + 1) \in Seq(Fragment)
      BY <2>2, SubFacts
    <3> QED BY <2>1, <3>1, <3>2
  <2>4. lost' \subseteq Nat
    BY <1>4, <1>l, <2>3 DEF Fill, TailerTypeOK
  <2> QED BY <1>4, <2>1, <2>2, <2>3, <2>4 DEF Fill, TailerTypeOK, EofOK, fileVars, chanVars
<1>5. CASE EndOfFile
  <2>1. lost' \subseteq Nat
    BY <1>5, <1>l DEF EndOfFile, TailerTypeOK
  <2> QED BY <1>5, <2>1 DEF EndOfFile, TailerTypeOK, EofOK, fileVars, chanVars
<1>6. CASE Scan
  <2>1. /\ buf[1] \in Fragment /\ buf' \in Seq(Fragment)
    BY <1>6, RestFacts DEF Scan, TailerTypeOK
  <2>2. Append(acc, buf[1]) \in Seq(Fragment) /\ Append(acc, buf[1]) # <<>>
    BY <2>1 DEF TailerTypeOK
  <2>3. ~eof
    BY <1>6 DEF Scan, EofOK
  <2> QED BY <1>6, <1>e, <2>1, <2>2, <2>3 DEF Scan, TailerTypeOK, EofOK, fileVars, chanVars
<1>7. CASE TooLong
  <2>1. buf[1] \in Fragment
    BY <1>7, RestFacts DEF TooLong, TailerTypeOK
  <2> QED BY <1>7, <1>e, <2>1 DEF TooLong, TailerTypeOK, EofOK, fileVars, chanVars, Fragment
<1>8. CASE Send
  <2> DEFINE item == [line |-> acc[1].line, whole |-> WholeLine(acc)]
  <2>1. item \in [line : Nat, whole : BOOLEAN]
    <3>1. acc[1].line \in Nat
      BY <1>8, <1>l DEF Send, TailerTypeOK
    <3>2. WholeLine(acc) \in BOOLEAN
      BY DEF WholeLine
    <3> QED BY <3>1, <3>2
  <2>2. sent' = Append(sent, item)
    BY <1>8 DEF Send
  <2> HIDE DEF item
  <2>3. sent' \in Seq([line : Nat, whole : BOOLEAN]) /\ Len(sent') = Len(sent) + 1
    BY <2>1, <2>2, AppendFacts DEF TailerTypeOK
  <2>4. taken' \in 0 .. Len(sent') /\ Len(sent') - taken' <= Cap
    BY <1>8, <2>3 DEF Send, TailerTypeOK
  <2> QED BY <1>8, <1>e, <2>3, <2>4 DEF Send, TailerTypeOK, EofOK, fileVars
<1>9. CASE SendStops
  BY <1>9, <1>e DEF SendStops, TailerTypeOK, EofOK, fileVars, chanVars
<1>10. CASE Finish
  BY <1>10, <1>e DEF Finish, TailerTypeOK, EofOK, fileVars, chanVars
<1>11. CASE Leave \/ Stop
  <2>1. CASE Leave
    BY <2>1 DEF Leave, TailerTypeOK, EofOK, fileVars, chanVars
  <2>2. CASE Stop
    BY <2>2 DEF Stop, TailerTypeOK, EofOK, fileVars, chanVars, scanVars
  <2> QED BY <1>11, <2>1, <2>2
<1>12. CASE Receive
  BY <1>12 DEF Receive, TailerTypeOK, EofOK, fileVars, scanVars
<1> QED BY <1>1, <1>2, <1>3, <1>4, <1>5, <1>6, <1>7, <1>8, <1>9, <1>10, <1>11, <1>12
        DEF TailerNext, Reading

\* Every variable has its type, a tailer that waits has read up to its offset, and
\* the channel holds no more than its capacity.
THEOREM TailerTypeCorrect == TailerSpec => []TailerTypeOK
<1>1. Init => TailerTypeOK /\ EofOK
  BY TypeInit DEF Init, EofOK
<1>2. TailerTypeOK /\ EofOK /\ UNCHANGED vars => TailerTypeOK' /\ EofOK'
  BY DEF vars, fileVars, scanVars, chanVars, TailerTypeOK, EofOK
<1> QED BY <1>1, <1>2, TypeStep, PTL DEF TailerSpec

----------------------------------------------------------------------------
(* The inductive invariant. *)

\* A fragment with which the text of its line is complete.
Complete == {"whole", "text", "tail"}

HasPart(f) == f.part # "newline"

Elements(s) == {s[k] : k \in DOMAIN s}

\* What a read, or a later one, has still to look at.
Unread == {file[k] : k \in {i \in DOMAIN file : stale \/ i > pos}}
Ahead == Elements(buf) \cup Unread

Known(f) ==
  /\ f.line <= lines
  /\ HasPart(f) => f.line >= 1
  /\ f.part \in Complete => f.line \in written

Before(f, g) ==
  /\ f.line <= g.line
  /\ f.part \in Complete /\ HasPart(g) => f.line < g.line

SentBefore(e, g) ==
  /\ e.line <= g.line
  /\ e.whole /\ HasPart(g) => e.line < g.line

\* g follows f in the file.
Succeeds(f, g) ==
  /\ g.part = "tail" <=> f.part \in {"head", "big"}
  /\ f.part = "text" => g.part = "newline"
  /\ f.part \in {"text", "head", "big"} => g.line = f.line

\* What the CLI has written.
FileInv ==
  /\ writes <= MaxWrites /\ lines <= writes
  /\ \A n \in written : n \in 1..lines
  /\ \A k \in DOMAIN file : Known(file[k])
  /\ \A k \in DOMAIN file : k > 1 => Succeeds(file[k - 1], file[k])
  /\ \A i, k \in DOMAIN file : i < k => Before(file[i], file[k])
  /\ file # <<>> => /\ file[1].part # "tail" /\ file[Len(file)].line = lines
                    /\ file[Len(file)].part \in {"head", "big"} => lines \notin written

\* What the scanner holds, and what it has sent.
ScanInv ==
  /\ \A f \in Elements(acc) \cup Elements(buf) : Known(f)
  /\ acc # <<>> => HasPart(acc[1])
  /\ \A k \in DOMAIN buf : buf[k].part = "big" => k = Len(buf)
  /\ EofOK
  /\ offset <= pos
  /\ pos = 0 => acc = <<>> /\ buf = <<>>
  /\ ~stale => Len(buf) <= pos /\ pos <= Len(file)
  /\ \A k \in DOMAIN sent : sent[k].line <= lines /\ (sent[k].whole => sent[k].line \in written)

\* Until Stop: everything comes in order, ...
OrderInv ==
  /\ \A k \in DOMAIN sent : \A g \in Elements(acc) \cup Ahead : SentBefore(sent[k], g)
  /\ \A f \in Elements(acc), g \in Ahead : Before(f, g)
  /\ \A i, k \in DOMAIN buf : i < k => Before(buf[i], buf[k])
  /\ \A f \in Elements(buf), g \in Unread : Before(f, g)

\* ... nothing that is owed is left out, ...
OwedInv ==
  \A m \in written :
    m \in lost \/ LS!Emitted(m) \/ \E f \in Elements(acc) \cup Ahead : f.line = m /\ HasPart(f)

Held == IF pc = "send" THEN <<>> ELSE acc

\* What the scanner has put together and the fragment that comes next, ...
Fits(a, f, gone) ==
  \/ LinesOf(a) \cup {f.line} \subseteq gone
  \/ f.part = "tail" /\ a = <<[line |-> f.line, part |-> "head"]>>
  \/ f.part = "newline" /\ (LinesOf(a) \subseteq gone \/ a = <<[line |-> f.line, part |-> "text"]>>)
  \/ f.part \notin {"tail", "newline"} /\ a = <<>>

\* ... or the one that came last.
Ends(a, f, gone) ==
  \/ f.part = "text" /\ (LinesOf(a) \subseteq gone \/ a = <<[line |-> f.line, part |-> "text"]>>)
  \/ f.part \in {"head", "big"} /\ \/ LinesOf(a) \cup {f.line} \subseteq gone
                                   \/ a = <<[line |-> f.line, part |-> "head"]>>
  \/ f.part \notin {"text", "head", "big"} /\ a = <<>>

\* The scanner looks at what follows the first q fragments of the file.
JoinAt(q) ==
  /\ \A k \in DOMAIN buf : buf[k] = file[q + k]
  /\ q < Len(file) => Fits(Held, file[q + 1], lost)
  /\ q = Len(file) => IF q = 0 THEN Held = <<>> ELSE Ends(Held, file[q], lost)

Owned(f) == f.line \in lost \/ (~stale /\ f.line \in LinesOf(file))

\* ... and what is put together is a line, unless it is lost.
JoinInv ==
  /\ \A f \in Elements(acc) \cup Elements(buf) : Owned(f)
  /\ pc = "send" => WholeLine(acc) \/ \A f \in Elements(acc) : HasPart(f) => f.line \in lost
  /\ ~stale => JoinAt(pos - Len(buf))

TailerInv ==
  /\ TailerTypeOK /\ FileInv /\ ScanInv
  /\ ~stopped => OrderInv /\ OwedInv /\ JoinInv

----------------------------------------------------------------------------
(* Elements of sequences. *)

LEMMA ElementFacts ==
  ASSUME NEW S, NEW q \in Seq(S)
  PROVE  /\ Elements(q) \subseteq S
         /\ \A k \in 1..Len(q) : q[k] \in Elements(q)
         /\ \A f \in Elements(q) : \E k \in 1..Len(q) : f = q[k]
         /\ LinesOf(q) = {f.line : f \in Elements(q)}
<1>1. /\ Elements(q) \subseteq S
      /\ \A k \in 1..Len(q) : q[k] \in Elements(q)
      /\ \A f \in Elements(q) : \E k \in 1..Len(q) : f = q[k]
  BY DEF Elements
<1>2. LinesOf(q) = {f.line : f \in Elements(q)}
  BY DEF LinesOf, Elements
<1> QED BY <1>1, <1>2

LEMMA MemberFacts ==
  ASSUME NEW S, NEW q \in Seq(S)
  PROVE  Len(q) \in Nat /\ \A k \in 1..Len(q) : q[k] \in S
  OBVIOUS

LEMMA SentFacts ==
  ASSUME TailerTypeOK
  PROVE  /\ sent \in Seq([line : Nat, whole : BOOLEAN]) /\ Len(sent) \in Nat
         /\ \A k \in DOMAIN sent : sent[k].line \in Nat /\ sent[k].whole \in BOOLEAN
<1>1. sent \in Seq([line : Nat, whole : BOOLEAN])
  BY DEF TailerTypeOK
<1>2. \A k \in 1..Len(sent) : sent[k] \in [line : Nat, whole : BOOLEAN]
  BY <1>1, MemberFacts
<1> QED BY <1>1, <1>2

LEMMA NoElements == Elements(<<>>) = {} /\ LinesOf(<<>>) = {}
  BY DEF Elements, LinesOf

LEMMA AppendElements ==
  ASSUME NEW S, NEW q \in Seq(S), NEW e \in S
  PROVE  Elements(Append(q, e)) = Elements(q) \cup {e}
<1>1. /\ Append(q, e) \in Seq(S) /\ Len(Append(q, e)) = Len(q) + 1 /\ Len(q) \in Nat
      /\ \A i \in 1..Len(q) : Append(q, e)[i] = q[i]
      /\ Append(q, e)[Len(q) + 1] = e
  BY AppendFacts
<1> DEFINE r == Append(q, e)
<1>2. /\ r \in Seq(S) /\ Len(r) = Len(q) + 1 /\ Len(q) \in Nat
      /\ \A i \in 1..Len(q) : r[i] = q[i]
      /\ r[Len(q) + 1] = e
  BY <1>1
<1> HIDE DEF r
<1>3. \A k \in 1..Len(r) : k \in 1..Len(q) \/ k = Len(q) + 1
  BY <1>2
<1>4. Elements(r) \subseteq Elements(q) \cup {e}
  BY <1>2, <1>3 DEF Elements
<1>5. \A k \in 1..Len(q) : k \in 1..Len(r)
  BY <1>2
<1>6. Len(q) + 1 \in 1..Len(r)
  BY <1>2
<1>7. Elements(q) \cup {e} \subseteq Elements(r)
  BY <1>2, <1>5, <1>6 DEF Elements
<1>8. Elements(r) = Elements(q) \cup {e}
  BY <1>4, <1>7
<1> QED BY <1>8 DEF r

LEMMA RestElements ==
  ASSUME NEW S, NEW q \in Seq(S), q # <<>>
  PROVE  Elements(q) = {q[1]} \cup Elements(Tail(q))
<1> DEFINE r == Tail(q)
<1>1. /\ Len(q) \in Nat /\ Len(q) >= 1
      /\ r \in Seq(S) /\ Len(r) = Len(q) - 1
      /\ \A i \in 1..Len(q) - 1 : r[i] = q[i + 1]
  BY RestFacts
<1> HIDE DEF r
<1>2. \A k \in 1..Len(q) : k = 1 \/ (k - 1 \in 1..Len(r) /\ r[k - 1] = q[k])
  BY <1>1
<1>3. \A k \in 1..Len(r) : k + 1 \in 1..Len(q) /\ r[k] = q[k + 1]
  BY <1>1
<1>4. 1 \in 1..Len(q)
  BY <1>1
<1>5. DOMAIN q = 1..Len(q) /\ DOMAIN r = 1..Len(r)
  BY <1>1
<1>6. Elements(q) \subseteq {q[1]} \cup Elements(r)
  BY <1>2, <1>5 DEF Elements
<1>7. {q[1]} \cup Elements(r) \subseteq Elements(q)
  BY <1>3, <1>4, <1>5 DEF Elements
<1> QED BY <1>6, <1>7 DEF r

----------------------------------------------------------------------------
(* What the agent's CLI writes. *)

\* What a step of the CLI adds to the file.
LEMMA WriteFacts ==
  ASSUME TailerTypeOK, FileInv, NEW part \in Parts, Write(part)
  PROVE  \E f \in Fragment :
           /\ f.part = part /\ f.line = lines' /\ lines' \in Nat
           /\ file' = Append(file, f)
           /\ lines <= lines' /\ writes' = writes + 1 /\ writes < MaxWrites /\ lines' <= writes'
           /\ HasPart(f) => lines' >= 1
           /\ written' = IF f.part \in Complete THEN written \cup {lines'} ELSE written
           /\ HasPart(f) => \A m \in written : m < lines'
           /\ f.part \in {"head", "big"} => lines' \notin written
           /\ file = <<>> => part # "tail"
           /\ file # <<>> => Succeeds(file[Len(file)], f)
           /\ UNCHANGED <<truncations, offset, scanVars, chanVars, stopped, lost, stale>>
<1> USE TailerAssumption
<1> DEFINE n == IF part \in {"tail", "newline"} THEN lines ELSE lines + 1
           f == [line |-> n, part |-> part]
           last == file[Len(file)]
<1>1. lines \in Nat /\ writes \in Nat /\ n \in Nat /\ file \in Seq(Fragment)
  BY DEF TailerTypeOK
<1>2. f \in Fragment /\ f.part = part /\ f.line = n
  BY <1>1 DEF Fragment
<1>3. /\ file' = Append(file, f) /\ writes' = writes + 1 /\ lines' = n
      /\ written' = IF part \in {"whole", "text", "tail"} THEN written \cup {n} ELSE written
      /\ writes < MaxWrites /\ Follows(part)
      /\ UNCHANGED <<truncations, offset, scanVars, chanVars, stopped, lost, stale>>
  BY DEF Write
<1>4. \A m \in written : m \in 1..lines
  BY DEF FileInv
<1>5. CASE file = <<>>
  <2>1. part # "tail"
    BY <1>3, <1>5 DEF Follows
  <2>2. HasPart(f) => n = lines + 1
    BY <1>2, <2>1 DEF HasPart
  <2>3. n \notin written \/ part \in {"newline"}
    BY <1>1, <1>4, <2>1
  <2> HIDE DEF f, n
  <2> QED BY <1>1, <1>2, <1>3, <1>4, <1>5, <2>1, <2>2, <2>3, TailerAssumption DEF FileInv, Complete, n
<1>6. CASE file # <<>>
  <2>1. Len(file) \in DOMAIN file /\ last \in Fragment
    BY <1>1, <1>6
  <2>2. /\ last.line = lines /\ Known(last)
        /\ last.part \in {"head", "big"} => lines \notin written
    BY <1>6, <2>1 DEF FileInv
  <2>3. /\ part = "tail" <=> last.part \in {"head", "big"}
        /\ last.part = "text" => part = "newline"
    <3>1. last.part \in Parts
      BY <2>1 DEF Fragment
    <3> QED BY <1>3, <1>6, <3>1 DEF Follows, Parts
  <2>4. Succeeds(last, f)
    BY <1>2, <2>2, <2>3 DEF Succeeds
  <2>5. part = "tail" => lines \notin written /\ lines >= 1
    BY <2>2, <2>3 DEF Known, HasPart
  <2>6. HasPart(f) => n >= 1 /\ \A m \in written : m < n
    BY <1>1, <1>2, <1>4, <2>5 DEF HasPart
  <2>7. f.part \in {"head", "big"} => n \notin written
    BY <1>1, <1>2, <1>4
  <2>8. lines <= n /\ n <= writes + 1
    BY <1>1 DEF FileInv
  <2> HIDE DEF f, n
  <2> QED BY <1>1, <1>2, <1>3, <1>6, <2>4, <2>6, <2>7, <2>8 DEF Complete
<1> QED BY <1>5, <1>6

LEMMA FileStep ==
  ASSUME TailerTypeOK, FileInv, TailerNext
  PROVE  FileInv'
<1> USE TailerAssumption
<1>1. ASSUME NEW part \in Parts, Write(part)
      PROVE  FileInv'
  <2>1. PICK f \in Fragment :
           /\ f.part = part /\ f.line = lines' /\ lines' \in Nat
           /\ file' = Append(file, f)
           /\ lines <= lines' /\ writes' = writes + 1 /\ writes < MaxWrites /\ lines' <= writes'
           /\ HasPart(f) => lines' >= 1
           /\ written' = IF f.part \in Complete THEN written \cup {lines'} ELSE written
           /\ HasPart(f) => \A m \in written : m < lines'
           /\ f.part \in {"head", "big"} => lines' \notin written
           /\ file = <<>> => part # "tail"
           /\ file # <<>> => Succeeds(file[Len(file)], f)
    BY <1>1, WriteFacts
  <2>2. /\ file \in Seq(Fragment) /\ lines \in Nat /\ writes \in Nat /\ written \subseteq Nat
    BY DEF TailerTypeOK
  <2>3. /\ Len(file) \in Nat /\ file' \in Seq(Fragment) /\ Len(file') = Len(file) + 1
        /\ \A i \in 1..Len(file) : file'[i] = file[i]
        /\ file'[Len(file) + 1] = f
    BY <2>1, <2>2, AppendFacts
  <2>4. \A k \in DOMAIN file' : k \in DOMAIN file \/ k = Len(file) + 1
    BY <2>2, <2>3
  <2>5. \A k \in DOMAIN file : Known(file[k]) /\ file[k] \in Fragment
    BY <2>2 DEF FileInv
  <2>6. \A g \in Fragment : Known(g) => Known(g)'
    BY <2>1, <2>2 DEF Known, Fragment
  <2>7. Known(f)'
    BY <2>1 DEF Known, HasPart, Complete
  <2>8. \A k \in DOMAIN file' : Known(file[k])'
    <3>1. ASSUME NEW k \in DOMAIN file'
          PROVE  Known(file[k])'
      <4>1. CASE k \in DOMAIN file
        BY <2>2, <2>3, <2>5, <2>6, <4>1 DEF Known
      <4>2. CASE k = Len(file) + 1
        BY <2>3, <2>7, <4>2 DEF Known
      <4> QED BY <2>4, <4>1, <4>2
    <3> QED BY <3>1
  <2>9. ASSUME NEW k \in DOMAIN file', k > 1
        PROVE  Succeeds(file'[k - 1], file'[k])
    <3>1. CASE k \in DOMAIN file
      BY <2>2, <2>3, <2>9, <3>1 DEF FileInv
    <3>2. CASE k = Len(file) + 1
      BY <2>1, <2>2, <2>3, <2>9, <3>2
    <3> QED BY <2>4, <3>1, <3>2
  <2>10. ASSUME NEW i \in DOMAIN file', NEW k \in DOMAIN file', i < k
         PROVE  Before(file'[i], file'[k])
    <3>1. CASE k \in DOMAIN file
      BY <2>2, <2>3, <2>10, <3>1 DEF FileInv
    <3>2. CASE k = Len(file) + 1
      <4>1. i \in DOMAIN file /\ file'[i] = file[i]
        BY <2>2, <2>3, <2>10, <3>2
      <4>2. Known(file[i]) /\ file[i].line \in Nat
        BY <2>5, <4>1 DEF Fragment
      <4>3. Before(file[i], f)
        BY <2>1, <2>2, <4>2 DEF Before, Known
      <4> QED BY <2>3, <3>2, <4>1, <4>3
    <3> QED BY <2>4, <3>1, <3>2
  <2>11. \A m \in written' : m \in 1..lines'
    <3>1. \A m \in written : m \in 1..lines'
      BY <2>1, <2>2 DEF FileInv
    <3>2. f.part \in Complete => lines' >= 1
      BY <2>1 DEF Complete, HasPart
    <3> QED BY <2>1, <3>1, <3>2
  <2>12. /\ file'[1].part # "tail"
         /\ file'[Len(file')].line = lines'
         /\ file'[Len(file')].part \in {"head", "big"} => lines' \notin written'
    <3>1. file'[1].part # "tail"
      BY <2>1, <2>2, <2>3 DEF FileInv
    <3>2. f.part \in {"head", "big"} => lines' \notin written'
      BY <2>1 DEF Complete
    <3> QED BY <2>1, <2>3, <3>1, <3>2
  <2> QED BY <2>1, <2>2, <2>8, <2>9, <2>10, <2>11, <2>12 DEF FileInv
<1>2. CASE Truncate
  BY <1>2 DEF Truncate, FileInv
<1>3. CASE UNCHANGED fileVars
  BY <1>3 DEF fileVars, FileInv, Known
<1> QED BY <1>1, <1>2, <1>3
        DEF TailerNext, Reading, StartRead, ReadFrom, Fill, EndOfFile, Scan, TooLong, Send,
            SendStops, Finish, Leave, Receive, Stop

----------------------------------------------------------------------------
(* What the scanner holds. *)

\* What is sent as a whole line has the end of that line's text.
LEMMA WholeFacts ==
  ASSUME NEW token \in Seq(Fragment), token # <<>>, WholeLine(token)
  PROVE  /\ \A f \in Elements(token) : f.line = token[1].line
         /\ \E f \in Elements(token) : f.part \in Complete
<1> DEFINE parts == [k \in DOMAIN token |-> token[k].part]
<1>1. /\ \A k \in DOMAIN token : token[k].line = token[1].line
      /\ parts \in {<<"whole">>, <<"text">>, <<"text", "newline">>, <<"head", "tail">>}
  BY DEF WholeLine
<1>2. DOMAIN parts = 1..Len(token) /\ \A k \in 1..Len(token) : parts[k] = token[k].part
  OBVIOUS
<1> HIDE DEF parts
<1>3. \E k \in 1..Len(token) : parts[k] \in Complete
  <2>1. CASE parts = <<"whole">> \/ parts = <<"text">> \/ parts = <<"text", "newline">>
    <3>1. 1 \in DOMAIN parts /\ parts[1] \in Complete
      BY <2>1 DEF Complete
    <3> QED BY <1>2, <3>1
  <2>2. CASE parts = <<"head", "tail">>
    <3>1. 2 \in DOMAIN parts /\ parts[2] \in Complete
      BY <2>2 DEF Complete
    <3> QED BY <1>2, <3>1
  <2> QED BY <1>1, <2>1, <2>2
<1> QED BY <1>1, <1>2, <1>3 DEF Elements

\* What a fill of the scanner's buffer takes from the file.
LEMMA FillFacts ==
  ASSUME TailerTypeOK, Fill
  PROVE  \E to \in pos + 1 .. Len(file) :
           /\ pos' = to /\ pos + 1 \in DOMAIN file
           /\ buf = <<>> /\ buf' \in Seq(Fragment) /\ Len(buf') = to - pos
           /\ \A k \in 1..Len(buf') : /\ buf'[k] = file[pos + k] /\ pos + k \in DOMAIN file
                                      /\ buf'[k].part = "big" => k = Len(buf')
           /\ pc = "scan" /\ ~eof /\ stale' = FALSE
           /\ lost' = IF stale THEN lost \cup LinesOf(SubSeq(file, 1, pos + 1)) ELSE lost
           /\ UNCHANGED <<fileVars, offset, pc, acc, eof, chanVars, stopped>>
<1>1. PICK to \in pos + 1 .. Len(file) :
        /\ \A k \in pos + 1 .. to - 1 : file[k].part # "big"
        /\ buf' = SubSeq(file, pos + 1, to)
        /\ pos' = to
  BY DEF Fill
<1>2. pos \in Nat /\ file \in Seq(Fragment) /\ to \in pos .. Len(file) /\ Len(file) \in Nat
  BY <1>1 DEF TailerTypeOK
<1>3. /\ buf' \in Seq(Fragment) /\ Len(buf') = to - pos
      /\ \A k \in 1..to - pos : buf'[k] = file[pos + k]
  BY <1>1, <1>2, SubFacts
<1>4. \A k \in 1..Len(buf') : /\ buf'[k] = file[pos + k] /\ pos + k \in DOMAIN file
                              /\ buf'[k].part = "big" => k = Len(buf')
  <2>1. ASSUME NEW k \in 1..Len(buf')
        PROVE  /\ buf'[k] = file[pos + k] /\ pos + k \in DOMAIN file
               /\ buf'[k].part = "big" => k = Len(buf')
    <3>1. k \in 1..to - pos /\ pos + k \in 1..Len(file)
      BY <1>1, <1>2, <1>3
    <3>2. k # to - pos => pos + k \in pos + 1 .. to - 1
      BY <1>1, <1>2, <3>1
    <3>3. k # to - pos => file[pos + k].part # "big"
      BY <1>1, <3>2
    <3>4. buf'[k] = file[pos + k] /\ Len(buf') = to - pos
      BY <1>3, <3>1
    <3> QED BY <1>2, <3>1, <3>3, <3>4
  <2> QED BY <2>1
<1>5. pos + 1 \in DOMAIN file
  BY <1>1, <1>2
<1> QED BY <1>1, <1>3, <1>4, <1>5 DEF Fill

\* The scanner looks at the next fragment.
LEMMA ScanFacts ==
  ASSUME TailerTypeOK, Scan
  PROVE  /\ buf # <<>> /\ buf[1] \in Fragment /\ buf[1].part # "big" /\ pc = "scan"
         /\ buf' \in Seq(Fragment) /\ Len(buf') = Len(buf) - 1 /\ Len(buf) \in Nat
         /\ \A k \in 1..Len(buf') : buf'[k] = buf[k + 1]
         /\ Elements(buf) = {buf[1]} \cup Elements(buf')
         /\ \/ /\ acc' = Append(acc, buf[1]) /\ pc' = "scan"
               /\ buf[1].part \in {"text", "head"}
            \/ /\ acc' = <<>> /\ pc' = "scan"
               /\ buf[1].part = "newline" /\ \A f \in Elements(acc) : ~HasPart(f)
            \/ /\ acc' = Append(acc, buf[1]) /\ pc' = "send"
               /\ buf[1].part \in {"whole", "tail", "newline"}
               /\ \E f \in Elements(acc) \cup {buf[1]} : HasPart(f)
         /\ UNCHANGED <<fileVars, offset, pos, eof, chanVars, stopped, lost, stale>>
<1> DEFINE f == buf[1]
           token == Append(acc, f)
           ends == f.part \in {"whole", "tail", "newline"}
<1>1. /\ pc = "scan" /\ buf # <<>> /\ f.part # "big"
      /\ buf' = Tail(buf)
      /\ acc' = IF ends /\ ~HasText(token) THEN <<>> ELSE token
      /\ pc' = IF ends /\ HasText(token) THEN "send" ELSE "scan"
      /\ UNCHANGED <<fileVars, offset, pos, eof, chanVars, stopped, lost, stale>>
  BY DEF Scan
<1>2. /\ Len(buf) \in Nat /\ f \in Fragment
      /\ Tail(buf) \in Seq(Fragment) /\ Len(Tail(buf)) = Len(buf) - 1
      /\ \A i \in 1..Len(buf) - 1 : Tail(buf)[i] = buf[i + 1]
  BY <1>1, RestFacts DEF TailerTypeOK
<1>3. Elements(buf) = {f} \cup Elements(buf')
  BY <1>1, RestElements DEF TailerTypeOK
<1>4. Elements(token) = Elements(acc) \cup {f}
  BY <1>2, AppendElements DEF TailerTypeOK
<1>5. HasText(token) <=> \E g \in Elements(token) : HasPart(g)
  BY DEF HasText, Elements, HasPart
<1>6. f.part \in Parts
  BY <1>2 DEF Fragment
<1> HIDE DEF f, token
<1>7. CASE ~ends
  BY <1>1, <1>2, <1>3, <1>6, <1>7 DEF Parts, f, token
<1>8. CASE ends /\ ~HasText(token)
  <2>1. f.part = "newline" /\ \A g \in Elements(acc) : ~HasPart(g)
    BY <1>4, <1>5, <1>8 DEF HasPart
  <2> QED BY <1>1, <1>2, <1>3, <1>8, <2>1 DEF f, token
<1>9. CASE ends /\ HasText(token)
  BY <1>1, <1>2, <1>3, <1>4, <1>5, <1>9 DEF f, token
<1> QED BY <1>7, <1>8, <1>9

LEMMA ScanStep ==
  ASSUME TailerTypeOK, FileInv, ScanInv, TailerNext
  PROVE  ScanInv'
<1> USE TailerAssumption
<1>0. /\ file \in Seq(Fragment) /\ buf \in Seq(Fragment) /\ acc \in Seq(Fragment)
      /\ pos \in Nat /\ offset \in Nat /\ Len(file) \in Nat /\ Len(buf) \in Nat
      /\ Elements(<<>>) = {} /\ Len(<<>>) = 0 /\ DOMAIN <<>> = {}
  BY NoElements DEF TailerTypeOK
<1>e. EofOK'
  BY TypeStep DEF ScanInv
\* The file, and what has been sent, stay.
<1>k. ASSUME UNCHANGED fileVars, NEW f, Known(f)
      PROVE  Known(f)'
  BY <1>k DEF fileVars, Known
<1>s. ASSUME UNCHANGED fileVars, UNCHANGED sent
      PROVE  \A k \in DOMAIN sent' : sent'[k].line <= lines' /\ (sent'[k].whole => sent'[k].line \in written')
  BY <1>s DEF fileVars, ScanInv
<1>1. ASSUME NEW part \in Parts, Write(part)
      PROVE  ScanInv'
  <2>1. PICK f \in Fragment :
           /\ file' = Append(file, f) /\ lines <= lines' /\ lines' \in Nat
           /\ written' = IF f.part \in Complete THEN written \cup {lines'} ELSE written
           /\ UNCHANGED <<truncations, offset, scanVars, chanVars, stopped, lost, stale>>
    BY <1>1, WriteFacts
  <2>2. Len(file') = Len(file) + 1
    BY <1>0, <2>1, AppendFacts
  <2>3. lines \in Nat /\ written \subseteq written'
    BY <2>1 DEF TailerTypeOK
  <2>4. \A g \in Fragment : Known(g) => Known(g)'
    BY <2>1, <2>3 DEF Known, Fragment
  <2>5. \A f2 \in Elements(acc) \cup Elements(buf) : Known(f2)'
    BY <1>0, <2>4, ElementFacts DEF ScanInv
  <2>6. \A k \in DOMAIN sent : sent[k].line \in Nat
    BY SentFacts
  <2>7. \A k \in DOMAIN sent : sent[k].line <= lines' /\ (sent[k].whole => sent[k].line \in written')
    BY <2>1, <2>3, <2>6 DEF ScanInv
  <2> QED BY <1>0, <1>e, <2>1, <2>2, <2>5, <2>7 DEF ScanInv, scanVars, chanVars, Elements
<1>2. CASE Truncate
  <2>0. stale' <=> pos > 0
    BY <1>2 DEF Truncate
  <2>1. /\ file' = <<>> /\ (~stale' => pos = 0)
        /\ UNCHANGED <<lines, written, offset, scanVars, chanVars>>
    BY <1>0, <1>2, <2>0 DEF Truncate
  <2>2. ~stale' => Len(buf') <= pos' /\ pos' <= Len(file')
    BY <1>0, <2>1 DEF ScanInv, scanVars
  <2>3. \A f \in Elements(acc') \cup Elements(buf') : Known(f)'
    BY <2>1 DEF ScanInv, scanVars, Known, Elements
  <2> QED BY <1>0, <1>e, <2>1, <2>2, <2>3 DEF ScanInv, scanVars, chanVars
<1>3. CASE StartRead
  <2> DEFINE p == IF Len(file) < offset THEN 0 ELSE offset
  <2>1. /\ offset' = p /\ pos' = p /\ buf' = <<>> /\ acc' = <<>> /\ stale' = FALSE
        /\ UNCHANGED <<fileVars, chanVars>>
    BY <1>3 DEF StartRead, ReadFrom
  <2>2. p \in Nat /\ p <= Len(file)
    BY <1>0
  <2> HIDE DEF p
  <2> QED BY <1>0, <1>e, <1>s, <2>1, <2>2 DEF ScanInv, fileVars, chanVars, Elements
<1>4. CASE Fill
  <2>1. PICK to \in pos + 1 .. Len(file) :
           /\ pos' = to
           /\ buf' \in Seq(Fragment) /\ Len(buf') = to - pos
           /\ \A k \in 1..Len(buf') : /\ buf'[k] = file[pos + k] /\ pos + k \in DOMAIN file
                                      /\ buf'[k].part = "big" => k = Len(buf')
           /\ stale' = FALSE
           /\ UNCHANGED <<fileVars, offset, pc, acc, eof, chanVars, stopped>>
    BY <1>4, FillFacts
  <2>2. \A f \in Elements(buf') : Known(f)
    BY <2>1 DEF Elements, FileInv
  <2>3. \A f \in Elements(acc') \cup Elements(buf') : Known(f)'
    BY <1>k, <2>1, <2>2 DEF ScanInv
  <2>4. offset' <= pos' /\ pos' # 0 /\ Len(buf') <= pos' /\ pos' <= Len(file')
    BY <1>0, <2>1 DEF ScanInv, fileVars
  <2>5. \A k \in DOMAIN buf' : buf'[k].part = "big" => k = Len(buf')
    BY <2>1
  <2> QED BY <1>e, <1>s, <2>1, <2>3, <2>4, <2>5 DEF ScanInv, chanVars, Elements
<1>5. CASE EndOfFile \/ Finish \/ Leave \/ Receive \/ Stop
  <2>1. UNCHANGED <<fileVars, acc, buf, pos, sent, stale>> /\ (UNCHANGED offset \/ offset' = pos')
    BY <1>5 DEF EndOfFile, Finish, Leave, Receive, Stop, scanVars, chanVars
  <2> QED BY <1>0, <1>e, <1>k, <1>s, <2>1 DEF ScanInv, fileVars, Elements
<1>6. CASE Scan
  <2>1. /\ buf # <<>> /\ buf[1] \in Fragment
        /\ buf' \in Seq(Fragment) /\ Len(buf') = Len(buf) - 1
        /\ \A k \in 1..Len(buf') : buf'[k] = buf[k + 1]
        /\ Elements(buf) = {buf[1]} \cup Elements(buf')
        /\ \/ acc' = Append(acc, buf[1])
           \/ acc' = <<>>
        /\ UNCHANGED <<fileVars, offset, pos, eof, chanVars, stopped, lost, stale>>
    BY <1>6, ScanFacts
  <2>2. Elements(acc') \subseteq Elements(acc) \cup {buf[1]}
    <3>1. Elements(Append(acc, buf[1])) = Elements(acc) \cup {buf[1]}
      BY <1>0, <2>1, AppendElements
    <3> QED BY <1>0, <2>1, <3>1
  <2>3. \A f \in Elements(acc') \cup Elements(buf') : Known(f)'
    BY <1>k, <2>1, <2>2 DEF ScanInv
  <2>4. acc' # <<>> => HasPart(acc'[1])
    <3>1. CASE acc = <<>> /\ acc' # <<>>
      <4>1. acc' = Append(acc, buf[1]) /\ acc'[1] = buf[1]
        BY <1>0, <2>1, <3>1
      <4>2. \E f \in Elements(acc) \cup {buf[1]} : HasPart(f)
        BY <1>0, <1>6, <3>1, ScanFacts DEF HasPart
      <4> QED BY <1>0, <3>1, <4>1, <4>2
    <3>2. CASE acc # <<>> /\ acc' # <<>>
      <4>1. acc'[1] = acc[1]
        BY <1>0, <2>1, <3>2, AppendFacts
      <4> QED BY <3>2, <4>1 DEF ScanInv
    <3> QED BY <3>1, <3>2
  <2>5. \A k \in DOMAIN buf' : buf'[k].part = "big" => k = Len(buf')
    <3>1. \A k \in 1..Len(buf') : k + 1 \in DOMAIN buf
      BY <1>0, <2>1
    <3>2. ASSUME NEW k \in 1..Len(buf'), buf'[k].part = "big"
          PROVE  k = Len(buf')
      <4>1. k + 1 \in DOMAIN buf /\ buf[k + 1].part = "big"
        BY <2>1, <3>1, <3>2
      <4>2. k + 1 = Len(buf)
        BY <4>1 DEF ScanInv
      <4> QED BY <1>0, <2>1, <4>2
    <3> QED BY <2>1, <3>2
  <2>6. pos' # 0
    BY <2>1 DEF ScanInv
  <2> QED BY <1>0, <1>e, <1>s, <2>1, <2>3, <2>4, <2>5, <2>6 DEF ScanInv, chanVars, fileVars, Elements
<1>7. CASE TooLong \/ SendStops
  <2>1. /\ UNCHANGED <<fileVars, sent, stale>> /\ buf' = <<>> /\ acc' = <<>>
        /\ (pos' = pos /\ offset' = pos) \/ (pos' = offset /\ offset' = offset)
    BY <1>7 DEF TooLong, SendStops, chanVars
  <2> QED BY <1>0, <1>e, <1>s, <2>1 DEF ScanInv, fileVars, Elements
<1>8. CASE Send
  <2> DEFINE item == [line |-> acc[1].line, whole |-> WholeLine(acc)]
  <2>1. /\ sent' = Append(sent, item) /\ acc' = <<>>
        /\ UNCHANGED <<fileVars, offset, pos, buf, eof, taken, stopped, lost, stale>>
    BY <1>8 DEF Send
  <2>2. acc # <<>> /\ acc[1] \in Elements(acc) /\ acc[1] \in Fragment
    BY <1>0, <1>8, ElementFacts DEF Send, TailerTypeOK, Elements
  <2>3. item.line = acc[1].line /\ item.whole = WholeLine(acc)
    OBVIOUS
  <2>4. item \in [line : Nat, whole : BOOLEAN]
    BY <2>2 DEF Fragment, WholeLine
  <2> HIDE DEF item
  <2>5. item.line <= lines /\ (item.whole => item.line \in written)
    <3>1. item.line <= lines
      BY <2>2, <2>3 DEF ScanInv, Known
    <3>2. ASSUME WholeLine(acc)
          PROVE  item.line \in written
      <4>1. PICK f \in Elements(acc) : f.part \in Complete /\ f.line = acc[1].line
        BY <1>0, <2>2, <3>2, WholeFacts
      <4> QED BY <2>3, <4>1 DEF ScanInv, Known
    <3> QED BY <2>3, <3>1, <3>2
  <2>6. ASSUME NEW k \in DOMAIN sent'
        PROVE  sent'[k].line <= lines' /\ (sent'[k].whole => sent'[k].line \in written')
    <3>1. sent \in Seq([line : Nat, whole : BOOLEAN])
      BY DEF TailerTypeOK
    <3>2. (k \in DOMAIN sent /\ sent'[k] = sent[k]) \/ sent'[k] = item
      BY <2>1, <2>4, <3>1, AppendFacts
    <3> QED BY <2>1, <2>5, <3>2 DEF ScanInv, fileVars
  <2>7. \A f \in Elements(acc') \cup Elements(buf') : Known(f)'
    BY <1>0, <1>k, <2>1 DEF ScanInv, Elements
  <2> QED BY <1>0, <1>e, <2>1, <2>6, <2>7 DEF ScanInv, fileVars
<1> QED BY <1>1, <1>2, <1>3, <1>4, <1>5, <1>6, <1>7, <1>8 DEF TailerNext, Reading

----------------------------------------------------------------------------
(* What is ahead of the scanner. *)

LEMMA PrefixLines ==
  ASSUME TailerTypeOK, NEW n \in Nat, n <= Len(file), NEW k \in 1..n
  PROVE  file[k].line \in LinesOf(SubSeq(file, 1, n))
<1> DEFINE q == SubSeq(file, 0 + 1, n)
<1>1. file \in Seq(Fragment) /\ 0 \in Nat /\ n \in 0 .. Len(file)
  BY DEF TailerTypeOK
<1>2. q \in Seq(Fragment) /\ Len(q) = n - 0 /\ \A i \in 1 .. n - 0 : q[i] = file[0 + i]
  BY <1>1, SubFacts
<1>3. k \in DOMAIN q /\ q[k] = file[k]
  <2>1. k \in 1 .. n - 0 /\ file[0 + k] = file[k]
    OBVIOUS
  <2> QED BY <1>2, <2>1
<1>4. file[k].line \in LinesOf(q)
  BY <1>3 DEF LinesOf
<1> QED BY <1>4

LEMMA WriteAhead ==
  ASSUME TailerTypeOK, ScanInv, NEW f \in Fragment, file' = Append(file, f), UNCHANGED <<pos, stale>>
  PROVE  Unread' = Unread \cup {f}
<1>1. /\ file \in Seq(Fragment) /\ Len(file) \in Nat
      /\ Len(file') = Len(file) + 1
      /\ \A i \in 1..Len(file) : file'[i] = file[i]
      /\ file'[Len(file) + 1] = f
  BY AppendFacts DEF TailerTypeOK
<1>2. DOMAIN file = 1..Len(file) /\ DOMAIN file' = 1..Len(file) + 1
  <2>1. file' \in Seq(Fragment)
    BY <1>1
  <2> QED BY <1>1, <2>1
<1>3. stale \/ Len(file) + 1 > pos
  BY <1>1 DEF ScanInv, TailerTypeOK
<1>4. \A i \in DOMAIN file' : i \in DOMAIN file \/ i = Len(file) + 1
  BY <1>1, <1>2
<1>5. \A i \in DOMAIN file : i \in DOMAIN file' /\ file'[i] = file[i]
  BY <1>1, <1>2
<1>6. Unread' \subseteq Unread \cup {f}
  BY <1>1, <1>4, <1>5 DEF Unread
<1>7. Len(file) + 1 \in DOMAIN file'
  BY <1>1, <1>2
<1>8. Unread \cup {f} \subseteq Unread'
  BY <1>1, <1>3, <1>5, <1>7 DEF Unread
<1> QED BY <1>6, <1>8

LEMMA StartAhead ==
  ASSUME TailerTypeOK, ScanInv, StartRead
  PROVE  /\ acc = <<>> /\ buf = <<>> /\ acc' = <<>> /\ buf' = <<>>
         /\ Unread' \subseteq Unread
         /\ \A f \in Unread : f \in Unread' \/ f.line \in lost'
         /\ lost \subseteq lost' /\ pc' # "send"
         /\ UNCHANGED <<fileVars, chanVars, stopped>>
<1>1. /\ acc = <<>> /\ buf = <<>> /\ pos = offset /\ acc' = <<>> /\ buf' = <<>> /\ pc' # "send"
      /\ lost \subseteq lost' /\ stale' = FALSE
      /\ UNCHANGED <<fileVars, chanVars, stopped>>
      /\ pos' = IF Len(file) < offset THEN 0 ELSE offset
      /\ stale /\ Len(file) >= offset => LinesOf(SubSeq(file, 1, offset)) \subseteq lost'
  BY DEF StartRead, ReadFrom, TailerTypeOK
<1>2. file' = file /\ Len(file) \in Nat /\ offset \in Nat /\ DOMAIN file = 1..Len(file)
  BY <1>1 DEF fileVars, TailerTypeOK
<1>3. Unread' \subseteq Unread
  <2>1. ASSUME NEW i \in DOMAIN file, i > pos'
        PROVE  stale \/ i > pos
    BY <1>1, <1>2, <2>1 DEF ScanInv
  <2> QED BY <1>1, <1>2, <2>1 DEF Unread
<1>4. ASSUME NEW f \in Unread
      PROVE  f \in Unread' \/ f.line \in lost'
  <2>1. PICK i \in DOMAIN file : f = file[i] /\ (stale \/ i > pos)
    BY DEF Unread
  <2>2. CASE i > pos'
    BY <1>2, <2>1, <2>2 DEF Unread
  <2>3. CASE ~(i > pos')
    <3>1. stale /\ Len(file) >= offset /\ offset <= Len(file) /\ i \in 1..offset
      BY <1>1, <1>2, <2>1, <2>3
    <3>2. f.line \in LinesOf(SubSeq(file, 1, offset))
      BY <1>2, <2>1, <3>1, PrefixLines
    <3> QED BY <1>1, <3>1, <3>2
  <2> QED BY <2>2, <2>3
<1> QED BY <1>1, <1>3, <1>4

LEMMA FillAhead ==
  ASSUME TailerTypeOK, ScanInv, Fill
  PROVE  /\ Ahead' \subseteq Ahead
         /\ \A f \in Ahead : f \in Ahead' \/ f.line \in lost'
<1>1. PICK to \in pos + 1 .. Len(file) :
           /\ pos' = to /\ pos + 1 \in DOMAIN file
           /\ buf = <<>> /\ buf' \in Seq(Fragment) /\ Len(buf') = to - pos
           /\ \A k \in 1..Len(buf') : /\ buf'[k] = file[pos + k] /\ pos + k \in DOMAIN file
                                      /\ buf'[k].part = "big" => k = Len(buf')
           /\ stale' = FALSE
           /\ lost' = IF stale THEN lost \cup LinesOf(SubSeq(file, 1, pos + 1)) ELSE lost
           /\ UNCHANGED <<fileVars, offset, pc, acc, eof, chanVars, stopped>>
  BY FillFacts
<1>2. file' = file /\ Len(file) \in Nat /\ pos \in Nat /\ DOMAIN file = 1..Len(file) /\ to \in Nat
  BY <1>1 DEF fileVars, TailerTypeOK
<1>3. DOMAIN buf' = 1..Len(buf') /\ \A k \in 1..Len(buf') : pos + k > pos
  BY <1>1, <1>2
<1>4. Elements(buf') \subseteq Unread
  BY <1>1, <1>3 DEF Elements, Unread
<1>5. \A i \in DOMAIN file : i > pos' => i > pos
  BY <1>1, <1>2
<1>6. Unread' \subseteq Unread
  BY <1>1, <1>2, <1>5 DEF Unread
<1>7. ASSUME NEW f \in Ahead
      PROVE  f \in Ahead' \/ f.line \in lost'
  <2>1. PICK i \in DOMAIN file : f = file[i] /\ (stale \/ i > pos)
    BY <1>1, NoElements DEF Ahead, Unread
  <2>2. CASE i > pos'
    BY <1>2, <2>1, <2>2 DEF Ahead, Unread
  <2>3. CASE i > pos /\ ~(i > pos')
    <3>1. i - pos \in 1..Len(buf') /\ pos + (i - pos) = i
      BY <1>1, <1>2, <2>3
    <3>2. buf'[i - pos] = f
      BY <1>1, <2>1, <3>1
    <3> QED BY <1>3, <3>1, <3>2 DEF Ahead, Elements
  <2>4. CASE ~(i > pos)
    <3>1. stale /\ i \in 1..pos + 1 /\ pos + 1 <= Len(file) /\ pos + 1 \in Nat
      BY <1>1, <1>2, <2>1, <2>4
    <3>2. f.line \in LinesOf(SubSeq(file, 1, pos + 1))
      BY <2>1, <3>1, PrefixLines
    <3> QED BY <1>1, <3>1, <3>2
  <2> QED BY <2>2, <2>3, <2>4
<1> QED BY <1>4, <1>6, <1>7 DEF Ahead

----------------------------------------------------------------------------
(* Everything comes in order. *)

LEMMA OrderStep ==
  ASSUME TailerTypeOK, FileInv, ScanInv, OrderInv, TailerNext, ~stopped'
  PROVE  OrderInv'
<1>0. /\ file \in Seq(Fragment) /\ buf \in Seq(Fragment) /\ acc \in Seq(Fragment)
      /\ Elements(<<>>) = {} /\ DOMAIN <<>> = {}
      /\ \A f \in Elements(acc) \cup Elements(buf) \cup Unread : f \in Fragment /\ Known(f)
  <2>1. file \in Seq(Fragment) /\ buf \in Seq(Fragment) /\ acc \in Seq(Fragment)
    BY DEF TailerTypeOK
  <2>2. \A f \in Elements(acc) \cup Elements(buf) : f \in Fragment /\ Known(f)
    BY <2>1, ElementFacts DEF ScanInv
  <2>3. \A f \in Unread : f \in Fragment /\ Known(f)
    BY <2>1, MemberFacts DEF Unread, FileInv
  <2> QED BY <2>1, <2>2, <2>3, NoElements
\* With nothing new, what goes away disturbs no order.
<1>u. ASSUME UNCHANGED <<sent, buf>>, Elements(acc') \subseteq Elements(acc), Unread' \subseteq Unread
      PROVE  OrderInv'
  <2>1. Ahead' \subseteq Ahead /\ Elements(buf') = Elements(buf)
    BY <1>u DEF Ahead, Elements
  <2> QED BY <1>u, <2>1 DEF OrderInv
<1>n. ASSUME UNCHANGED sent, buf' = <<>>, acc' = <<>>, Unread' \subseteq Ahead
      PROVE  OrderInv'
  <2>1. Elements(acc') = {} /\ Elements(buf') = {} /\ Ahead' \subseteq Ahead
    BY <1>0, <1>n DEF Ahead
  <2> QED BY <1>0, <1>n, <2>1 DEF OrderInv
<1>1. ASSUME NEW part \in Parts, Write(part)
      PROVE  OrderInv'
  <2>1. PICK f \in Fragment :
           /\ f.part = part /\ f.line = lines' /\ lines' \in Nat
           /\ file' = Append(file, f) /\ lines <= lines'
           /\ HasPart(f) => \A m \in written : m < lines'
           /\ UNCHANGED <<truncations, offset, scanVars, chanVars, stopped, lost, stale>>
    BY <1>1, WriteFacts
  <2>2. Unread' = Unread \cup {f}
    BY <2>1, WriteAhead DEF scanVars
  <2>3. /\ Elements(acc') = Elements(acc) /\ Elements(buf') = Elements(buf)
        /\ sent' = sent /\ buf' = buf /\ Ahead' = Ahead \cup {f}
    BY <2>1, <2>2 DEF scanVars, chanVars, Ahead, Elements
  <2>4. \A g \in Elements(acc) \cup Elements(buf) : Before(g, f)
    <3>1. ASSUME NEW g \in Elements(acc) \cup Elements(buf)
          PROVE  Before(g, f)
      <4>1. g \in Fragment /\ Known(g)
        BY <1>0
      <4>2. g.line \in Nat /\ lines \in Nat
        BY <4>1 DEF Fragment, TailerTypeOK
      <4> QED BY <2>1, <4>1, <4>2 DEF Before, Known
    <3> QED BY <3>1
  <2>5. \A k \in DOMAIN sent : SentBefore(sent[k], f)
    <3>1. ASSUME NEW k \in DOMAIN sent
          PROVE  SentBefore(sent[k], f)
      <4>1. /\ sent[k].line \in Nat /\ lines \in Nat
            /\ sent[k].line <= lines /\ (sent[k].whole => sent[k].line \in written)
        BY SentFacts DEF ScanInv, TailerTypeOK
      <4> QED BY <2>1, <4>1 DEF SentBefore
    <3> QED BY <3>1
  <2> QED BY <2>2, <2>3, <2>4, <2>5 DEF OrderInv
<1>2. CASE Truncate
  <2>1. Unread' = {}
    BY <1>0, <1>2 DEF Truncate, Unread
  <2> QED BY <1>2, <1>u, <2>1 DEF Truncate, scanVars, chanVars
<1>3. CASE StartRead
  BY <1>3, <1>n, StartAhead DEF chanVars, Ahead
<1>4. CASE Fill
  <2>1. PICK to \in pos + 1 .. Len(file) :
           /\ pos' = to
           /\ buf' \in Seq(Fragment) /\ Len(buf') = to - pos
           /\ \A k \in 1..Len(buf') : buf'[k] = file[pos + k] /\ pos + k \in DOMAIN file
           /\ stale' = FALSE
           /\ UNCHANGED <<fileVars, offset, pc, acc, eof, chanVars, stopped>>
    BY <1>4, FillFacts
  <2>2. Ahead' \subseteq Ahead
    BY <1>4, FillAhead
  <2>3. pos \in Nat /\ to \in Nat /\ DOMAIN buf' = 1..Len(buf') /\ DOMAIN file = 1..Len(file)
        /\ Len(file) \in Nat
    BY <2>1 DEF TailerTypeOK
  <2>4. ASSUME NEW i \in DOMAIN buf', NEW k \in DOMAIN buf', i < k
        PROVE  Before(buf'[i], buf'[k])
    <3>1. pos + i < pos + k
      BY <2>3, <2>4
    <3> QED BY <2>1, <2>3, <3>1 DEF FileInv
  <2>5. ASSUME NEW k \in DOMAIN buf', NEW i \in DOMAIN file, i > pos'
        PROVE  Before(buf'[k], file[i])
    <3>1. pos + k < i
      BY <2>1, <2>3, <2>5
    <3> QED BY <2>1, <2>3, <3>1 DEF FileInv
  <2>6. \A f \in Elements(buf'), g \in Unread' : Before(f, g)
    BY <2>1, <2>5 DEF Elements, Unread, fileVars
  <2>7. sent' = sent /\ Elements(acc') = Elements(acc)
    BY <2>1 DEF chanVars, Elements
  <2> QED BY <2>2, <2>4, <2>6, <2>7 DEF OrderInv
<1>5. CASE EndOfFile \/ Finish \/ Receive
  <2>1. UNCHANGED <<file, acc, buf, pos, sent, stale>>
    BY <1>5 DEF EndOfFile, Finish, Receive, scanVars, chanVars, fileVars
  <2>2. Elements(acc') = Elements(acc) /\ Unread' = Unread
    BY <2>1 DEF Elements, Unread
  <2> QED BY <1>u, <2>1, <2>2
<1>6. CASE Scan
  <2>1. /\ buf # <<>> /\ buf[1] \in Fragment
        /\ buf' \in Seq(Fragment) /\ Len(buf') = Len(buf) - 1 /\ Len(buf) \in Nat
        /\ \A k \in 1..Len(buf') : buf'[k] = buf[k + 1]
        /\ Elements(buf) = {buf[1]} \cup Elements(buf')
        /\ \/ acc' = Append(acc, buf[1])
           \/ acc' = <<>>
        /\ UNCHANGED <<fileVars, offset, pos, eof, chanVars, stopped, lost, stale>>
    BY <1>6, ScanFacts
  <2>2. Elements(acc') \subseteq Elements(acc) \cup {buf[1]}
    <3>1. Elements(Append(acc, buf[1])) = Elements(acc) \cup {buf[1]}
      BY <1>0, <2>1, AppendElements
    <3> QED BY <1>0, <2>1, <3>1
  <2>3. Unread' = Unread /\ sent' = sent
    BY <2>1 DEF Unread, fileVars, chanVars
  <2>4. Elements(acc') \cup Ahead' \subseteq Elements(acc) \cup Ahead /\ Ahead' \subseteq Ahead
    BY <2>1, <2>2, <2>3 DEF Ahead
  <2>5. \A k \in DOMAIN buf' : k + 1 \in DOMAIN buf /\ buf'[k] = buf[k + 1] /\ k \in Nat
    BY <1>0, <2>1
  <2>6. ASSUME NEW i \in DOMAIN buf', NEW k \in DOMAIN buf', i < k
        PROVE  Before(buf'[i], buf'[k])
    <3>1. i + 1 < k + 1
      BY <2>5, <2>6
    <3> QED BY <2>5, <3>1 DEF OrderInv
  <2>7. \A f \in Elements(buf') : Before(buf[1], f)
    <3>1. \A k \in DOMAIN buf' : 1 < k + 1 /\ 1 \in DOMAIN buf
      BY <2>1, <2>5
    <3>2. \A k \in DOMAIN buf' : Before(buf[1], buf[k + 1])
      BY <2>5, <3>1 DEF OrderInv
    <3> QED BY <2>5, <3>2 DEF Elements
  <2>8. \A f \in Elements(acc'), g \in Ahead' : Before(f, g)
    <3>1. \A g \in Ahead' : Before(buf[1], g)
      BY <2>1, <2>3, <2>7 DEF Ahead, OrderInv
    <3> QED BY <2>2, <2>4, <3>1 DEF OrderInv
  <2>9. \A k \in DOMAIN sent' : \A g \in Elements(acc') \cup Ahead' : SentBefore(sent'[k], g)
    BY <2>3, <2>4 DEF OrderInv
  <2>10. \A f \in Elements(buf'), g \in Unread' : Before(f, g)
    BY <2>1, <2>3 DEF OrderInv
  <2> QED BY <2>6, <2>8, <2>9, <2>10 DEF OrderInv
<1>7. CASE TooLong
  <2>1. UNCHANGED <<file, pos, sent, stale>> /\ buf' = <<>> /\ acc' = <<>>
    BY <1>7 DEF TooLong, chanVars, fileVars
  <2>2. Unread' \subseteq Ahead
    BY <2>1 DEF Unread, Ahead
  <2> QED BY <1>n, <2>1, <2>2
<1>8. CASE Send
  <2> DEFINE item == [line |-> acc[1].line, whole |-> WholeLine(acc)]
  <2>1. /\ sent' = Append(sent, item) /\ acc' = <<>> /\ acc # <<>>
        /\ UNCHANGED <<fileVars, offset, pos, buf, eof, taken, stopped, lost, stale>>
    BY <1>8 DEF Send, TailerTypeOK
  <2>2. acc[1] \in Elements(acc) /\ acc[1] \in Fragment
    <3>1. 1 \in 1..Len(acc)
      BY <1>0, <2>1
    <3> QED BY <1>0, <3>1, ElementFacts, MemberFacts
  <2>3. item.line = acc[1].line /\ item.whole = WholeLine(acc)
    OBVIOUS
  <2>4. item \in [line : Nat, whole : BOOLEAN]
    BY <2>2 DEF Fragment, WholeLine
  <2> HIDE DEF item
  <2>5. /\ buf' = buf /\ Unread' = Unread /\ Elements(buf') = Elements(buf) /\ Ahead' = Ahead
        /\ Elements(acc') = {}
    BY <1>0, <2>1 DEF Unread, Ahead, Elements, fileVars
  <2>6. \A g \in Ahead : SentBefore(item, g)
    <3>1. ASSUME NEW g \in Ahead
          PROVE  SentBefore(item, g)
      <4>1. Before(acc[1], g)
        BY <2>2 DEF OrderInv
      <4>2. ASSUME WholeLine(acc)
            PROVE  HasPart(g) => item.line < g.line
        <5>1. PICK f \in Elements(acc) : f.part \in Complete /\ f.line = acc[1].line
          BY <1>0, <2>1, <4>2, WholeFacts
        <5>2. Before(f, g)
          BY DEF OrderInv
        <5> QED BY <2>3, <5>1, <5>2 DEF Before
      <4> QED BY <2>3, <4>1, <4>2 DEF SentBefore, Before
    <3> QED BY <3>1
  <2>7. ASSUME NEW k \in DOMAIN sent'
        PROVE  (k \in DOMAIN sent /\ sent'[k] = sent[k]) \/ sent'[k] = item
    BY <2>1, <2>4, SentFacts, AppendFacts
  <2>8. \A k \in DOMAIN sent' : \A g \in Elements(acc') \cup Ahead' : SentBefore(sent'[k], g)
    BY <2>5, <2>6, <2>7 DEF OrderInv
  <2>9. \A i, k \in DOMAIN buf' : i < k => Before(buf'[i], buf'[k])
    BY <2>5 DEF OrderInv
  <2>10. \A f \in Elements(buf'), g \in Unread' : Before(f, g)
    BY <2>5 DEF OrderInv
  <2>11. \A f \in Elements(acc'), g \in Ahead' : Before(f, g)
    BY <2>5
  <2> QED BY <2>8, <2>9, <2>10, <2>11 DEF OrderInv
<1>9. ~(SendStops \/ Leave \/ Stop)
  BY DEF SendStops, Leave, Stop
<1> QED BY <1>1, <1>2, <1>3, <1>4, <1>5, <1>6, <1>7, <1>8, <1>9 DEF TailerNext, Reading

----------------------------------------------------------------------------
(* What is put together is a line. *)

\* What ends with one fragment of the file fits the next.
LEMMA EndsSucceeds ==
  ASSUME NEW f, NEW g, NEW a, NEW gone, Succeeds(f, g), Ends(a, f, gone)
  PROVE  Fits(a, g, gone)
<1>1. CASE f.part = "text"
  <2>1. g.part = "newline" /\ g.line = f.line
    BY <1>1 DEF Succeeds
  <2>2. LinesOf(a) \subseteq gone \/ a = <<[line |-> f.line, part |-> "text"]>>
    BY <1>1 DEF Ends
  <2>3. LinesOf(a) \subseteq gone \/ a = <<[line |-> g.line, part |-> "text"]>>
    BY <2>1, <2>2, Zenon
  <2> QED BY <2>1, <2>3 DEF Fits
<1>2. CASE f.part \in {"head", "big"}
  <2>1. g.part = "tail" /\ g.line = f.line
    BY <1>2 DEF Succeeds
  <2>2. LinesOf(a) \cup {f.line} \subseteq gone \/ a = <<[line |-> f.line, part |-> "head"]>>
    BY <1>2 DEF Ends
  <2>3. LinesOf(a) \cup {g.line} \subseteq gone \/ a = <<[line |-> g.line, part |-> "head"]>>
    BY <2>1, <2>2, Zenon
  <2> QED BY <2>1, <2>3 DEF Fits
<1>3. CASE f.part \notin {"text", "head", "big"}
  <2>1. g.part # "tail" /\ a = <<>> /\ LinesOf(a) = {}
    BY <1>3, NoElements DEF Succeeds, Ends
  <2>2. LinesOf(a) \subseteq gone
    BY <2>1
  <2> QED BY <2>1, <2>2 DEF Fits
<1> QED BY <1>1, <1>2, <1>3

\* The file at which the scanner looks, as far as the invariant needs it.
LEMMA JoinAfter ==
  ASSUME TailerTypeOK, FileInv, NEW q \in Nat, q <= Len(file), NEW a, NEW gone,
         IF q = 0 THEN a = <<>> ELSE Ends(a, file[q], gone)
  PROVE  q < Len(file) => Fits(a, file[q + 1], gone)
<1>1. file \in Seq(Fragment) /\ DOMAIN file = 1..Len(file) /\ Len(file) \in Nat
  BY DEF TailerTypeOK
<1> SUFFICES ASSUME q < Len(file)
             PROVE  Fits(a, file[q + 1], gone)
  OBVIOUS
<1>2. CASE q = 0
  <2>1. a = <<>> /\ file[q + 1].part # "tail" /\ LinesOf(a) \subseteq gone
    BY <1>1, <1>2, NoElements DEF FileInv
  <2> QED BY <2>1 DEF Fits
<1>3. CASE q # 0
  <2>1. Succeeds(file[q], file[q + 1])
    <3>1. q + 1 \in DOMAIN file /\ q + 1 > 1 /\ q + 1 - 1 = q
      BY <1>1, <1>3
    <3> QED BY <3>1 DEF FileInv
  <2> QED BY <1>3, <2>1, EndsSucceeds
<1> QED BY <1>2, <1>3

\* A line of which a read holds the beginning is lost when the rest does not fit.
LEMMA TooLongJoins ==
  ASSUME TailerTypeOK, ScanInv, JoinInv, TooLong
  PROVE  /\ Len(buf) = 1 /\ Elements(buf) = {buf[1]}
         /\ \A f \in Elements(acc) : f.line \in lost
         /\ ~stale => pos \in 1..Len(file) /\ buf[1] = file[pos]
<1>1. /\ buf # <<>> /\ buf[1].part = "big" /\ pc = "scan"
      /\ buf \in Seq(Fragment) /\ acc \in Seq(Fragment) /\ pos \in Nat /\ Len(file) \in Nat
  BY DEF TooLong, TailerTypeOK
<1>2. 1 \in DOMAIN buf /\ Len(buf) \in Nat /\ DOMAIN buf = 1..Len(buf)
  BY <1>1
<1>3. Len(buf) = 1
  BY <1>1, <1>2 DEF ScanInv
<1>4. Elements(buf) = {buf[1]}
  BY <1>2, <1>3 DEF Elements
<1>5. CASE stale
  BY <1>3, <1>4, <1>5 DEF JoinInv, Owned
<1>6. CASE ~stale
  <2>1. JoinAt(pos - Len(buf)) /\ Len(buf) <= pos /\ pos <= Len(file)
    BY <1>6 DEF JoinInv, ScanInv
  <2>2. /\ buf[1] = file[pos - Len(buf) + 1]
        /\ pos - Len(buf) < Len(file) => Fits(Held, file[pos - Len(buf) + 1], lost)
    BY <1>2, <2>1 DEF JoinAt
  <2>3. pos \in 1..Len(file) /\ pos - Len(buf) + 1 = pos /\ pos - Len(buf) < Len(file)
    BY <1>1, <1>3, <2>1
  <2>4. Fits(acc, buf[1], lost) /\ buf[1] = file[pos]
    BY <1>1, <2>2, <2>3 DEF Held
  <2>5. \A f \in Elements(acc) : f.line \in lost
    <3>1. LinesOf(acc) = {f.line : f \in Elements(acc)}
      BY <1>1, ElementFacts
    <3> QED BY <1>1, <2>4, <3>1, NoElements DEF Fits
  <2> QED BY <1>3, <1>4, <2>3, <2>4, <2>5
<1> QED BY <1>5, <1>6

----------------------------------------------------------------------------
(* Nothing that is owed is left out. *)

LEMMA SentGrows ==
  ASSUME TailerTypeOK, NEW item, sent' = Append(sent, item)
  PROVE  /\ Len(sent) + 1 \in DOMAIN sent' /\ sent'[Len(sent) + 1] = item
         /\ \A k \in DOMAIN sent : k \in DOMAIN sent' /\ sent'[k] = sent[k]
<1>1. sent \in Seq({sent[k] : k \in DOMAIN sent} \cup {item})
  BY SentFacts
<1> QED BY <1>1, AppendFacts

LEMMA OwedStep ==
  ASSUME TailerTypeOK, FileInv, ScanInv, OwedInv, JoinInv, TailerNext, ~stopped'
  PROVE  OwedInv'
<1>0. /\ file \in Seq(Fragment) /\ buf \in Seq(Fragment) /\ acc \in Seq(Fragment)
      /\ Elements(<<>>) = {}
  BY NoElements DEF TailerTypeOK
\* What was written stays, and each fragment of text that goes has been sent or is lost.
<1>k. ASSUME written' = written, lost \subseteq lost',
             \A m : LS!Emitted(m) => LS!Emitted(m)',
             \A f \in Elements(acc) \cup Ahead : HasPart(f) =>
               f \in Elements(acc') \cup Ahead' \/ f.line \in lost' \/ LS!Emitted(f.line)'
      PROVE  OwedInv'
  BY <1>k DEF OwedInv
<1>e. ASSUME sent' = sent
      PROVE  \A m : LS!Emitted(m) => LS!Emitted(m)'
  BY <1>e DEF LS!Emitted
<1>1. ASSUME NEW part \in Parts, Write(part)
      PROVE  OwedInv'
  <2>1. PICK f \in Fragment :
           /\ f.part = part /\ f.line = lines' /\ lines' \in Nat
           /\ file' = Append(file, f)
           /\ written' = IF f.part \in Complete THEN written \cup {lines'} ELSE written
           /\ UNCHANGED <<truncations, offset, scanVars, chanVars, stopped, lost, stale>>
    BY <1>1, WriteFacts
  <2>2. Unread' = Unread \cup {f}
    BY <2>1, WriteAhead DEF scanVars
  <2>3. /\ Elements(acc') = Elements(acc) /\ Ahead' = Ahead \cup {f}
        /\ sent' = sent /\ lost' = lost
    BY <2>1, <2>2 DEF scanVars, chanVars, Ahead, Elements
  <2>4. ASSUME NEW m \in written'
        PROVE  m \in lost' \/ LS!Emitted(m)'
               \/ \E g \in Elements(acc') \cup Ahead' : g.line = m /\ HasPart(g)
    <3>1. CASE m \in written
      BY <1>e, <2>3, <3>1 DEF OwedInv
    <3>2. CASE m \notin written
      <4>1. m = f.line /\ f.part \in Complete
        BY <2>1, <2>4, <3>2
      <4>2. HasPart(f) /\ f \in Ahead'
        BY <2>3, <4>1 DEF HasPart, Complete
      <4> QED BY <4>1, <4>2
    <3> QED BY <3>1, <3>2
  <2> QED BY <2>4 DEF OwedInv
<1>2. CASE Truncate
  <2>1. /\ file' = <<>> /\ UNCHANGED <<written, sent, acc, buf>> /\ lost' = lost \cup LinesOf(file)
    BY <1>2 DEF Truncate, scanVars, chanVars
  <2>2. \A f \in Unread : f.line \in lost'
    BY <2>1 DEF Unread, LinesOf
  <2>3. \A f \in Elements(acc) \cup Ahead : f \in Elements(acc') \cup Ahead' \/ f.line \in lost'
    BY <2>1, <2>2 DEF Ahead, Elements
  <2> QED BY <1>e, <1>k, <2>1, <2>3
<1>3. CASE StartRead
  <2>1. /\ acc = <<>> /\ buf = <<>>
        /\ \A f \in Unread : f \in Unread' \/ f.line \in lost'
        /\ lost \subseteq lost' /\ UNCHANGED <<written, sent>>
    BY <1>3, StartAhead DEF fileVars, chanVars
  <2>2. \A f \in Elements(acc) \cup Ahead : f \in Ahead' \/ f.line \in lost'
    BY <1>0, <2>1 DEF Ahead
  <2> QED BY <1>e, <1>k, <2>1, <2>2
<1>4. CASE Fill
  <2>1. \A f \in Ahead : f \in Ahead' \/ f.line \in lost'
    BY <1>4, FillAhead
  <2>2. lost \subseteq lost' /\ UNCHANGED <<written, sent, acc>>
    BY <1>4 DEF Fill, fileVars, chanVars
  <2>3. Elements(acc') = Elements(acc)
    BY <2>2 DEF Elements
  <2> QED BY <1>e, <1>k, <2>1, <2>2, <2>3
<1>5. CASE EndOfFile \/ Finish \/ Receive
  <2>1. UNCHANGED <<file, written, acc, buf, pos, sent, stale>> /\ lost \subseteq lost'
    BY <1>5 DEF EndOfFile, Finish, Receive, scanVars, chanVars, fileVars
  <2>2. Elements(acc') = Elements(acc) /\ Ahead' = Ahead
    BY <2>1 DEF Elements, Unread, Ahead
  <2> QED BY <1>e, <1>k, <2>1, <2>2
<1>6. CASE Scan
  <2>1. /\ buf # <<>> /\ buf[1] \in Fragment
        /\ Elements(buf) = {buf[1]} \cup Elements(buf')
        /\ \/ acc' = Append(acc, buf[1])
           \/ /\ acc' = <<>>
              /\ buf[1].part = "newline" /\ \A f \in Elements(acc) : ~HasPart(f)
        /\ UNCHANGED <<fileVars, offset, pos, eof, chanVars, stopped, lost, stale>>
    BY <1>6, ScanFacts
  <2>2. UNCHANGED <<written, sent, lost>> /\ Unread' = Unread
    BY <2>1 DEF fileVars, chanVars, Unread
  <2>3. \A f \in Elements(acc) \cup {buf[1]} : HasPart(f) => f \in Elements(acc')
    <3>1. Elements(Append(acc, buf[1])) = Elements(acc) \cup {buf[1]}
      BY <1>0, <2>1, AppendElements
    <3> QED BY <2>1, <3>1 DEF HasPart
  <2>4. \A f \in Elements(acc) \cup Ahead : HasPart(f) => f \in Elements(acc') \cup Ahead'
    BY <2>1, <2>2, <2>3 DEF Ahead
  <2> QED BY <1>e, <1>k, <2>2, <2>4
<1>7. CASE TooLong
  <2>1. /\ UNCHANGED <<file, written, pos, sent, stale>> /\ buf' = <<>> /\ acc' = <<>>
        /\ lost' = lost \cup {buf[1].line} /\ buf # <<>> /\ buf[1].part = "big" /\ pc = "scan"
    BY <1>7 DEF TooLong, chanVars, fileVars
  <2>2. Elements(buf) = {buf[1]} /\ \A f \in Elements(acc) : f.line \in lost
    BY <1>7, TooLongJoins
  <2>3. Unread' = Unread
    BY <2>1 DEF Unread
  <2>4. \A f \in Elements(acc) \cup Ahead : f \in Ahead' \/ f.line \in lost'
    BY <2>1, <2>2, <2>3 DEF Ahead
  <2> QED BY <1>e, <1>k, <2>1, <2>4
<1>8. CASE Send
  <2> DEFINE item == [line |-> acc[1].line, whole |-> WholeLine(acc)]
  <2>1. /\ sent' = Append(sent, item) /\ acc' = <<>> /\ acc # <<>> /\ pc = "send"
        /\ UNCHANGED <<fileVars, offset, pos, buf, eof, taken, stopped, lost, stale>>
    BY <1>8 DEF Send, TailerTypeOK
  <2>2. /\ Len(sent) + 1 \in DOMAIN sent' /\ sent'[Len(sent) + 1] = item
        /\ \A k \in DOMAIN sent : k \in DOMAIN sent' /\ sent'[k] = sent[k]
    BY <2>1, SentGrows
  <2>3. \A m : LS!Emitted(m) => LS!Emitted(m)'
    BY <2>2 DEF LS!Emitted
  <2>4. UNCHANGED <<written, lost>> /\ Ahead' = Ahead
    BY <2>1 DEF Ahead, Unread, Elements, fileVars
  <2>5. ASSUME NEW f \in Elements(acc), HasPart(f)
        PROVE  f.line \in lost' \/ LS!Emitted(f.line)'
    <3>1. CASE WholeLine(acc)
      <4>1. f.line = acc[1].line
        BY <1>0, <2>1, <3>1, WholeFacts
      <4>2. item = [line |-> f.line, whole |-> TRUE]
        BY <3>1, <4>1
      <4> QED BY <2>2, <4>2 DEF LS!Emitted
    <3>2. CASE ~WholeLine(acc)
      BY <2>1, <2>4, <2>5, <3>2 DEF JoinInv
    <3> QED BY <3>1, <3>2
  <2>6. \A f \in Elements(acc) \cup Ahead : HasPart(f) =>
          f \in Ahead' \/ f.line \in lost' \/ LS!Emitted(f.line)'
    BY <2>4, <2>5
  <2> QED BY <1>k, <2>3, <2>4, <2>6
<1>9. ~(SendStops \/ Leave \/ Stop)
  BY DEF SendStops, Leave, Stop
<1> QED BY <1>1, <1>2, <1>3, <1>4, <1>5, <1>6, <1>7, <1>8, <1>9 DEF TailerNext, Reading

LEMMA OneIsWhole ==
  ASSUME NEW f, f.part \in {"whole", "text"}
  PROVE  WholeLine(<<f>>)
<1> DEFINE token == <<f>>
<1>1. DOMAIN token = {1} /\ token[1] = f
  OBVIOUS
<1>2. DOMAIN <<f.part>> = {1} /\ <<f.part>>[1] = f.part
  OBVIOUS
<1> HIDE DEF token
<1>3. [k \in DOMAIN token |-> token[k].part] = <<f.part>>
  BY <1>1, <1>2
<1>4. f.part = "whole" \/ f.part = "text"
  OBVIOUS
<1>5. WholeLine(token)
  BY <1>1, <1>3, <1>4 DEF WholeLine
<1> QED BY <1>5 DEF token

LEMMA TwoAreWhole ==
  ASSUME NEW f, NEW g, g.line = f.line,
         (f.part = "text" /\ g.part = "newline") \/ (f.part = "head" /\ g.part = "tail")
  PROVE  WholeLine(<<f, g>>)
<1> DEFINE token == <<f, g>>
<1>1. DOMAIN token = {1, 2} /\ token[1] = f /\ token[2] = g
  OBVIOUS
<1> DEFINE parts == <<f.part, g.part>>
<1>2. DOMAIN parts = {1, 2} /\ parts[1] = f.part /\ parts[2] = g.part
  OBVIOUS
<1>3. parts = <<"text", "newline">> \/ parts = <<"head", "tail">>
  OBVIOUS
<1>4. parts = [k \in {1, 2} |-> parts[k]]
  OBVIOUS
<1> HIDE DEF token, parts
<1>5. [k \in DOMAIN token |-> token[k].part] = parts
  BY <1>1, <1>2, <1>4
<1>6. WholeLine(token)
  BY <1>1, <1>3, <1>5 DEF WholeLine
<1> QED BY <1>6 DEF token

LEMMA Two ==
  ASSUME NEW f, NEW g
  PROVE  Append(<<g>>, f) = <<g, f>>
<1> DEFINE S == {f, g}
           q == Append(<<g>>, f)
           r == <<g, f>>
<1>1. <<g>> \in Seq(S) /\ Len(<<g>>) = 1 /\ <<g>>[1] = g /\ f \in S
  OBVIOUS
<1>2. q \in Seq(S) /\ Len(q) = 2 /\ q[1] = g /\ q[2] = f
  BY <1>1, AppendFacts
<1>3. r \in Seq(S) /\ Len(r) = 2 /\ r[1] = g /\ r[2] = f
  OBVIOUS
<1> HIDE DEF q, r
<1>4. \A i \in 1..Len(q) : q[i] = r[i]
  BY <1>2, <1>3
<1>5. q = r
  BY <1>2, <1>3, <1>4, SeqEqual
<1> QED BY <1>5 DEF q, r

LEMMA LostGrows ==
  ASSUME NEW a, NEW f, NEW g1, NEW g2, g1 \subseteq g2
  PROVE  (Fits(a, f, g1) => Fits(a, f, g2)) /\ (Ends(a, f, g1) => Ends(a, f, g2))
<1>1. \A S : S \subseteq g1 => S \subseteq g2
  OBVIOUS
<1> QED BY <1>1 DEF Fits, Ends

LEMMA NothingEnds ==
  ASSUME NEW f, NEW gone, f.part \in {"head", "big"} => f.line \in gone
  PROVE  Ends(<<>>, f, gone)
<1>1. LinesOf(<<>>) = {} /\ LinesOf(<<>>) \subseteq gone
  BY NoElements
<1>2. f.line \in gone => LinesOf(<<>>) \cup {f.line} \subseteq gone
  BY <1>1
<1> QED BY <1>1, <1>2 DEF Ends

\* What the scanner has when it has looked at a fragment: the fragments of one line
\* so far, or of lost lines.
LEMMA ScanJoins ==
  ASSUME TailerTypeOK, ScanInv, JoinInv, Scan
  PROVE  /\ pc' = "send" => WholeLine(acc') \/ \A f \in Elements(acc') : HasPart(f) => f.line \in lost
         /\ ~stale => Ends(Held', buf[1], lost)
<1> DEFINE f == buf[1]
<1>1. /\ buf # <<>> /\ f \in Fragment /\ f.part # "big" /\ pc = "scan" /\ Len(buf) \in Nat
      /\ Elements(buf) = {f} \cup Elements(buf')
      /\ \/ /\ acc' = Append(acc, f) /\ pc' = "scan"
            /\ f.part \in {"text", "head"}
         \/ /\ acc' = <<>> /\ pc' = "scan"
            /\ f.part = "newline"
         \/ /\ acc' = Append(acc, f) /\ pc' = "send"
            /\ f.part \in {"whole", "tail", "newline"}
  BY ScanFacts
<1>2. acc \in Seq(Fragment) /\ buf \in Seq(Fragment) /\ pos \in Nat /\ Len(file) \in Nat
  BY DEF TailerTypeOK
<1>3. ~stale => Fits(acc, f, lost)
  <2> SUFFICES ASSUME ~stale PROVE Fits(acc, f, lost)
    OBVIOUS
  <2>1. JoinAt(pos - Len(buf)) /\ Len(buf) <= pos /\ pos <= Len(file)
    BY DEF JoinInv, ScanInv
  <2>2. 1 \in DOMAIN buf /\ pos - Len(buf) < Len(file)
    BY <1>1, <1>2, <2>1
  <2>3. f = file[pos - Len(buf) + 1] /\ Fits(Held, file[pos - Len(buf) + 1], lost)
    BY <2>1, <2>2 DEF JoinAt
  <2> QED BY <1>1, <2>3 DEF Held
<1>4. Elements(Append(acc, f)) = Elements(acc) \cup {f}
  BY <1>1, <1>2, AppendElements
<1>5. Append(acc, f) \in Seq(Fragment)
  BY <1>1, <1>2
<1>6. LinesOf(acc) = {g.line : g \in Elements(acc)} /\ LinesOf(Append(acc, f)) = LinesOf(acc) \cup {f.line}
  <2>1. /\ LinesOf(acc) = {g.line : g \in Elements(acc)}
        /\ LinesOf(Append(acc, f)) = {g.line : g \in Elements(Append(acc, f))}
    BY <1>2, <1>5, ElementFacts
  <2> QED BY <1>4, <2>1
<1>7. stale => \A g \in Elements(Append(acc, f)) : g.line \in lost
  BY <1>1, <1>4 DEF JoinInv, Owned
<1> HIDE DEF f
<1>8. ASSUME pc' = "send"
      PROVE  WholeLine(acc') \/ \A g \in Elements(acc') : HasPart(g) => g.line \in lost
  <2>1. acc' = Append(acc, f) /\ f.part \in {"whole", "tail", "newline"}
    BY <1>1, <1>8
  <2>2. CASE stale \/ LinesOf(acc) \cup {f.line} \subseteq lost
    BY <1>4, <1>6, <1>7, <2>1, <2>2
  <2>3. CASE f.part = "tail" /\ acc = <<[line |-> f.line, part |-> "head"]>>
    <3> DEFINE g == [line |-> f.line, part |-> "head"]
    <3>0. acc = <<g>>
      BY <2>3
    <3>2. g.line = f.line /\ g.part = "head"
      OBVIOUS
    <3> HIDE DEF g
    <3>1. acc' = <<g, f>>
      BY <2>1, <3>0, Two
    <3> QED BY <2>3, <3>1, <3>2, TwoAreWhole
  <2>4. CASE f.part = "newline" /\ LinesOf(acc) \subseteq lost
    BY <1>4, <1>6, <2>1, <2>4 DEF HasPart
  <2>5. CASE f.part = "newline" /\ acc = <<[line |-> f.line, part |-> "text"]>>
    <3> DEFINE g == [line |-> f.line, part |-> "text"]
    <3>0. acc = <<g>>
      BY <2>5
    <3>2. g.line = f.line /\ g.part = "text"
      OBVIOUS
    <3> HIDE DEF g
    <3>1. acc' = <<g, f>>
      BY <2>1, <3>0, Two
    <3> QED BY <2>5, <3>1, <3>2, TwoAreWhole
  <2>6. CASE f.part \notin {"tail", "newline"} /\ acc = <<>>
    <3>1. acc' = <<f>> /\ f.part = "whole"
      BY <2>1, <2>6
    <3> QED BY <3>1, OneIsWhole
  <2> QED BY <1>3, <2>2, <2>3, <2>4, <2>5, <2>6 DEF Fits
<1>9. ASSUME ~stale
      PROVE  Ends(Held', f, lost)
  <2>1. CASE f.part \in {"text", "head"}
    <3>1. acc' = Append(acc, f) /\ Held' = acc'
      BY <1>1, <2>1 DEF Held
    <3>2. CASE LinesOf(acc) \cup {f.line} \subseteq lost
      BY <1>6, <2>1, <3>1, <3>2 DEF Ends
    <3>3. CASE acc = <<>>
      <4>1. f = [line |-> f.line, part |-> f.part]
        BY <1>1 DEF Fragment, f
      <4>2. Held' = <<[line |-> f.line, part |-> f.part]>>
        BY <3>1, <3>3, <4>1
      <4> QED BY <2>1, <4>2 DEF Ends
    <3> QED BY <1>3, <1>9, <2>1, <3>2, <3>3 DEF Fits
  <2>2. CASE f.part \notin {"text", "head"}
    <3>1. Held' = <<>>
      BY <1>1, <2>2 DEF Held
    <3> QED BY <1>1, <2>2, <3>1 DEF Ends, f
  <2> QED BY <2>1, <2>2
<1> QED BY <1>8, <1>9 DEF f

LEMMA Places ==
  /\ \A p \in Nat : \A n : n = 0 => p - n = p
  /\ \A p, n \in Nat : p <= n => p < n \/ p = n
  /\ \A p, n \in Nat : p <= n /\ p >= n => p = n
  OBVIOUS

LEMMA JoinStep ==
  ASSUME TailerTypeOK, FileInv, ScanInv, JoinInv, TailerNext, ~stopped'
  PROVE  JoinInv'
<1>0. /\ file \in Seq(Fragment) /\ buf \in Seq(Fragment) /\ acc \in Seq(Fragment)
      /\ Len(file) \in Nat /\ DOMAIN file = 1..Len(file) /\ Len(buf) \in Nat /\ DOMAIN buf = 1..Len(buf)
      /\ pos \in Nat /\ offset \in Nat
      /\ Elements(<<>>) = {} /\ DOMAIN <<>> = {} /\ Len(<<>>) = 0
  BY NoElements DEF TailerTypeOK
<1>q. ~stale => /\ JoinAt(pos - Len(buf)) /\ Len(buf) <= pos /\ pos <= Len(file)
                /\ pos - Len(buf) \in Nat
  BY <1>0 DEF JoinInv, ScanInv
<1>z. \A s : s = <<>> => Len(s) = 0 /\ DOMAIN s = {}
  BY <1>0
\* A scanner that holds nothing, at position p of the file.
<1>n. ASSUME acc' = <<>>, buf' = <<>>, pc' # "send", file' = file, pos' \in Nat,
             ~stale' => pos' <= Len(file),
             ~stale' => pos' = 0 \/ Ends(<<>>, file[pos'], lost')
      PROVE  JoinInv'
  <2>1. Elements(acc') \cup Elements(buf') = {}
    BY <1>0, <1>n
  <2>2. ASSUME ~stale'
        PROVE  JoinAt(pos - Len(buf))'
    <3>0. Len(buf') = 0 /\ Held' = <<>>
      BY <1>z, <1>n DEF Held
    <3>1. pos' - Len(buf') = pos' /\ Held' = <<>>
      BY <1>n, <3>0, Places
    <3>2. pos' < Len(file) => Fits(<<>>, file[pos' + 1], lost')
      <4>1. IF pos' = 0 THEN <<>> = <<>> ELSE Ends(<<>>, file[pos'], lost')
        BY <1>n, <2>2
      <4>2. \A q \in Nat : q <= Len(file) /\ (IF q = 0 THEN <<>> = <<>> ELSE Ends(<<>>, file[q], lost'))
              => (q < Len(file) => Fits(<<>>, file[q + 1], lost'))
        BY JoinAfter
      <4> QED BY <1>n, <2>2, <4>1, <4>2
    <3>3. \A k \in DOMAIN buf' : buf'[k] = file'[pos' - Len(buf') + k]
      BY <1>0, <1>n
    <3> QED BY <1>n, <2>2, <3>1, <3>2, <3>3 DEF JoinAt
  <2> QED BY <1>n, <2>1, <2>2 DEF JoinInv
\* One that looks where it looked before.
<1>s. ASSUME UNCHANGED <<file, buf, pos, stale>>, acc' \in {acc, <<>>}, Held' = Held, lost' = lost,
             pc' = "send" => pc = "send" /\ acc' = acc
      PROVE  JoinInv'
  <2>1. Elements(acc') \subseteq Elements(acc) /\ Elements(buf') = Elements(buf)
    <3>1. Elements(acc') = Elements(acc) \/ Elements(acc') = {}
      BY <1>0, <1>s
    <3> QED BY <1>s, <3>1 DEF Elements
  <2>2. \A f \in Elements(acc') \cup Elements(buf') : Owned(f)'
    BY <1>s, <2>1 DEF JoinInv, Owned
  <2>3. pc' = "send" => WholeLine(acc') \/ \A f \in Elements(acc') : HasPart(f) => f.line \in lost'
    BY <1>s, <2>1 DEF JoinInv
  <2>4. ~stale' => JoinAt(pos - Len(buf))'
    BY <1>s, <1>q DEF JoinAt
  <2> QED BY <2>2, <2>3, <2>4 DEF JoinInv
<1>1. ASSUME NEW part \in Parts, Write(part)
      PROVE  JoinInv'
  <2>1. PICK f \in Fragment :
           /\ f.part = part
           /\ file' = Append(file, f)
           /\ file = <<>> => part # "tail"
           /\ file # <<>> => Succeeds(file[Len(file)], f)
           /\ UNCHANGED <<truncations, offset, scanVars, chanVars, stopped, lost, stale>>
    BY <1>1, WriteFacts
  <2>2. /\ file' \in Seq(Fragment) /\ Len(file') = Len(file) + 1 /\ file'[Len(file) + 1] = f
        /\ \A k \in 1..Len(file) : file'[k] = file[k]
    BY <1>0, <2>1, AppendFacts
  <2>3. LinesOf(file) \subseteq LinesOf(file')
    <3>1. \A k \in DOMAIN file : k \in DOMAIN file' /\ file'[k] = file[k]
      BY <1>0, <2>2
    <3> QED BY <3>1 DEF LinesOf
  <2>4. /\ UNCHANGED <<pc, pos, buf, acc, lost, stale>> /\ Held' = Held
        /\ Elements(acc') = Elements(acc) /\ Elements(buf') = Elements(buf)
    BY <2>1 DEF scanVars, Held, Elements
  <2>5. \A g \in Elements(acc') \cup Elements(buf') : Owned(g)'
    BY <2>3, <2>4 DEF JoinInv, Owned
  <2>6. pc' = "send" => WholeLine(acc') \/ \A g \in Elements(acc') : HasPart(g) => g.line \in lost'
    BY <2>4 DEF JoinInv
  <2>7. ASSUME ~stale'
        PROVE  JoinAt(pos - Len(buf))'
    <3> DEFINE q == pos - Len(buf)
    <3>1. q \in Nat /\ q <= Len(file) /\ JoinAt(q) /\ q + Len(buf) <= Len(file)
      BY <1>0, <1>q, <2>4, <2>7
    <3>2. pos' - Len(buf') = q
      BY <2>4
    <3> HIDE DEF q
    <3>3. \A k \in DOMAIN buf' : buf'[k] = file'[q + k]
      <4>1. \A k \in DOMAIN buf : q + k \in 1..Len(file) /\ buf[k] = file[q + k]
        <5>1. \A k \in 1..Len(buf) : q + k \in 1..Len(file)
          BY <1>0, <3>1
        <5>2. \A k \in DOMAIN buf : buf[k] = file[q + k]
          BY <3>1 DEF JoinAt
        <5> QED BY <1>0, <5>1, <5>2
      <4> QED BY <2>2, <2>4, <4>1
    <3>4. Fits(Held, file'[q + 1], lost)
      <4>1. CASE q < Len(file)
        <5>1. file'[q + 1] = file[q + 1]
          BY <1>0, <2>2, <3>1, <4>1
        <5> QED BY <3>1, <4>1, <5>1 DEF JoinAt
      <4>2. CASE q = Len(file)
        <5>1. CASE q = 0
          <6>1. file = <<>> /\ Held = <<>> /\ file'[q + 1] = f
            BY <1>0, <2>2, <3>1, <4>2, <5>1 DEF JoinAt
          <6>2. f.part # "tail" /\ LinesOf(Held) \subseteq lost
            BY <2>1, <6>1, NoElements
          <6> QED BY <6>1, <6>2 DEF Fits
        <5>2. CASE q # 0
          <6>1. Ends(Held, file[q], lost) /\ file'[q + 1] = f /\ file # <<>>
            BY <1>0, <2>2, <3>1, <4>2, <5>2 DEF JoinAt
          <6>2. Succeeds(file[q], f)
            BY <2>1, <4>2, <6>1
          <6> QED BY <6>1, <6>2, EndsSucceeds
        <5> QED BY <5>1, <5>2
      <4>3. q < Len(file) \/ q = Len(file)
        BY <1>0, <3>1, Places
      <4> QED BY <4>1, <4>2, <4>3
    <3>5. q < Len(file') /\ q # Len(file')
      BY <1>0, <2>2, <3>1
    <3> QED BY <2>4, <3>2, <3>3, <3>4, <3>5 DEF JoinAt
  <2> QED BY <2>5, <2>6, <2>7 DEF JoinInv
<1>2. CASE Truncate
  <2>1. /\ file' = <<>> /\ UNCHANGED <<pc, pos, acc, buf>> /\ lost' = lost \cup LinesOf(file)
    BY <1>2 DEF Truncate, scanVars
  <2>0. stale' <=> pos > 0
    BY <1>2 DEF Truncate
  <2>2. Elements(acc') = Elements(acc) /\ Elements(buf') = Elements(buf)
    BY <2>1 DEF Elements
  <2>3. \A g \in Elements(acc') \cup Elements(buf') : Owned(g)'
    BY <2>1, <2>2 DEF JoinInv, Owned
  <2>4. pc' = "send" => WholeLine(acc') \/ \A g \in Elements(acc') : HasPart(g) => g.line \in lost'
    BY <2>1, <2>2 DEF JoinInv
  <2>5. ASSUME ~stale'
        PROVE  JoinAt(pos - Len(buf))'
    <3>1. pos = 0 /\ acc = <<>> /\ buf = <<>>
      BY <1>0, <2>0, <2>5 DEF ScanInv
    <3>0. Len(buf') = 0 /\ Len(file') = 0 /\ DOMAIN buf' = {} /\ pos' = 0
      BY <1>z, <2>1, <3>1
    <3>2. pos' - Len(buf') = 0 /\ Len(file') = 0 /\ DOMAIN buf' = {} /\ Held' = <<>>
      BY <2>1, <3>0, <3>1 DEF Held
    <3> QED BY <3>2 DEF JoinAt
  <2> QED BY <2>3, <2>4, <2>5 DEF JoinInv
<1>3. CASE StartRead
  <2>1. /\ acc = <<>> /\ buf = <<>> /\ acc' = <<>> /\ buf' = <<>>
        /\ lost \subseteq lost' /\ pc' # "send" /\ file' = file
    BY <1>3, StartAhead DEF fileVars
  <2>2. /\ pos = offset /\ stale' = FALSE
        /\ pos' = IF Len(file) < offset THEN 0 ELSE offset
        /\ stale /\ Len(file) >= offset => LinesOf(SubSeq(file, 1, offset)) \subseteq lost'
    BY <1>3 DEF StartRead, ReadFrom, TailerTypeOK
  <2>3. pos' \in Nat /\ pos' <= Len(file)
    BY <1>0, <2>2
  <2>4. ASSUME pos' # 0
        PROVE  Ends(<<>>, file[pos'], lost') \/ (~stale /\ JoinAt(pos'))
    <3>1. pos' = offset /\ offset \in 1..Len(file)
      BY <1>0, <2>2, <2>3, <2>4
    <3>2. CASE stale
      <4>1. file[pos'].line \in lost'
        BY <1>0, <2>2, <3>1, <3>2, PrefixLines
      <4> QED BY <4>1, NothingEnds
    <3>3. CASE ~stale
      BY <1>0, <1>q, <2>1, <2>2, <3>1, <3>3
    <3> QED BY <3>2, <3>3
  <2>5. CASE pos' = 0 \/ Ends(<<>>, file[pos'], lost')
    BY <1>n, <2>1, <2>3, <2>5
  <2>6. CASE pos' # 0 /\ ~stale /\ JoinAt(pos')
    <3>0. Len(buf') = 0 /\ DOMAIN buf' = {}
      BY <1>z, <2>1
    <3>1. /\ pos' - Len(buf') = pos' /\ Held' = <<>> /\ Held = <<>>
          /\ Elements(acc') \cup Elements(buf') = {} /\ DOMAIN buf' = {}
      <4>1. pos' - Len(buf') = pos'
        BY <2>3, <3>0, Places
      <4>2. Elements(acc') \cup Elements(buf') = {}
        BY <1>0, <2>1
      <4> QED BY <2>1, <3>0, <4>1, <4>2 DEF Held
    <3>2. /\ pos' < Len(file) => Fits(<<>>, file[pos' + 1], lost)
          /\ pos' = Len(file) => Ends(<<>>, file[pos'], lost)
      BY <2>6, <3>1 DEF JoinAt
    <3>3. /\ pos' < Len(file) => Fits(<<>>, file[pos' + 1], lost')
          /\ pos' = Len(file) => Ends(<<>>, file[pos'], lost')
      <4>1. \A a, f : Fits(a, f, lost) => Fits(a, f, lost')
        BY <2>1, LostGrows
      <4>2. \A a, f : Ends(a, f, lost) => Ends(a, f, lost')
        BY <2>1, LostGrows
      <4> QED BY <3>2, <4>1, <4>2
    <3>4. JoinAt(pos - Len(buf))'
      BY <2>1, <2>6, <3>1, <3>3 DEF JoinAt
    <3> QED BY <2>1, <3>1, <3>4 DEF JoinInv
  <2> QED BY <2>4, <2>5, <2>6
<1>4. CASE Fill
  <2>1. PICK to \in pos + 1 .. Len(file) :
           /\ pos' = to /\ pos + 1 \in DOMAIN file
           /\ buf = <<>> /\ buf' \in Seq(Fragment) /\ Len(buf') = to - pos
           /\ \A k \in 1..Len(buf') : buf'[k] = file[pos + k] /\ pos + k \in DOMAIN file
           /\ pc = "scan" /\ stale' = FALSE
           /\ lost' = IF stale THEN lost \cup LinesOf(SubSeq(file, 1, pos + 1)) ELSE lost
           /\ UNCHANGED <<fileVars, offset, pc, acc, eof, chanVars, stopped>>
    BY <1>4, FillFacts
  <2>2. /\ file' = file /\ lost \subseteq lost' /\ Elements(acc') = Elements(acc)
        /\ Held = acc /\ Held' = acc /\ pos' - Len(buf') = pos /\ DOMAIN buf' = 1..Len(buf')
        /\ pos < Len(file) /\ pos # Len(file)
    <3>1. file' = file /\ lost \subseteq lost' /\ Elements(acc') = Elements(acc)
          /\ Held = acc /\ Held' = acc
      BY <2>1 DEF fileVars, Held, Elements
    <3>2. pos' - Len(buf') = pos /\ DOMAIN buf' = 1..Len(buf') /\ pos < Len(file) /\ pos # Len(file)
      BY <1>0, <2>1
    <3> QED BY <3>1, <3>2
  <2>3. \A g \in Elements(buf') : g.line \in LinesOf(file)
    BY <2>1, <2>2 DEF Elements, LinesOf
  <2>4. \A g \in Elements(acc') \cup Elements(buf') : Owned(g)'
    BY <2>1, <2>2, <2>3 DEF JoinInv, Owned
  <2>5. Fits(acc, file[pos + 1], lost')
    <3>1. CASE stale
      <4>1. file[pos + 1].line \in lost'
        <5>1. pos + 1 \in Nat /\ pos + 1 <= Len(file) /\ pos + 1 \in 1..pos + 1
          BY <1>0, <2>1
        <5> QED BY <2>1, <3>1, <5>1, PrefixLines
      <4>2. \A g \in Elements(acc) : g.line \in lost
        BY <3>1 DEF JoinInv, Owned
      <4>3. LinesOf(acc) = {g.line : g \in Elements(acc)}
        BY <1>0, ElementFacts
      <4>4. LinesOf(acc) \cup {file[pos + 1].line} \subseteq lost'
        BY <2>2, <4>1, <4>2, <4>3
      <4> QED BY <4>4 DEF Fits
    <3>2. CASE ~stale
      <4>1. pos - Len(buf) = pos
        BY <1>0, <2>1
      <4> QED BY <1>q, <2>1, <2>2, <3>2, <4>1 DEF JoinAt
    <3> QED BY <3>1, <3>2
  <2>6. JoinAt(pos - Len(buf))'
    BY <2>1, <2>2, <2>5 DEF JoinAt
  <2> QED BY <2>1, <2>4, <2>6 DEF JoinInv
<1>5. CASE EndOfFile
  <2>1. /\ pc = "scan" /\ buf = <<>> /\ pos >= Len(file)
        /\ pc' = IF acc = <<>> THEN "scan" ELSE "send"
        /\ lost' = lost \cup {acc[k].line : k \in {i \in DOMAIN acc : acc[i].part = "head"}}
        /\ UNCHANGED <<fileVars, offset, pos, buf, acc, chanVars, stopped, stale>>
    BY <1>5 DEF EndOfFile
  <2>2. /\ file' = file /\ lost \subseteq lost' /\ Elements(acc') = Elements(acc)
        /\ Elements(buf') = Elements(buf) /\ Held = acc /\ Held' = <<>>
    BY <2>1 DEF fileVars, Held, Elements
  <2>3. \A g \in Elements(acc') \cup Elements(buf') : Owned(g)'
    BY <2>1, <2>2 DEF JoinInv, Owned
  <2>4. ~stale => /\ pos = Len(file) /\ pos - Len(buf) = pos
                  /\ IF pos = 0 THEN acc = <<>> ELSE Ends(acc, file[pos], lost)
    <3> SUFFICES ASSUME ~stale
                 PROVE  /\ pos = Len(file) /\ pos - Len(buf) = pos
                        /\ IF pos = 0 THEN acc = <<>> ELSE Ends(acc, file[pos], lost)
      OBVIOUS
    <3>0. Len(buf) = 0
      BY <1>z, <2>1
    <3>1. pos = Len(file) /\ pos - Len(buf) = pos
      BY <1>0, <1>q, <2>1, <3>0, Places
    <3>2. JoinAt(pos)
      BY <1>q, <3>1
    <3> QED BY <2>2, <3>1, <3>2 DEF JoinAt
  <2>5. acc = <<[line |-> file[pos].line, part |-> "head"]>> => file[pos].line \in lost'
    <3> DEFINE g == [line |-> file[pos].line, part |-> "head"]
    <3>1. SUFFICES ASSUME acc = <<g>> PROVE file[pos].line \in lost'
      OBVIOUS
    <3>2. 1 \in DOMAIN acc /\ acc[1] = g /\ g.part = "head" /\ g.line = file[pos].line
      BY <3>1
    <3> HIDE DEF g
    <3> QED BY <2>1, <3>2
  <2>6. ASSUME pc' = "send"
        PROVE  WholeLine(acc') \/ \A g \in Elements(acc') : HasPart(g) => g.line \in lost'
    <3>0. acc # <<>> /\ LinesOf(acc) = {g.line : g \in Elements(acc)}
      BY <1>0, <2>1, <2>6, ElementFacts
    <3>1. CASE stale \/ LinesOf(acc) \subseteq lost
      BY <2>1, <2>2, <3>0, <3>1 DEF JoinInv, Owned
    <3>2. CASE acc = <<[line |-> file[pos].line, part |-> "text"]>>
      <4> DEFINE g == [line |-> file[pos].line, part |-> "text"]
      <4>1. g.part = "text" /\ acc' = <<g>>
        BY <2>1, <3>2
      <4> HIDE DEF g
      <4> QED BY <4>1, OneIsWhole
    <3>3. CASE acc = <<[line |-> file[pos].line, part |-> "head"]>>
      <4> DEFINE g == [line |-> file[pos].line, part |-> "head"]
      <4>1. g.line = file[pos].line /\ acc = <<g>>
        BY <3>3
      <4> HIDE DEF g
      <4>2. \A h \in Elements(acc) : h = g
        BY <4>1 DEF Elements
      <4> QED BY <2>2, <2>5, <3>3, <4>1, <4>2
    <3> QED BY <2>4, <3>0, <3>1, <3>2, <3>3 DEF Ends
  <2>7. ASSUME ~stale'
        PROVE  JoinAt(pos - Len(buf))'
    <3>1. ~stale /\ pos = Len(file) /\ pos - Len(buf) = pos
      BY <2>1, <2>4, <2>7
    <3>2. pos # 0 => Ends(<<>>, file[pos], lost')
      <4>1. pos # 0 /\ file[pos].part \in {"head", "big"} => file[pos].line \in lost'
        BY <2>2, <2>4, <2>5, <3>1 DEF Ends
      <4> QED BY <4>1, NothingEnds
    <3>3. pos' - Len(buf') = pos /\ pos' = pos /\ file' = file /\ DOMAIN buf' = {}
      BY <1>0, <2>1, <2>2, <3>1
    <3> QED BY <1>0, <2>2, <3>1, <3>2, <3>3 DEF JoinAt
  <2> QED BY <2>3, <2>6, <2>7 DEF JoinInv
<1>6. CASE Scan
  <2>1. /\ buf # <<>> /\ buf[1] \in Fragment /\ pc = "scan"
        /\ buf' \in Seq(Fragment) /\ Len(buf') = Len(buf) - 1
        /\ \A k \in 1..Len(buf') : buf'[k] = buf[k + 1]
        /\ Elements(buf) = {buf[1]} \cup Elements(buf')
        /\ acc' = Append(acc, buf[1]) \/ acc' = <<>>
        /\ UNCHANGED <<fileVars, offset, pos, eof, chanVars, stopped, lost, stale>>
    BY <1>6, ScanFacts
  <2>2. Elements(acc') \subseteq Elements(acc) \cup {buf[1]}
    <3>1. Elements(Append(acc, buf[1])) = Elements(acc) \cup {buf[1]}
      BY <1>0, <2>1, AppendElements
    <3> QED BY <1>0, <2>1, <3>1
  <2>3. \A g \in Elements(acc') \cup Elements(buf') : Owned(g)'
    <3>1. \A g : Owned(g) => Owned(g)'
      BY <2>1 DEF Owned, fileVars
    <3> QED BY <2>1, <2>2, <3>1 DEF JoinInv
  <2>4. pc' = "send" => WholeLine(acc') \/ \A g \in Elements(acc') : HasPart(g) => g.line \in lost'
    BY <1>6, <2>1, ScanJoins
  <2>5. ASSUME ~stale'
        PROVE  JoinAt(pos - Len(buf))'
    <3> DEFINE q == pos - Len(buf)
    <3>1. ~stale /\ q \in Nat /\ JoinAt(q) /\ q + Len(buf) <= Len(file) /\ Len(buf) >= 1
      BY <1>0, <1>q, <2>1, <2>5
    <3>2. pos' - Len(buf') = q + 1 /\ file' = file /\ lost' = lost /\ DOMAIN buf' = 1..Len(buf')
      BY <1>0, <2>1 DEF fileVars
    <3> HIDE DEF q
    <3>3. buf[1] = file[q + 1] /\ q + 1 \in 1..Len(file)
      <4>1. 1 \in DOMAIN buf /\ q + 1 \in 1..Len(file)
        BY <1>0, <3>1
      <4>2. \A k \in DOMAIN buf : buf[k] = file[q + k]
        BY <3>1 DEF JoinAt
      <4> QED BY <4>1, <4>2
    <3>4. Ends(Held', file[q + 1], lost)
      BY <1>6, <3>1, <3>3, ScanJoins
    <3>5. q + 1 < Len(file) => Fits(Held', file[q + 1 + 1], lost)
      <4>1. q + 1 \in Nat /\ q + 1 <= Len(file) /\ q + 1 # 0
        BY <1>0, <3>1, <3>3
      <4> QED BY <3>4, <4>1, JoinAfter
    <3>6. \A k \in DOMAIN buf' : buf'[k] = file[q + 1 + k]
      <4>1. \A k \in 1..Len(buf') : k + 1 \in DOMAIN buf /\ q + (k + 1) = q + 1 + k
        BY <1>0, <2>1, <3>1
      <4>2. \A k \in DOMAIN buf : buf[k] = file[q + k]
        BY <3>1 DEF JoinAt
      <4> QED BY <2>1, <3>2, <4>1, <4>2
    <3>7. q + 1 # 0
      BY <3>1
    <3> QED BY <3>2, <3>4, <3>5, <3>6, <3>7 DEF JoinAt
  <2> QED BY <2>3, <2>4, <2>5 DEF JoinInv
<1>7. CASE TooLong
  <2>1. /\ UNCHANGED <<file, pos, stale>> /\ buf' = <<>> /\ acc' = <<>> /\ pc' # "send"
        /\ lost' = lost \cup {buf[1].line}
    BY <1>7 DEF TooLong, fileVars
  <2>2. ~stale => pos \in 1..Len(file) /\ buf[1] = file[pos]
    BY <1>7, TooLongJoins
  <2>3. ~stale' => Ends(<<>>, file[pos'], lost')
    <3>1. ~stale' => file[pos'].line \in lost'
      BY <2>1, <2>2
    <3> QED BY <3>1, NothingEnds
  <2>4. ~stale' => pos' <= Len(file)
    BY <1>0, <2>1, <2>2
  <2> QED BY <1>0, <1>n, <2>1, <2>3, <2>4
<1>8. CASE Send
  <2>1. UNCHANGED <<file, buf, pos, stale, lost>> /\ acc' = <<>> /\ pc = "send" /\ pc' = "scan"
    BY <1>8 DEF Send, fileVars
  <2>2. Held' = Held
    BY <2>1 DEF Held
  <2> QED BY <1>s, <2>1, <2>2
<1>9. CASE Finish \/ Receive
  <2>1. UNCHANGED <<file, buf, pos, stale, lost, acc>> /\ (pc' = pc \/ (pc = "scan" /\ pc' = "wait"))
    BY <1>9 DEF Finish, Receive, fileVars, scanVars
  <2>2. Held' = Held /\ (pc' = "send" => pc = "send")
    BY <2>1 DEF Held
  <2> QED BY <1>s, <2>1, <2>2
<1>10. ~(SendStops \/ Leave \/ Stop)
  BY DEF SendStops, Leave, Stop
<1> QED BY <1>1, <1>2, <1>3, <1>4, <1>5, <1>6, <1>7, <1>8, <1>9, <1>10 DEF TailerNext, Reading

----------------------------------------------------------------------------
(* The invariant, and the refinement. *)

LEMMA InvInit == Init => TailerInv
<1> SUFFICES ASSUME Init PROVE TailerInv
  OBVIOUS
<1> USE TailerAssumption
<1>0. Elements(<<>>) = {} /\ DOMAIN <<>> = {} /\ Len(<<>>) = 0
  BY NoElements
<1>1. TailerTypeOK /\ EofOK
  BY TypeInit DEF Init, EofOK
<1>2. Elements(acc) = {} /\ Elements(buf) = {} /\ Unread = {} /\ Ahead = {}
      /\ DOMAIN file = {} /\ DOMAIN sent = {} /\ DOMAIN buf = {} /\ Len(file) = 0 /\ Len(buf) = 0
  BY <1>0 DEF Init, Elements, Unread, Ahead
<1>3. FileInv
  BY <1>2 DEF Init, FileInv
<1>4. ScanInv
  BY <1>1, <1>2 DEF Init, ScanInv
<1>5. OrderInv /\ OwedInv
  BY <1>2 DEF Init, OrderInv, OwedInv
<1>6. JoinInv
  <2>1. pos - Len(buf) = 0 /\ Held = <<>>
    <3>1. pos = 0 /\ Held = <<>>
      BY DEF Init, Held
    <3> QED BY <1>2, <3>1
  <2>2. JoinAt(pos - Len(buf))
    BY <1>2, <2>1 DEF JoinAt
  <2> QED BY <1>2, <2>2 DEF Init, JoinInv
<1> QED BY <1>1, <1>3, <1>4, <1>5, <1>6 DEF TailerInv

LEMMA InvStep == TailerInv /\ [TailerNext]_vars => TailerInv'
<1>1. ASSUME TailerInv, TailerNext
      PROVE  TailerInv'
  <2>1. TailerTypeOK /\ EofOK /\ FileInv /\ ScanInv
    BY <1>1 DEF TailerInv, ScanInv
  <2>2. TailerTypeOK' /\ FileInv' /\ ScanInv'
    BY <1>1, <2>1, TypeStep, FileStep, ScanStep
  <2>3. ASSUME ~stopped'
        PROVE  OrderInv' /\ OwedInv' /\ JoinInv'
    <3>1. ~stopped
      BY <1>1, <2>3 DEF TailerNext, Reading, Write, Truncate, StartRead, ReadFrom, Fill, EndOfFile,
                        Scan, TooLong, Send, SendStops, Finish, Leave, Receive, Stop
    <3>2. OrderInv /\ OwedInv /\ JoinInv
      BY <1>1, <3>1 DEF TailerInv
    <3> QED BY <1>1, <2>1, <2>3, <3>2, OrderStep, OwedStep, JoinStep
  <2> QED BY <2>2, <2>3 DEF TailerInv
<1>2. ASSUME TailerInv, UNCHANGED vars
      PROVE  TailerInv'
  <2>1. UNCHANGED <<file, writes, lines, truncations, written, offset, pc, pos, buf, acc, eof,
                    sent, taken, stopped, lost, stale>>
    BY <1>2 DEF vars, fileVars, scanVars, chanVars
  <2>2. TailerTypeOK' /\ EofOK'
    BY <1>2, <2>1 DEF TailerInv, TailerTypeOK, ScanInv, EofOK
  <2>3. FileInv'
    BY <1>2, <2>1 DEF TailerInv, FileInv, Known
  <2>4. Elements(acc') = Elements(acc) /\ Elements(buf') = Elements(buf) /\ Unread' = Unread /\ Ahead' = Ahead
    BY <2>1 DEF Elements, Unread, Ahead
  <2>5. ScanInv'
    BY <1>2, <2>1, <2>2, <2>4 DEF TailerInv, ScanInv, Known
  <2>6. OrderInv => OrderInv'
    BY <2>1, <2>4 DEF OrderInv
  <2>7. OwedInv => OwedInv'
    BY <2>1, <2>4 DEF OwedInv, LS!Emitted
  <2>8. JoinInv => JoinInv'
    BY <2>1, <2>4 DEF JoinInv, JoinAt, Held, Owned
  <2> QED BY <1>2, <2>1, <2>2, <2>3, <2>5, <2>6, <2>7, <2>8 DEF TailerInv
<1> QED BY <1>1, <1>2

LEMMA InitImplements == Init => LS!LineInit
  BY DEF Init, LS!LineInit

\* What is sent is emitted.
LEMMA SendEmits ==
  ASSUME TailerInv, Send
  PROVE  LS!Emit
<1> DEFINE n == acc[1].line
           item == [line |-> n, whole |-> WholeLine(acc)]
<1>1. TailerTypeOK /\ FileInv /\ ScanInv /\ (~stopped => OrderInv /\ OwedInv /\ JoinInv)
  BY DEF TailerInv
<1>2. /\ sent' = Append(sent, item) /\ acc # <<>> /\ pc = "send"
      /\ UNCHANGED <<fileVars, taken, stopped, lost>>
  BY <1>1 DEF Send, TailerTypeOK
<1>3. UNCHANGED <<written, lost, stopped>>
  BY <1>2 DEF fileVars
<1>4. acc \in Seq(Fragment) /\ acc[1] \in Elements(acc) /\ acc[1] \in Fragment /\ HasPart(acc[1]) /\ Known(acc[1])
  <2>1. acc \in Seq(Fragment)
    BY <1>1 DEF TailerTypeOK
  <2>2. 1 \in 1..Len(acc)
    BY <1>2, <2>1
  <2>3. acc[1] \in Elements(acc) /\ acc[1] \in Fragment
    BY <2>1, <2>2, ElementFacts, MemberFacts
  <2> QED BY <1>1, <1>2, <2>1, <2>3 DEF ScanInv
<1>5. n \in 1..MaxWrites
  <2>1. n \in Nat /\ n >= 1 /\ n <= lines /\ lines <= writes /\ writes <= MaxWrites
    BY <1>1, <1>4 DEF Known, FileInv, Fragment
  <2>2. lines \in Nat /\ writes \in Nat /\ MaxWrites \in Nat
    BY <1>1, TailerAssumption DEF TailerTypeOK
  <2> QED BY <2>1, <2>2
<1>6. \A k \in DOMAIN sent : sent[k].line \in Nat /\ sent[k].whole \in BOOLEAN
  BY <1>1, SentFacts
<1>7. CASE stopped
  <2>1. WholeLine(acc) \in BOOLEAN
    BY DEF WholeLine
  <2>2. LS!EmitLate([line |-> n, whole |-> WholeLine(acc)])
    BY <1>2, <1>7 DEF LS!EmitLate
  <2> QED BY <1>3, <1>5, <2>1, <2>2 DEF LS!Emit
<1>8. CASE ~stopped /\ WholeLine(acc)
  <2>1. \A f \in Elements(acc) : f.line = n
    BY <1>2, <1>4, <1>8, WholeFacts
  <2>2. n \in written
    <3>1. PICK f \in Elements(acc) : f.part \in Complete
      BY <1>2, <1>4, <1>8, WholeFacts
    <3>2. Known(f)
      BY <1>1 DEF ScanInv
    <3> QED BY <2>1, <3>1, <3>2 DEF Known
  <2>3. \A k \in DOMAIN sent : sent[k].line < n \/ (~sent[k].whole /\ sent[k].line = n)
    <3>1. ASSUME NEW k \in DOMAIN sent
          PROVE  sent[k].line < n \/ (~sent[k].whole /\ sent[k].line = n)
      <4>1. SentBefore(sent[k], acc[1])
        BY <1>1, <1>4, <1>8 DEF OrderInv
      <4> QED BY <1>4, <1>5, <1>6, <4>1 DEF SentBefore
    <3> QED BY <3>1
  <2>4. ASSUME NEW m \in written, m < n
        PROVE  m \in lost \/ LS!Emitted(m)
    <3>1. SUFFICES ASSUME NEW f \in Elements(acc) \cup Ahead, f.line = m
                   PROVE  FALSE
      BY <1>1, <1>8 DEF OwedInv
    <3>2. m \in Nat
      BY <1>1 DEF TailerTypeOK
    <3>3. CASE f \in Elements(acc)
      BY <1>5, <2>1, <2>4, <3>1, <3>2, <3>3
    <3>4. CASE f \in Ahead
      <4>1. Before(acc[1], f)
        BY <1>1, <1>4, <1>8, <3>4 DEF OrderInv
      <4>2. n <= m
        BY <3>1, <4>1 DEF Before
      <4> QED BY <1>5, <2>4, <3>2, <4>2
    <3> QED BY <3>1, <3>3, <3>4
  <2>5. item = [line |-> n, whole |-> TRUE]
    BY <1>8
  <2>6. LS!EmitLine(n)
    BY <1>2, <2>2, <2>3, <2>4, <2>5 DEF LS!EmitLine
  <2> QED BY <1>3, <1>5, <2>6 DEF LS!Emit
<1>9. CASE ~stopped /\ ~WholeLine(acc)
  <2>1. n \in lost
    BY <1>1, <1>2, <1>4, <1>9 DEF JoinInv
  <2>2. \A k \in DOMAIN sent : sent[k].line <= n
    BY <1>1, <1>4, <1>9 DEF OrderInv, SentBefore
  <2>3. item = [line |-> n, whole |-> FALSE]
    <3>1. WholeLine(acc) \in BOOLEAN
      BY DEF WholeLine
    <3>2. WholeLine(acc) = FALSE
      BY <1>9, <3>1
    <3> QED BY <3>2, Zenon
  <2>4. LS!EmitPiece(n)
    BY <1>2, <2>1, <2>2, <2>3 DEF LS!EmitPiece
  <2> QED BY <1>3, <1>5, <2>4 DEF LS!Emit
<1> QED BY <1>7, <1>8, <1>9

LEMMA StepImplements == TailerInv /\ [TailerNext]_vars => [LS!LineNext]_LS!lineVars
<1> SUFFICES ASSUME TailerInv, [TailerNext]_vars
             PROVE  LS!LineNext \/ UNCHANGED <<written, lost, sent, stopped>>
  BY DEF LS!lineVars
<1>0. TailerTypeOK /\ FileInv /\ ScanInv
  BY DEF TailerInv
<1>1. ASSUME NEW part \in Parts, Write(part)
      PROVE  LS!LineNext \/ UNCHANGED <<written, lost, sent, stopped>>
  <2>1. PICK f \in Fragment :
           /\ lines' \in Nat /\ f.line = lines'
           /\ writes' = writes + 1 /\ writes < MaxWrites /\ lines' <= writes'
           /\ HasPart(f) => lines' >= 1
           /\ written' = IF f.part \in Complete THEN written \cup {lines'} ELSE written
           /\ HasPart(f) => \A m \in written : m < lines'
           /\ UNCHANGED <<truncations, offset, scanVars, chanVars, stopped, lost, stale>>
    BY <1>0, <1>1, WriteFacts
  <2>2. UNCHANGED <<lost, sent, stopped>>
    BY <2>1 DEF chanVars
  <2>3. CASE f.part \in Complete
    <3>1. HasPart(f)
      BY <2>3 DEF HasPart, Complete
    <3>2. lines' \in 1..MaxWrites
      <4>1. writes \in Nat /\ MaxWrites \in Nat
        BY <1>0, TailerAssumption DEF TailerTypeOK
      <4> QED BY <2>1, <3>1, <4>1
    <3>3. /\ lines' \notin written /\ (\A m \in written : m < lines')
          /\ written' = written \cup {lines'}
      <4>1. \A m \in written : m < lines'
        BY <2>1, <3>1
      <4>2. lines' \notin written
        BY <2>1, <4>1
      <4> QED BY <2>1, <2>3, <4>1, <4>2
    <3>4. LS!WriteLine
      BY <2>2, <3>2, <3>3 DEF LS!WriteLine
    <3> QED BY <3>4 DEF LS!LineNext
  <2>4. CASE f.part \notin Complete
    BY <2>1, <2>2, <2>4
  <2> QED BY <2>3, <2>4
<1>2. CASE Truncate \/ StartRead \/ Fill \/ EndOfFile \/ TooLong
  <2>1. lost \subseteq lost' /\ UNCHANGED <<written, sent, stopped>>
    BY <1>2 DEF Truncate, StartRead, ReadFrom, Fill, EndOfFile, TooLong, fileVars, scanVars, chanVars
  <2>2. LS!LoseLines
    BY <2>1 DEF LS!LoseLines
  <2> QED BY <2>2 DEF LS!LineNext
<1>3. CASE Scan \/ SendStops \/ Finish \/ Leave \/ Receive \/ UNCHANGED vars
  BY <1>3 DEF Scan, SendStops, Finish, Leave, Receive, vars, fileVars, scanVars, chanVars
<1>4. CASE Send
  BY <1>4, SendEmits DEF LS!LineNext
<1>5. CASE Stop
  <2>1. LS!StopLines
    BY <1>5 DEF Stop, LS!StopLines, fileVars, chanVars
  <2> QED BY <2>1 DEF LS!LineNext
<1> QED BY <1>1, <1>2, <1>3, <1>4, <1>5 DEF TailerNext, Reading

\* What was sent, what the scanner holds and what is still to be read come in order,
\* leave out no line that is owed, and are put together line by line.
THEOREM TailerInvariant == TailerSpec => []TailerInv
  BY InvInit, InvStep, PTL DEF TailerSpec

\* tailer.go:18: what a tailer sends is what a LineStream emits: every line once, in
\* order and whole, but for the lines that are lost, and until Stop.
THEOREM TailerImplements == TailerSpec => ImplementsLineStream
<1>1. TailerSpec => []TailerInv
  BY TailerInvariant
<1>2. LS!LineSpec <=> LS!LineInit /\ [][LS!LineNext]_LS!lineVars
  BY DEF LS!LineSpec
<1> QED BY <1>1, <1>2, InitImplements, StepImplements, PTL DEF TailerSpec, ImplementsLineStream
=============================================================================
