------------------------------- MODULE Tailer -------------------------------
(***************************************************************************)
(* internal/conv/tailer.go: the goroutine that reads the lines appended to  *)
(* one conversation file and sends them to pumpFileStream.                  *)
(*                                                                         *)
(* The file is external, and changes between any two steps of a read: the   *)
(* agent's CLI appends whole lines or parts of a line, and truncates it.    *)
(* It is a sequence of fragments, which are the unit of length here:        *)
(*   whole    a line with its newline                                       *)
(*   text     a line's text, of which only the newline is to come           *)
(*   head     the beginning of a line's text, and tail: the rest of it      *)
(*   big      as much of a line as the scanner's buffer holds (2 MB)        *)
(*   newline  the end of a text, or an empty line                           *)
(* NewTailer is called with fromStart (watcher.go:243), and a file that     *)
(* does not exist or cannot be opened is one that is not read.              *)
(***************************************************************************)
EXTENDS Integers, Sequences, FiniteSets

CONSTANTS
  Cap,             \* capacity of the lines channel (256)
  MaxWrites,       \* bound: fragments written
  MaxTruncations   \* bound: truncations

ASSUME TailerAssumption ==
  Cap \in Nat \ {0} /\ MaxWrites \in Nat /\ MaxTruncations \in Nat

VARIABLES
  file,        \* external
  writes,      \* external: fragments written
  lines,       \* external: lines begun; a line is known by its number
  truncations, \* external
  offset,      \* Tailer.offset
  pc,          \* tailLoop
  pos,         \* a read: the position in the file,
  buf,         \*   what the scanner has read and not looked at,
  acc,         \*   the line it is putting together, or is sending,
  eof,         \*   and whether it has seen the end of the file
  sent,        \* all that has been sent on Tailer.lines ...
  taken,       \* ... and how much of it pumpFileStream has received
  stopped,     \* ctx is done
  written,     \* history: the lines whose text has been written
  lost,        \* history: the lines that were cut off, or cut in two
  stale        \* history: the file was truncated since pos was set

fileVars == <<file, writes, lines, truncations, written>>
scanVars == <<pc, pos, buf, acc, eof>>
chanVars == <<sent, taken>>
vars == <<fileVars, offset, scanVars, chanVars, stopped, lost, stale>>

Parts == {"whole", "text", "head", "big", "tail", "newline"}

Fragment == [line : Nat, part : Parts]

LinesOf(s) == {s[k].line : k \in DOMAIN s}

Init ==
  /\ file = <<>> /\ writes = 0 /\ lines = 0 /\ truncations = 0
  /\ offset = 0
  /\ pc = "start" /\ pos = 0 /\ buf = <<>> /\ acc = <<>> /\ eof = FALSE
  /\ sent = <<>> /\ taken = 0
  /\ stopped = FALSE
  /\ written = {} /\ lost = {} /\ stale = FALSE

----------------------------------------------------------------------------
(* The agent's CLI. *)

\* What may follow the last fragment.
Follows(part) ==
  LET last == IF file = <<>> THEN "newline" ELSE file[Len(file)].part
  IN CASE last = "text" -> part = "newline"
       [] last \in {"head", "big"} -> part = "tail"
       [] OTHER -> part # "tail"

Write(part) ==
  LET n == IF part \in {"tail", "newline"} THEN lines ELSE lines + 1
  IN /\ writes < MaxWrites /\ pc # "closed"
     /\ Follows(part)
     /\ file' = Append(file, [line |-> n, part |-> part])
     /\ writes' = writes + 1
     /\ lines' = n
     /\ written' = IF part \in {"whole", "text", "tail"} THEN written \cup {n} ELSE written
     /\ UNCHANGED <<truncations, offset, scanVars, chanVars, stopped, lost, stale>>

\* What was in the file and has not been emitted will not be.
Truncate ==
  /\ truncations < MaxTruncations /\ pc # "closed"
  /\ file # <<>>
  /\ file' = <<>>
  /\ truncations' = truncations + 1
  /\ lost' = lost \cup LinesOf(file)
  /\ stale' = (pos > 0)
  /\ UNCHANGED <<writes, lines, written, offset, scanVars, chanVars, stopped>>

----------------------------------------------------------------------------
(* readNewData *)

\* Open, Stat and Seek from position p, with nothing to do if that is the end.
ReadFrom(p) ==
  /\ offset' = p /\ pos' = p
  /\ pc' = IF p = Len(file) THEN "wait" ELSE "scan"
  /\ buf' = <<>> /\ acc' = <<>> /\ eof' = FALSE
  /\ UNCHANGED <<fileVars, chanVars, stopped>>

\* Mutant of StartRead: a truncated file is not noticed.
StartReadAtOffset ==
  /\ pc \in {"start", "wait"}
  /\ ReadFrom(offset)
  /\ UNCHANGED <<lost, stale>>

\* The first read, an event or the ticker.  A file that is shorter than before is
\* read from its beginning; one that was truncated and has grown past the offset
\* again is taken for the old one.  After Stop the select may still choose the
\* ticker, and lines may be sent again (bound: while less than MaxWrites were sent).
StartRead ==
  /\ pc \in {"start", "wait"}
  /\ stopped => Len(sent) < MaxWrites
  /\ ReadFrom(IF Len(file) < offset THEN 0 ELSE offset)
  /\ lost' = IF stale /\ Len(file) >= offset
             THEN lost \cup LinesOf(SubSeq(file, 1, offset)) ELSE lost
  /\ stale' = FALSE

\* The scanner needs more: it reads as much as its buffer takes.
Fill ==
  /\ pc = "scan" /\ buf = <<>> /\ ~eof
  /\ \E to \in pos + 1 .. Len(file) :
       /\ \A k \in pos + 1 .. to - 1 : file[k].part # "big"
       /\ buf' = SubSeq(file, pos + 1, to)
       /\ pos' = to
  /\ lost' = IF stale THEN lost \cup LinesOf(SubSeq(file, 1, pos + 1)) ELSE lost
  /\ stale' = FALSE
  /\ UNCHANGED <<fileVars, offset, pc, acc, eof, chanVars, stopped>>

\* There is no more: what is left of the last line is emitted as a line (the
\* field partial is never assigned).
EndOfFile ==
  /\ pc = "scan" /\ buf = <<>> /\ ~eof
  /\ pos >= Len(file)
  /\ eof' = TRUE
  /\ pc' = IF acc = <<>> THEN "scan" ELSE "send"
  /\ lost' = lost \cup {acc[k].line : k \in {i \in DOMAIN acc : acc[i].part = "head"}}
  /\ UNCHANGED <<fileVars, offset, pos, buf, acc, chanVars, stopped, stale>>

HasText(token) == \E k \in DOMAIN token : token[k].part # "newline"

\* The scanner looks at the next fragment, up to the end of a line; an empty one
\* is passed over.
Scan ==
  LET f == buf[1]
      token == Append(acc, f)
      ends == f.part \in {"whole", "tail", "newline"}
  IN /\ pc = "scan" /\ buf # <<>> /\ f.part # "big"
     /\ buf' = Tail(buf)
     /\ acc' = IF ends /\ ~HasText(token) THEN <<>> ELSE token
     /\ pc' = IF ends /\ HasText(token) THEN "send" ELSE "scan"
     /\ UNCHANGED <<fileVars, offset, pos, eof, chanVars, stopped, lost, stale>>

\* bufio.ErrTooLong ends the read, and the next one begins inside the line.
TooLong ==
  /\ pc = "scan" /\ buf # <<>> /\ buf[1].part = "big"
  /\ pc' = "wait"
  /\ offset' = pos
  /\ buf' = <<>> /\ acc' = <<>> /\ eof' = FALSE
  /\ lost' = lost \cup {buf[1].line}
  /\ UNCHANGED <<fileVars, pos, chanVars, stopped, stale>>

WholeLine(token) ==
  /\ \A k \in DOMAIN token : token[k].line = token[1].line
  /\ [k \in DOMAIN token |-> token[k].part] \in
       {<<"whole">>, <<"text">>, <<"text", "newline">>, <<"head", "tail">>}

\* Mutant of Send: the channel has no limit.
SendAnyway ==
  /\ pc = "send"
  /\ sent' = Append(sent, [line |-> acc[1].line, whole |-> WholeLine(acc)])
  /\ acc' = <<>>
  /\ pc' = "scan"
  /\ UNCHANGED <<fileVars, offset, pos, buf, eof, taken, stopped, lost, stale>>

Send ==
  /\ pc = "send"
  /\ Len(sent) - taken < Cap
  /\ sent' = Append(sent, [line |-> acc[1].line, whole |-> WholeLine(acc)])
  /\ acc' = <<>>
  /\ pc' = "scan"
  /\ UNCHANGED <<fileVars, offset, pos, buf, eof, taken, stopped, lost, stale>>

\* Mutant of SendStops: ctx.Done() is only looked at before sending.
SendStopsIfRoom ==
  /\ pc = "send" /\ stopped
  /\ Len(sent) - taken < Cap
  /\ pc' = "wait"
  /\ pos' = offset /\ buf' = <<>> /\ acc' = <<>> /\ eof' = FALSE
  /\ UNCHANGED <<fileVars, offset, chanVars, stopped, lost, stale>>

\* ctx.Done() while sending: the read ends, and its lines count as not read.
SendStops ==
  /\ pc = "send" /\ stopped
  /\ pc' = "wait"
  /\ pos' = offset /\ buf' = <<>> /\ acc' = <<>> /\ eof' = FALSE
  /\ UNCHANGED <<fileVars, offset, chanVars, stopped, lost, stale>>

\* Mutant of Finish: the offset stays.
FinishKeepsOffset ==
  /\ pc = "scan" /\ eof
  /\ pc' = "wait"
  /\ eof' = FALSE
  /\ UNCHANGED <<fileVars, offset, pos, buf, acc, chanVars, stopped, lost, stale>>

\* The read is over.
Finish ==
  /\ pc = "scan" /\ eof
  /\ pc' = "wait"
  /\ offset' = pos
  /\ eof' = FALSE
  /\ UNCHANGED <<fileVars, pos, buf, acc, chanVars, stopped, lost, stale>>

\* tailLoop: ctx.Done(), or the closed channels of the fsnotify watcher.
Leave ==
  /\ pc = "wait" /\ stopped
  /\ pc' = "closed"
  /\ UNCHANGED <<fileVars, offset, pos, buf, acc, eof, chanVars, stopped, lost, stale>>

----------------------------------------------------------------------------
(* pumpFileStream, and the watcher that stops the stream. *)
Receive ==
  /\ taken < Len(sent)
  /\ taken' = taken + 1
  /\ UNCHANGED <<fileVars, offset, scanVars, sent, stopped, lost, stale>>

Stop ==
  /\ ~stopped
  /\ stopped' = TRUE
  /\ UNCHANGED <<fileVars, offset, scanVars, chanVars, lost, stale>>

----------------------------------------------------------------------------
Reading == Fill \/ EndOfFile \/ Scan \/ TooLong \/ Send \/ SendStops \/ Finish

TailerNext ==
  \/ \E part \in Parts : Write(part)
  \/ Truncate
  \/ StartRead \/ Reading \/ Leave
  \/ Receive \/ Stop

\* The ticker fires every second; a goroutine that can go on does so; a select of
\* which ctx.Done() is ready time and again takes it some time.  Somebody receives
\* while the tailer runs, but after Stop perhaps nobody: pumpFileStream is started
\* once the event of its stream has been sent (watcher.go:290), which may take any time.
TailerFairness ==
  /\ WF_vars(StartRead) /\ WF_vars(Reading) /\ SF_vars(Leave)
  /\ WF_vars(~stopped /\ Receive)

TailerSpec == Init /\ [][TailerNext]_vars
FairTailerSpec == TailerSpec /\ TailerFairness

----------------------------------------------------------------------------
(***************************************************************************)
(* Properties.                                                             *)
(***************************************************************************)
\* Types; a waiting tailer has read up to its offset, and the channel is not overfull.
TailerTypeOK ==
  /\ file \in Seq(Fragment) /\ buf \in Seq(Fragment) /\ acc \in Seq(Fragment)
  /\ writes \in Nat /\ lines \in Nat /\ truncations \in Nat
  /\ written \subseteq Nat /\ lost \subseteq Nat
  /\ offset \in Nat /\ pos \in Nat
  /\ pc \in {"start", "wait", "scan", "send", "closed"}
  /\ eof \in BOOLEAN /\ stopped \in BOOLEAN /\ stale \in BOOLEAN
  /\ sent \in Seq([line : Nat, whole : BOOLEAN])
  /\ taken \in 0 .. Len(sent) /\ Len(sent) - taken <= Cap
  /\ pc = "send" => acc # <<>>
  /\ pc \notin {"scan", "send"} => pos = offset /\ buf = <<>> /\ acc = <<>> /\ ~eof

LS == INSTANCE LineStream WITH Lines <- 1 .. MaxWrites, emitted <- sent

\* tailer.go:18 "emits complete lines as they are appended": what the tailer sends
\* is what a LineStream emits, where the lines that may be lost are those that the
\* file was truncated with, those in a file that grew past the offset again, those
\* of which a read saw only a part and those that do not fit the scanner's buffer.
ImplementsLineStream == LS!LineSpec

\* While the tailer runs every line whose text is in the file reaches the pump unless
\* it is lost, however the reads, the truncations and the full channel fall.  A
\* tailer that is stopped ends, in the middle of sending to a full channel too, and
\* though nobody need receive from it any more (no fairness of Receive after Stop).
EachLineArrives ==
  /\ \A n \in 1 .. MaxWrites :
       n \in written ~> \/ n \in lost \/ stopped
                        \/ \E k \in 1 .. taken : sent[k] = [line |-> n, whole |-> TRUE]
  /\ stopped ~> pc = "closed"
=============================================================================
