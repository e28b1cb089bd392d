----------------------------- MODULE LineStream -----------------------------
(***************************************************************************)
(* What a Tailer promises (internal/conv/tailer.go:18): "emits complete     *)
(* lines as they are appended".  Each line is emitted at most once, after   *)
(* the lines before it and whole; only a lost line may be left out, or come *)
(* in pieces.  Which lines may be lost is the business of the module that   *)
(* implements this one; after Stop nothing is promised.                     *)
(***************************************************************************)
EXTENDS Naturals, Sequences

CONSTANT Lines   \* the numbers that lines may have

VARIABLES
  written,    \* the lines whose text is in the file, or was: numbered as they come
  lost,       \* the lines that are not owed
  emitted,    \* what has been sent on the channel, each [line, whole]
  stopped

lineVars == <<written, lost, emitted, stopped>>

Emitted(n) == \E k \in DOMAIN emitted : emitted[k] = [line |-> n, whole |-> TRUE]

LineInit == written = {} /\ lost = {} /\ emitted = <<>> /\ stopped = FALSE

WriteLine ==
  /\ \E n \in Lines : n \notin written /\ (\A m \in written : m < n) /\ written' = written \cup {n}
  /\ UNCHANGED <<lost, emitted, stopped>>

LoseLines ==
  /\ lost \subseteq lost'
  /\ UNCHANGED <<written, emitted, stopped>>

EmitLine(n) ==
  /\ n \in written
  /\ \A k \in DOMAIN emitted : emitted[k].line < n \/ (~emitted[k].whole /\ emitted[k].line = n)
  /\ \A m \in written : m < n => m \in lost \/ Emitted(m)
  /\ emitted' = Append(emitted, [line |-> n, whole |-> TRUE])

EmitPiece(n) ==
  /\ n \in lost
  /\ \A k \in DOMAIN emitted : emitted[k].line <= n
  /\ emitted' = Append(emitted, [line |-> n, whole |-> FALSE])

EmitLate(i) == stopped /\ emitted' = Append(emitted, i)

Emit ==
  /\ \E n \in Lines : EmitLine(n) \/ EmitPiece(n) \/ \E w \in BOOLEAN : EmitLate([line |-> n, whole |-> w])
  /\ UNCHANGED <<written, lost, stopped>>

StopLines ==
  /\ ~stopped /\ stopped' = TRUE
  /\ UNCHANGED <<written, lost, emitted>>

LineNext == WriteLine \/ LoseLines \/ Emit \/ StopLines

LineSpec == LineInit /\ [][LineNext]_lineVars
=============================================================================
