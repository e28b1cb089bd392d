--------------------------- MODULE AgentPane_proofs ---------------------------
(***************************************************************************)
(* Proofs about AgentPane, for any services, requests, viewers and         *)
(* workloads: who sends holds its service's lock; prompts do not mix; "ok" *)
(* means submitted, once; and ForceRedraw puts the height back.            *)
(*                                                                         *)
(* None of these but the first is inductive.  That prompts do not mix also *)
(* needs where a prompt can be at each step of its goroutine: not in the   *)
(* pane before its text is sent, and gone from the input box when its      *)
(* Enter has succeeded, or else the session has ended; and that "ok" is    *)
(* true, that the text of a prompt is somewhere as long as the answers of  *)
(* its connection are in step and no viewer deleted it (both JobInv).  The *)
(* height needs what a redraw under way has read (RedrawOK, RedrawInv).    *)
(***************************************************************************)
EXTENDS AgentPane, TLAPS

USE DEF Jobs

----------------------------------------------------------------------------
(* What the parts of a step do. *)

PromptPcs == {"text", "escape", "enter", "wake", "woken"}
UploadPcs == {"save", "info", "load", "paste"}

\* The goroutines of the requests and the locks they hold.
JobsOK ==
  /\ locks \in [Services -> Jobs \cup {None}]
  /\ jobs \in [Jobs -> Job]
  /\ \A j \in Jobs : Sends(j) <=> locks[ServiceOf[j]] = j

LEMMA GoesToFacts ==
  ASSUME jobs \in [Jobs -> Job], NEW j \in Jobs, NEW pc \in PromptPcs \cup UploadPcs \cup {"lock"},
         GoesTo(j, pc)
  PROVE  /\ jobs' \in [Jobs -> Job]
         /\ jobs'[j].pc = pc /\ jobs'[j].tries = jobs[j].tries
         /\ jobs'[j].outcome = jobs[j].outcome /\ jobs'[j].exact = jobs[j].exact
         /\ \A i \in Jobs \ {j} : jobs'[i] = jobs[i]
  BY DEF GoesTo, Job, PromptPcs, UploadPcs

LEMMA AnswersFacts ==
  ASSUME JobsOK, NEW j \in Jobs, NEW outcome \in {"ok", "failed"},
         Answers(j, outcome)
  PROVE  /\ jobs' \in [Jobs -> Job]
         /\ jobs'[j].pc = "answered" /\ jobs'[j].outcome = outcome
         /\ jobs'[j].exact = (conn'[ServiceOf[j]] = "exact")
         /\ \A i \in Jobs \ {j} : jobs'[i] = jobs[i]
         /\ JobsOK'
<1> DEFINE new == [pc |-> "answered", tries |-> jobs[j].tries, outcome |-> outcome,
                   exact |-> conn'[ServiceOf[j]] = "exact"]
<1>1. new \in Job
  BY DEF JobsOK, Job
<1>2. jobs' = [jobs EXCEPT ![j] = new]
  BY DEF Answers
<1>3. new.pc = "answered" /\ new.outcome = outcome /\ new.exact = (conn'[ServiceOf[j]] = "exact")
  OBVIOUS
<1> HIDE DEF new
<1>4. jobs' \in [Jobs -> Job] /\ jobs'[j] = new /\ \A i \in Jobs \ {j} : jobs'[i] = jobs[i]
  BY <1>1, <1>2 DEF JobsOK
<1>5. locks' \in [Services -> Jobs \cup {None}]
  BY DEF Answers, JobsOK
<1>6. ASSUME NEW i \in Jobs
      PROVE  Sends(i)' <=> locks'[ServiceOf[i]] = i
  BY <1>3, <1>4, PaneAssumption DEF Answers, JobsOK, Sends
<1> QED BY <1>3, <1>4, <1>5, <1>6 DEF JobsOK

\* A goroutine that sends goes on to the next command.
LEMMA GoesOn ==
  ASSUME JobsOK, NEW j \in Jobs, NEW pc \in PromptPcs \cup UploadPcs,
         Sends(j), GoesTo(j, pc), UNCHANGED locks
  PROVE  JobsOK'
<1>1. jobs' \in [Jobs -> Job] /\ jobs'[j].pc = pc /\ \A i \in Jobs \ {j} : jobs'[i] = jobs[i]
  BY GoesToFacts DEF JobsOK
<1>2. ASSUME NEW i \in Jobs
      PROVE  Sends(i)' <=> locks'[ServiceOf[i]] = i
  BY <1>1 DEF JobsOK, Sends, PromptPcs, UploadPcs
<1> QED BY <1>1, <1>2 DEF JobsOK

ConnOK ==
  /\ conn \in [Services -> {"exact", "late", "closed"}]
  /\ work \in Workload /\ faults \in 0..work.faults

\* A connection never comes back in step, and while it is, ok means done.
LEMMA ExecuteFacts ==
  ASSUME ConnOK, NEW possible \in BOOLEAN, NEW s \in Services, NEW ok \in BOOLEAN,
         ExecutesIf(possible, s, ok)
  PROVE  /\ conn' \in [Services -> {"exact", "late", "closed"}]
         /\ faults' \in 0..work.faults
         /\ \A t \in Services : conn'[t] = "exact" => conn[t] = "exact"
         /\ ok /\ conn[s] # "late" => possible
         /\ conn'[s] = "exact" => (ok <=> possible)
<1>1. CASE UNCHANGED connVars /\ (conn[s] # "late" => (ok <=> possible))
  BY <1>1 DEF ConnOK, connVars
<1>2. CASE ~ok /\ Faulty(s)
  BY <1>2 DEF ConnOK, Faulty, Workload
<1> QED BY <1>1, <1>2 DEF ExecutesIf

LEMMA ExecutesFacts ==
  ASSUME ConnOK, NEW s \in Services, NEW ok \in BOOLEAN, Executes(s, ok), alive \in BOOLEAN
  PROVE  /\ conn' \in [Services -> {"exact", "late", "closed"}]
         /\ faults' \in 0..work.faults
         /\ \A t \in Services : conn'[t] = "exact" => conn[t] = "exact"
         /\ ok /\ alive => Does(s)
         /\ conn'[s] = "exact" => (ok <=> Does(s))
<1>1. Does(s) \in BOOLEAN
  BY DEF Does
<1> QED BY <1>1, ExecuteFacts DEF Executes, Does

LEMMA TypedFacts ==
  ASSUME NEW S, box \in Seq(S), NEW s, NEW item \in S, Typed(s, item)
  PROVE  /\ box' \in Seq(S)
         /\ Does(s) => Len(box') = Len(box) + 1 /\ box'[Len(box) + 1] = item
         /\ \A k \in 1..Len(box) : k \in DOMAIN box' /\ box'[k] = box[k]
         /\ ~Does(s) => box' = box
<1>1. Len(box) \in Nat
  OBVIOUS
<1>2. CASE Does(s)
  BY <1>1, <1>2 DEF Typed
<1>3. CASE ~Does(s)
  BY <1>1, <1>3 DEF Typed
<1> QED BY <1>2, <1>3

LEMMA SubmittedFacts ==
  ASSUME NEW S, box \in Seq(S), entered \in Seq(Seq(S)), NEW s, Submitted(s)
  PROVE  /\ box' \in Seq(S) /\ entered' \in Seq(Seq(S))
         /\ \/ UNCHANGED paneVars /\ (Does(s) => box = <<>>)
            \/ /\ Does(s) /\ box' = <<>> /\ UNCHANGED erased
               /\ Len(entered') = Len(entered) + 1 /\ entered'[Len(entered) + 1] = box
               /\ \A n \in 1..Len(entered) : entered'[n] = entered[n]
<1>0. <<>> \in Seq(S)
  OBVIOUS
<1>1. CASE Does(s) /\ box # <<>>
  <2>1. entered' = Append(entered, box) /\ box' = <<>> /\ UNCHANGED erased
    BY <1>1 DEF Submitted
  <2> QED BY <1>0, <1>1, <2>1
<1>2. CASE ~(Does(s) /\ box # <<>>)
  BY <1>2 DEF Submitted, paneVars
<1> QED BY <1>1, <1>2

\* A viewer's keys have deleted some of the box: the end of it, or all.
Deleted ==
  /\ UNCHANGED entered
  /\ Len(box') <= Len(box)
  /\ \A k \in DOMAIN box' : k \in DOMAIN box /\ box'[k] = box[k]
  /\ erased \subseteq erased' /\ erased' \subseteq Jobs
  /\ \A j \in erased' \ erased : \E k \in DOMAIN box : box[k] = j
  /\ \A k \in DOMAIN box : box[k] \in Jobs => box[k] \in erased' \/ k \in DOMAIN box'

LEMMA DeletedFacts ==
  ASSUME NEW S, box \in Seq(S), erased \subseteq Jobs, NEW s, Cleared(s) \/ Shortened(s)
  PROVE  box' \in Seq(S) /\ Deleted
<1>1. Len(box) \in Nat /\ DOMAIN box = 1..Len(box)
  OBVIOUS
<1>2. CASE UNCHANGED paneVars
  BY <1>1, <1>2 DEF paneVars, Deleted
<1>3. CASE Cleared(s) /\ Does(s)
  <2>1. /\ box' = <<>> /\ UNCHANGED entered
        /\ erased' = erased \cup {j \in Jobs : \E k \in DOMAIN box : box[k] = j}
    BY <1>3 DEF Cleared
  <2>2. <<>> \in Seq(S) /\ Len(<<>>) = 0 /\ DOMAIN <<>> = {}
    OBVIOUS
  <2> QED BY <1>1, <2>1, <2>2 DEF Deleted
<1>4. CASE Shortened(s) /\ Does(s) /\ box # <<>>
  <2> DEFINE n == Len(box)
  <2>1. n \in DOMAIN box /\ n - 1 \in Nat /\ n - 1 <= n
    BY <1>1, <1>4
  <2>2. /\ box' = box \/ box' = SubSeq(box, 1, n - 1)
        /\ erased' = erased \cup ({box[n]} \cap Jobs) /\ UNCHANGED entered
    BY <1>4 DEF Shortened
  <2>3. CASE box' = SubSeq(box, 1, n - 1)
    <3>1. /\ box' \in Seq(S) /\ Len(box') = n - 1 /\ DOMAIN box' = 1..(n - 1)
          /\ \A k \in 1..(n - 1) : box'[k] = box[k]
      BY <1>1, <2>1, <2>3
    <3>2. \A k \in DOMAIN box : k \in DOMAIN box' \/ k = n
      BY <1>1, <3>1
    <3>3. \A k \in DOMAIN box' : k \in DOMAIN box
      BY <1>1, <3>1
    <3> HIDE DEF n
    <3> QED BY <2>1, <2>2, <3>1, <3>2, <3>3 DEF Deleted, n
  <2>4. CASE box' = box
    <3> QED BY <1>1, <2>1, <2>2, <2>4 DEF Deleted
  <2> QED BY <2>2, <2>3, <2>4
<1> QED BY <1>2, <1>3, <1>4 DEF Cleared, Shortened, paneVars

LEMMA BecomesFacts ==
  ASSUME viewers \in [Viewers -> Viewer], NEW v \in Viewers, NEW r \in Viewer, Becomes(v, r)
  PROVE  /\ viewers' \in [Viewers -> Viewer] /\ viewers'[v] = r
         /\ \A w \in Viewers \ {v} : viewers'[w] = viewers[w]
  BY DEF Becomes

LEMMA RestIsViewer == AtRest \in Viewer
  BY PaneAssumption DEF AtRest, Viewer
----------------------------------------------------------------------------
(* The type invariant, with the locks. *)

LEMMA TypeInit == Init => PaneTypeOK
<1> SUFFICES ASSUME Init PROVE PaneTypeOK
  OBVIOUS
<1> USE PaneAssumption
<1>1. jobs \in [Jobs -> Job] /\ \A j \in Jobs : Sends(j) <=> locks[ServiceOf[j]] = j
  BY DEF Init, Job, Sends
<1>2. viewers \in [Viewers -> Viewer]
  BY RestIsViewer DEF Init
<1>3. work \in Workload /\ faults \in 0..work.faults
  BY DEF Init, Workload
<1>4. box \in Seq(Jobs \cup Viewers) /\ entered \in Seq(Seq(Jobs \cup Viewers))
  BY DEF Init
<1>5. locks \in [Services -> Jobs \cup {None}] /\ height \in Nat /\ wanted \in Nat
  BY DEF Init
<1>6. erased \subseteq Jobs
  BY DEF Init
<1> QED BY <1>1, <1>2, <1>3, <1>4, <1>5, <1>6 DEF Init, PaneTypeOK

\* What of a step of a goroutine concerns its state, its lock and the connection.
LEMMA JobStep ==
  ASSUME PaneTypeOK, NEW j \in Jobs, Request(j) \/ Lock(j) \/ Sending(j)
  PROVE  /\ JobsOK' /\ ConnOK'
         /\ \A t \in Services : conn'[t] = "exact" => conn[t] = "exact"
         /\ UNCHANGED <<alive, viewers, windowVars, work>>
<1> USE PaneAssumption
<1>0. JobsOK /\ ConnOK /\ alive \in BOOLEAN /\ ServiceOf[j] \in Services
  BY DEF PaneTypeOK, JobsOK, ConnOK
<1>a. ASSUME UNCHANGED <<connVars, work>>
      PROVE  ConnOK' /\ \A t \in Services : conn'[t] = "exact" => conn[t] = "exact"
  BY <1>0, <1>a DEF ConnOK, connVars
<1>b. ASSUME NEW ok \in BOOLEAN, Executes(ServiceOf[j], ok), UNCHANGED work
      PROVE  ConnOK' /\ \A t \in Services : conn'[t] = "exact" => conn[t] = "exact"
  BY <1>0, <1>b, ExecutesFacts DEF ConnOK
<1>1. CASE Request(j)
  <2>1. JobsOK'
    <3>1. CASE GoesTo(j, "lock") /\ UNCHANGED locks
      <4>1. jobs' \in [Jobs -> Job] /\ jobs'[j].pc = "lock" /\ \A i \in Jobs \ {j} : jobs'[i] = jobs[i]
        BY <1>0, <3>1, GoesToFacts DEF JobsOK
      <4> QED BY <1>0, <1>1, <3>1, <4>1 DEF Request, JobsOK, Sends
    <3>2. CASE Answers(j, "failed")
      BY <1>0, <3>2, AnswersFacts
    <3> QED BY <1>1, <3>1, <3>2 DEF Request
  <2> QED BY <1>1, <1>a, <2>1 DEF Request, viewerVars
<1>2. CASE Lock(j)
  <2>1. JobsOK'
    <3>1. CASE Answers(j, "failed")
      BY <1>0, <3>1, AnswersFacts
    <3>2. CASE ~Answers(j, "failed")
      <4> DEFINE pc == IF j \in Prompts THEN "text" ELSE "save"
      <4>1. locks' = [locks EXCEPT ![ServiceOf[j]] = j] /\ GoesTo(j, pc)
        BY <1>2, <3>2 DEF Lock, Begins
      <4>2. pc \in PromptPcs \cup UploadPcs
        BY DEF PromptPcs, UploadPcs
      <4> HIDE DEF pc
      <4>3. jobs' \in [Jobs -> Job] /\ jobs'[j].pc = pc /\ \A i \in Jobs \ {j} : jobs'[i] = jobs[i]
        BY <1>0, <4>1, <4>2, GoesToFacts DEF JobsOK
      <4>4. locks' \in [Services -> Jobs \cup {None}]
        BY <1>0, <4>1 DEF JobsOK
      <4>5. ASSUME NEW i \in Jobs
            PROVE  Sends(i)' <=> locks'[ServiceOf[i]] = i
        BY <1>0, <1>2, <4>1, <4>2, <4>3 DEF Lock, JobsOK, Sends, PromptPcs, UploadPcs
      <4> QED BY <4>3, <4>4, <4>5 DEF JobsOK
    <3> QED BY <3>1, <3>2
  <2> QED BY <1>2, <1>a, <2>1 DEF Lock, viewerVars
<1>3. CASE TypeManyLines(j)
  <2>1. JobsOK'
    BY <1>0, <1>3, AnswersFacts, GoesOn DEF TypeManyLines, Sends, PromptPcs
  <2>2. ConnOK' /\ \A t \in Services : conn'[t] = "exact" => conn[t] = "exact"
    BY <1>0, <1>3 DEF TypeManyLines, ConnOK
  <2> QED BY <1>3, <2>1, <2>2 DEF TypeManyLines, viewerVars
<1>4. CASE Type(j) \/ Escape(j) \/ Enter(j)
  <2>1. PICK ok \in BOOLEAN : Executes(ServiceOf[j], ok)
    BY <1>4 DEF Type, Escape, Enter
  <2>2. JobsOK'
    <3>1. CASE Answers(j, "failed") \/ Answers(j, "ok")
      BY <1>0, <3>1, AnswersFacts
    <3>2. CASE (GoesTo(j, "escape") \/ GoesTo(j, "enter") \/ GoesTo(j, "wake")) /\ UNCHANGED locks
      BY <1>0, <1>4, <3>2, GoesOn DEF Type, Escape, Enter, Sends, PromptPcs
    <3>3. CASE /\ jobs[j].pc = "enter" /\ jobs[j].tries # 2 /\ UNCHANGED locks
               /\ jobs' = [jobs EXCEPT ![j].tries = @ + 1]
      <4>1. jobs' \in [Jobs -> Job] /\ \A i \in Jobs : jobs'[i].pc = jobs[i].pc
        <5>1. jobs[j] \in Job /\ jobs[j].tries + 1 \in 0..2
          BY <1>0, <3>3 DEF JobsOK, Job
        <5> QED BY <1>0, <3>3, <5>1 DEF JobsOK, Job
      <4> QED BY <1>0, <3>3, <4>1 DEF JobsOK, Sends
    <3> QED BY <1>4, <3>1, <3>2, <3>3 DEF Type, Escape, Enter
  <2>3. UNCHANGED <<alive, viewers, windowVars, work>>
    BY <1>4 DEF Type, Escape, Enter, viewerVars
  <2> QED BY <1>b, <2>1, <2>2, <2>3
<1>5. CASE Wake(j) \/ WakeEnds(j) \/ Paste(j) \/ Info(j)
  <2>1. PICK ok \in BOOLEAN : Executes(ServiceOf[j], ok)
    BY <1>5 DEF Wake, WakeEnds, Paste, Info
  <2>2. JobsOK'
    BY <1>0, <1>5, AnswersFacts, GoesOn
       DEF Wake, WakeEnds, Paste, Info, Sends, PromptPcs, UploadPcs
  <2>3. UNCHANGED <<alive, viewers, windowVars, work>>
    BY <1>5 DEF Wake, WakeEnds, Paste, Info, viewerVars
  <2> QED BY <1>b, <2>1, <2>2, <2>3
<1>6. CASE Save(j)
  <2>1. JobsOK'
    BY <1>0, <1>6, AnswersFacts, GoesOn DEF Save, Sends, UploadPcs
  <2> QED BY <1>6, <1>a, <2>1 DEF Save, viewerVars
<1>7. CASE Load(j)
  <2>1. PICK ok \in BOOLEAN : /\ ExecutesIf(conn[ServiceOf[j]] # "closed", ServiceOf[j], ok)
                              /\ IF ok THEN GoesTo(j, "paste") /\ UNCHANGED locks
                                 ELSE Answers(j, "failed")
    BY <1>7 DEF Load
  <2>2. JobsOK'
    BY <1>0, <1>7, <2>1, AnswersFacts, GoesOn DEF Load, Sends, UploadPcs
  <2>3. UNCHANGED <<alive, viewers, windowVars, work>>
    BY <1>7 DEF Load, viewerVars
  <2>4. ConnOK' /\ \A t \in Services : conn'[t] = "exact" => conn[t] = "exact"
    <3>1. (conn[ServiceOf[j]] # "closed") \in BOOLEAN
      OBVIOUS
    <3> QED BY <1>0, <2>1, <2>3, <3>1, ExecuteFacts DEF ConnOK
  <2> QED BY <2>2, <2>3, <2>4
<1> QED BY <1>1, <1>2, <1>3, <1>4, <1>5, <1>6, <1>7 DEF Sending
\* What a goroutine's step does to the pane: nothing, or it types or submits.
LEMMA JobTypes ==
  ASSUME PaneTypeOK, NEW j \in Jobs, Request(j) \/ Lock(j) \/ Sending(j)
  PROVE  /\ box' \in Seq(Jobs \cup Viewers)
         /\ entered' \in Seq(Seq(Jobs \cup Viewers))
         /\ erased' \subseteq Jobs
<1> DEFINE Items == Jobs \cup Viewers
<1>0. box \in Seq(Items) /\ entered \in Seq(Seq(Items)) /\ j \in Items /\ erased \subseteq Jobs
  BY DEF PaneTypeOK
<1> HIDE DEF Items
<1>1. CASE UNCHANGED paneVars
  BY <1>0, <1>1 DEF paneVars, Items
<1>2. CASE Typed(ServiceOf[j], j) /\ UNCHANGED <<entered, erased>>
  BY <1>0, <1>2, TypedFacts DEF Items
<1>3. CASE Submitted(ServiceOf[j])
  BY <1>0, <1>3, SubmittedFacts DEF Items, paneVars
<1> QED BY <1>1, <1>2, <1>3
        DEF Request, Lock, Sending, TypeManyLines, Type, Escape, Enter, Wake, WakeEnds,
            Save, Info, Load, Paste

\* What a viewer's step leaves alone, and what it may do to the pane.
LEMMA ViewStep ==
  ASSUME PaneTypeOK, NEW v \in Viewers, View(v)
  PROVE  /\ UNCHANGED <<alive, locks, jobs>> /\ ConnOK'
         /\ \A t \in Services : conn'[t] = "exact" => conn[t] = "exact"
         /\ \/ UNCHANGED paneVars
            \/ Submitted(Adapter)
            \/ Typed(Adapter, v) /\ UNCHANGED <<entered, erased>>
            \/ Cleared(Adapter) \/ Shortened(Adapter)
<1> USE PaneAssumption
<1>0. ConnOK /\ alive \in BOOLEAN
  BY DEF PaneTypeOK, ConnOK
<1>1. PICK ok \in BOOLEAN : Executes(Adapter, ok) \/ UNCHANGED connVars
  BY DEF View, PressKey, TypeKeys, TypeChunk, Resize, ReadSize, Shrink, Restore
<1>2. \/ UNCHANGED work
      \/ work' = [work EXCEPT !.inputs = @ - 1] /\ work.inputs > 0
  BY DEF View, Asks, PressKey, TypeKeys, TypeChunk, Resize, ReadSize, Shrink, Restore
<1>3. work' \in Workload /\ work'.faults = work.faults
  BY <1>0, <1>2 DEF ConnOK, Workload
<1>4. ConnOK' /\ \A t \in Services : conn'[t] = "exact" => conn[t] = "exact"
  <2>1. CASE Executes(Adapter, ok)
    BY <1>0, <1>3, <2>1, ExecutesFacts DEF ConnOK
  <2>2. CASE UNCHANGED connVars
    BY <1>0, <1>3, <2>2 DEF ConnOK, connVars
  <2> QED BY <1>1, <2>1, <2>2
<1>5. \/ UNCHANGED paneVars
      \/ Submitted(Adapter)
      \/ Typed(Adapter, v) /\ UNCHANGED <<entered, erased>>
      \/ Cleared(Adapter) \/ Shortened(Adapter)
  BY DEF View, PressKey, TypeKeys, TypeChunk, Resize, ReadSize, Shrink, Restore
<1>6. UNCHANGED <<alive, locks, jobs>>
  BY DEF View, PressKey, TypeKeys, TypeChunk, Resize, ReadSize, Shrink, Restore
<1> QED BY <1>4, <1>5, <1>6

\* A redraw under way has read a height of more than one row.
RedrawOK == \A v \in InRedraw : viewers[v].height > 1

\* What a viewer's step does to the window.
LEMMA ViewTypes ==
  ASSUME PaneTypeOK, RedrawOK, NEW v \in Viewers, View(v)
  PROVE  /\ viewers' \in [Viewers -> Viewer] /\ RedrawOK'
         /\ height' \in Nat /\ wanted' \in Nat /\ disturbed' \in BOOLEAN
<1> USE PaneAssumption
<1>0. /\ viewers \in [Viewers -> Viewer] /\ viewers[v] \in Viewer
      /\ height \in Nat /\ wanted \in Nat /\ disturbed \in BOOLEAN
  BY DEF PaneTypeOK
<1>a. ASSUME NEW r \in Viewer, Becomes(v, r), r.pc \in {"shrink", "restore"} => r.height > 1
      PROVE  viewers' \in [Viewers -> Viewer] /\ RedrawOK'
  <2>1. viewers' \in [Viewers -> Viewer] /\ viewers'[v] = r
        /\ \A w \in Viewers \ {v} : viewers'[w] = viewers[w]
    BY <1>0, <1>a, BecomesFacts
  <2> QED BY <1>a, <2>1 DEF RedrawOK, InRedraw
<1>b. AtRest \in Viewer /\ AtRest.pc = "idle"
  BY RestIsViewer DEF AtRest
<1>1. CASE PressKey(v)
  BY <1>0, <1>1 DEF PressKey, windowVars, RedrawOK, InRedraw
<1>2. CASE TypeKeys(v)
  <2>1. [pc |-> "type", left |-> Chunks, height |-> 0] \in Viewer
    BY DEF Viewer
  <2>2. [pc |-> "type", left |-> Chunks, height |-> 0].pc = "type"
    OBVIOUS
  <2> QED BY <1>0, <1>2, <1>a, <2>1, <2>2 DEF TypeKeys, windowVars
<1>3. CASE TypeChunk(v)
  <2>1. viewers[v].left > 1 => /\ [viewers[v] EXCEPT !.left = @ - 1] \in Viewer
                               /\ [viewers[v] EXCEPT !.left = @ - 1].pc = "type"
    BY <1>0, <1>3 DEF TypeChunk, Viewer
  <2>2. UNCHANGED windowVars /\ \E ok \in BOOLEAN :
          Becomes(v, IF ok /\ viewers[v].left > 1
                     THEN [viewers[v] EXCEPT !.left = @ - 1] ELSE AtRest)
    BY <1>3 DEF TypeChunk
  <2> QED BY <1>0, <1>a, <1>b, <2>1, <2>2 DEF windowVars
<1>4. ASSUME NEW h \in Heights, Resize(v, h)
      PROVE  /\ viewers' \in [Viewers -> Viewer] /\ RedrawOK'
             /\ height' \in Nat /\ wanted' \in Nat /\ disturbed' \in BOOLEAN
  BY <1>0, <1>4 DEF Resize, Resized, RedrawOK, InRedraw
<1>5. CASE ReadSize(v)
  <2>1. PICK ok \in BOOLEAN, h \in {height} \cup (IF conn[Adapter] = "late" THEN Heights ELSE {}) :
          Becomes(v, IF ok /\ h > 1 THEN [pc |-> "shrink", left |-> 0, height |-> h] ELSE AtRest)
    BY <1>5 DEF ReadSize
  <2>2. h \in Nat
    BY <1>0
  <2>3. /\ [pc |-> "shrink", left |-> 0, height |-> h] \in Viewer
        /\ [pc |-> "shrink", left |-> 0, height |-> h].height = h
    BY <2>2 DEF Viewer
  <2>4. viewers' \in [Viewers -> Viewer] /\ RedrawOK'
    BY <1>a, <1>b, <2>1, <2>2, <2>3
  <2> QED BY <1>0, <1>5, <2>4 DEF ReadSize
<1>6. CASE Shrink(v)
  <2>1. v \in InRedraw /\ viewers[v].height > 1 /\ viewers[v].height \in Nat
    BY <1>0, <1>6 DEF Shrink, InRedraw, RedrawOK, Viewer
  <2>2. height' \in Nat
    BY <1>0, <1>6, <2>1 DEF Shrink, Resized
  <2>3. /\ [viewers[v] EXCEPT !.pc = "restore"] \in Viewer
        /\ [viewers[v] EXCEPT !.pc = "restore"].height > 1
    BY <1>0, <2>1 DEF Viewer
  <2>4. \E ok \in BOOLEAN :
          Becomes(v, IF ok THEN [viewers[v] EXCEPT !.pc = "restore"] ELSE AtRest)
    BY <1>6 DEF Shrink
  <2>5. viewers' \in [Viewers -> Viewer] /\ RedrawOK'
    BY <1>a, <1>b, <2>3, <2>4
  <2>6. wanted' \in Nat /\ disturbed' \in BOOLEAN
    BY <1>0, <1>6 DEF Shrink, Does
  <2> QED BY <2>2, <2>5, <2>6
<1>7. CASE Restore(v)
  <2>1. viewers[v].height \in Nat
    BY <1>0 DEF Viewer
  <2>2. height' \in Nat
    BY <1>0, <1>7, <2>1 DEF Restore, Resized
  <2>3. viewers' \in [Viewers -> Viewer] /\ RedrawOK'
    BY <1>7, <1>a, <1>b DEF Restore
  <2>4. wanted' \in Nat /\ disturbed' \in BOOLEAN
    BY <1>0, <1>7 DEF Restore, Does
  <2> QED BY <2>2, <2>3, <2>4
<1> QED BY <1>1, <1>2, <1>3, <1>4, <1>5, <1>6, <1>7 DEF View

\* Types, locks and heights are kept by every step.
LEMMA TypeStep ==
  ASSUME PaneTypeOK, RedrawOK, PaneNext
  PROVE  PaneTypeOK' /\ RedrawOK'
<1> USE PaneAssumption
<1>1. ASSUME NEW j \in Jobs, Request(j) \/ Lock(j) \/ Sending(j)
      PROVE  PaneTypeOK' /\ RedrawOK'
  <2>1. JobsOK' /\ ConnOK' /\ UNCHANGED <<alive, viewers, windowVars, work>>
    BY <1>1, JobStep
  <2>2. /\ box' \in Seq(Jobs \cup Viewers) /\ entered' \in Seq(Seq(Jobs \cup Viewers))
        /\ erased' \subseteq Jobs
    BY <1>1, JobTypes
  <2> QED BY <2>1, <2>2 DEF PaneTypeOK, JobsOK, ConnOK, windowVars, RedrawOK, InRedraw
<1>2. ASSUME NEW v \in Viewers, View(v)
      PROVE  PaneTypeOK' /\ RedrawOK'
  <2> DEFINE Items == Jobs \cup Viewers
  <2>0. box \in Seq(Items) /\ entered \in Seq(Seq(Items)) /\ v \in Items /\ erased \subseteq Jobs
    BY DEF PaneTypeOK
  <2>1. /\ UNCHANGED <<alive, locks, jobs>> /\ ConnOK'
        /\ \/ UNCHANGED paneVars \/ Submitted(Adapter)
           \/ Typed(Adapter, v) /\ UNCHANGED <<entered, erased>>
           \/ Cleared(Adapter) \/ Shortened(Adapter)
    BY <1>2, ViewStep
  <2>2. /\ viewers' \in [Viewers -> Viewer] /\ RedrawOK'
        /\ height' \in Nat /\ wanted' \in Nat /\ disturbed' \in BOOLEAN
    BY <1>2, ViewTypes
  <2> HIDE DEF Items
  <2>3. box' \in Seq(Items) /\ entered' \in Seq(Seq(Items)) /\ erased' \subseteq Jobs
    <3>1. CASE Cleared(Adapter) \/ Shortened(Adapter)
      BY <2>0, <3>1, DeletedFacts DEF Deleted
    <3> QED BY <2>0, <2>1, <3>1, TypedFacts, SubmittedFacts DEF paneVars
  <2> QED BY <2>1, <2>2, <2>3 DEF PaneTypeOK, ConnOK, Sends, Items
<1>3. ASSUME NEW s \in Services, CloseConnection(s)
      PROVE  PaneTypeOK' /\ RedrawOK'
  <2>1. conn' \in [Services -> {"exact", "late", "closed"}] /\ faults' \in 0..work.faults
    BY <1>3 DEF CloseConnection, PaneTypeOK, Workload
  <2> QED BY <1>3, <2>1
          DEF CloseConnection, PaneTypeOK, Sends, paneVars, viewerVars, windowVars, RedrawOK, InRedraw
<1>4. CASE SessionEnds
  BY <1>4 DEF SessionEnds, PaneTypeOK, Sends, connVars, paneVars, viewerVars, windowVars,
              RedrawOK, InRedraw
<1> QED BY <1>1, <1>2, <1>3, <1>4 DEF PaneNext

----------------------------------------------------------------------------
(* Where an item can be. *)

Went(x) == \E n \in DOMAIN entered : In(x, entered[n])

\* x is at one place of the pane at most.
Once(x) ==
  /\ SubmittedAtMostOnce(x)
  /\ In(x, box) => ~Went(x)
  /\ \A i, k \in DOMAIN box : box[i] = x /\ box[k] = x => i = k

LEMMA TypedIn ==
  ASSUME NEW S, box \in Seq(S), NEW s, NEW item \in S, Typed(s, item), UNCHANGED <<entered, erased>>, NEW x
  PROVE  /\ In(x, box)' <=> In(x, box) \/ (x = item /\ Does(s))
         /\ Went(x)' <=> Went(x)
         /\ Once(x) /\ (x = item => ~In(x, box) /\ ~Went(x)) => Once(x)'
<1>1. /\ box' \in Seq(S)
      /\ Does(s) => Len(box') = Len(box) + 1 /\ box'[Len(box) + 1] = item
      /\ \A k \in 1..Len(box) : k \in DOMAIN box' /\ box'[k] = box[k]
      /\ ~Does(s) => box' = box
  BY TypedFacts
<1>2. DOMAIN box = 1..Len(box) /\ DOMAIN box' = 1..Len(box') /\ Len(box) \in Nat
  BY <1>1
<1>3. In(x, box)' <=> In(x, box) \/ (x = item /\ Does(s))
  <2>1. CASE Does(s)
    <3>1. \A k \in DOMAIN box' : k \in DOMAIN box \/ k = Len(box) + 1
      BY <1>1, <1>2, <2>1
    <3>2. Len(box) + 1 \in DOMAIN box' /\ box'[Len(box) + 1] = item
      BY <1>1, <1>2, <2>1
    <3> QED BY <1>1, <1>2, <2>1, <3>1, <3>2 DEF In
  <2>2. CASE ~Does(s)
    BY <1>1, <2>2 DEF In
  <2> QED BY <2>1, <2>2
<1>4. Went(x)' <=> Went(x)
  BY DEF Went, In
<1>5. ASSUME Once(x), x = item => ~In(x, box) /\ ~Went(x)
      PROVE  Once(x)'
  <2>1. SubmittedAtMostOnce(x)'
    BY <1>5 DEF Once, SubmittedAtMostOnce
  <2>2. In(x, box)' => ~Went(x)'
    BY <1>3, <1>4, <1>5 DEF Once
  <2>3. ASSUME NEW i \in DOMAIN box', NEW k \in DOMAIN box', box'[i] = x, box'[k] = x
        PROVE  i = k
    <3>1. CASE Does(s)
      <4>1. \A m \in DOMAIN box' : m \in DOMAIN box \/ m = Len(box) + 1
        BY <1>1, <1>2, <3>1
      <4>2. \A m \in DOMAIN box : box'[m] = box[m]
        BY <1>1, <1>2
      <4>3. box'[Len(box) + 1] = item
        BY <1>1, <3>1
      <4> QED BY <1>5, <2>3, <4>1, <4>2, <4>3 DEF Once, In
    <3>2. CASE ~Does(s)
      BY <1>1, <1>5, <2>3, <3>2 DEF Once
    <3> QED BY <3>1, <3>2
  <2> QED BY <2>1, <2>2, <2>3 DEF Once
<1> QED BY <1>3, <1>4, <1>5

LEMMA SubmittedIn ==
  ASSUME NEW S, box \in Seq(S), entered \in Seq(Seq(S)), NEW s, Submitted(s), NEW x
  PROVE  /\ In(x, box)' <=> In(x, box) /\ ~Does(s)
         /\ Went(x)' <=> Went(x) \/ (In(x, box) /\ Does(s))
         /\ Once(x) => Once(x)'
<1>1. CASE UNCHANGED paneVars /\ (Does(s) => box = <<>>)
  <2>1. In(x, box)' <=> In(x, box)
    BY <1>1 DEF paneVars, In
  <2>2. Does(s) => ~In(x, box)
    BY <1>1 DEF In
  <2>3. Went(x)' <=> Went(x)
    BY <1>1 DEF paneVars, Went, In
  <2>4. Once(x) => Once(x)'
    BY <1>1, <2>1, <2>3 DEF paneVars, Once, SubmittedAtMostOnce
  <2> QED BY <2>1, <2>2, <2>3, <2>4
<1>2. CASE /\ Does(s) /\ box' = <<>>
           /\ Len(entered') = Len(entered) + 1 /\ entered'[Len(entered) + 1] = box
           /\ \A n \in 1..Len(entered) : entered'[n] = entered[n]
  <2> DEFINE last == Len(entered) + 1
  <2>1. entered' \in Seq(Seq(S))
    BY SubmittedFacts
  <2>2. /\ DOMAIN entered = 1..Len(entered) /\ DOMAIN entered' = 1..Len(entered')
        /\ Len(entered) \in Nat
    BY <2>1
  <2>3. /\ \A n \in DOMAIN entered' : n \in DOMAIN entered \/ n = last
        /\ \A n \in DOMAIN entered : n \in DOMAIN entered' /\ n # last /\ entered'[n] = entered[n]
        /\ last \in DOMAIN entered' /\ entered'[last] = box
    BY <1>2, <2>2
  <2> HIDE DEF last
  <2>4. ~In(x, box)'
    BY <1>2 DEF In
  <2>5. Went(x)' <=> Went(x) \/ In(x, box)
    BY <2>3 DEF Went, In
  <2>6. ASSUME Once(x)
        PROVE  Once(x)'
    <3>1. ASSUME NEW n \in DOMAIN entered', NEW m \in DOMAIN entered',
                 NEW k \in DOMAIN entered'[n], NEW i \in DOMAIN entered'[m],
                 entered'[n][k] = x, entered'[m][i] = x
          PROVE  n = m /\ k = i
      <4>1. CASE n # last /\ m # last
        BY <2>3, <2>6, <3>1, <4>1 DEF Once, SubmittedAtMostOnce
      <4>2. CASE n = last /\ m = last
        BY <2>3, <2>6, <3>1, <4>2 DEF Once
      <4>3. CASE n = last /\ m # last
        <5>1. In(x, box) /\ Went(x)
          BY <2>3, <3>1, <4>3 DEF In, Went
        <5> QED BY <2>6, <5>1 DEF Once
      <4>4. CASE n # last /\ m = last
        <5>1. In(x, box) /\ Went(x)
          BY <2>3, <3>1, <4>4 DEF In, Went
        <5> QED BY <2>6, <5>1 DEF Once
      <4> QED BY <4>1, <4>2, <4>3, <4>4
    <3>2. SubmittedAtMostOnce(x)'
      BY <3>1 DEF SubmittedAtMostOnce
    <3> QED BY <1>2, <2>4, <3>2 DEF Once
  <2> QED BY <1>2, <2>4, <2>5, <2>6
<1> QED BY <1>1, <1>2, SubmittedFacts

LEMMA DeletedIn ==
  ASSUME Deleted, NEW x
  PROVE  /\ In(x, box)' => In(x, box)
         /\ Went(x)' <=> Went(x)
         /\ Once(x) => Once(x)'
         /\ x \in Jobs /\ In(x, box) => In(x, box)' \/ x \in erased'
         /\ x \in erased' => x \in erased \/ In(x, box)
<1>1. Went(x)' <=> Went(x)
  BY DEF Deleted, Went, In
<1>2. In(x, box)' => In(x, box)
  BY DEF Deleted, In
<1>3. Once(x) => Once(x)'
  BY <1>1, <1>2 DEF Deleted, Once, SubmittedAtMostOnce
<1>4. x \in Jobs /\ In(x, box) => In(x, box)' \/ x \in erased'
  BY DEF Deleted, In
<1>5. x \in erased' => x \in erased \/ In(x, box)
  BY DEF Deleted, In
<1> QED BY <1>1, <1>2, <1>3, <1>4, <1>5
----------------------------------------------------------------------------
(* What is known of a request while it is under way. *)

JobInv(i) ==
  /\ jobs[i].pc = "answered" <=> jobs[i].outcome # "none"
  /\ i \in Prompts => jobs[i].pc \notin UploadPcs
  /\ i \in Uploads => jobs[i].pc \notin PromptPcs
  \* What is not sent yet is not in the pane, and what is submitted has left the box.
  /\ In(i, box) \/ Went(i) \/ i \in erased =>
       jobs[i].pc \in {"escape", "enter", "wake", "woken", "answered"}
  /\ i \in Prompts /\ In(i, box) /\ (jobs[i].pc \in {"wake", "woken"} \/ jobs[i].outcome = "ok") =>
       ~alive
  /\ Once(i)
  \* What is sent is somewhere or was deleted, as long as the answers are in step.
  /\ conn[ServiceOf[i]] = "exact" =>
       /\ jobs[i].pc \in {"escape", "enter"} => In(i, box) \/ Went(i) \/ i \in erased
       /\ jobs[i].pc \in {"wake", "woken"} => Went(i) \/ i \in erased
  /\ jobs[i].outcome = "ok" /\ jobs[i].exact =>
       Went(i) \/ i \in erased \/ (i \in Uploads /\ In(i, box))

JobsInv == \A i \in Jobs : JobInv(i)

\* A step of somebody else.
LEMMA OthersKept ==
  ASSUME PaneTypeOK, NEW i \in Jobs, JobInv(i), jobs'[i] = jobs[i], alive' => alive,
         \A t \in Services : conn'[t] = "exact" => conn[t] = "exact",
         \/ UNCHANGED paneVars
         \/ \E s \in Services : Submitted(s)
         \/ \E s \in Services, item \in (Jobs \cup Viewers) \ {i} :
              Typed(s, item) /\ UNCHANGED <<entered, erased>>
         \/ Deleted
  PROVE  JobInv(i)'
<1> DEFINE Items == Jobs \cup Viewers
<1>0. box \in Seq(Items) /\ entered \in Seq(Seq(Items)) /\ ServiceOf[i] \in Services
  BY PaneAssumption DEF PaneTypeOK
<1> HIDE DEF Items
<1>1. /\ Once(i)'
      /\ In(i, box) \/ Went(i) \/ i \in erased <=> In(i, box)' \/ Went(i)' \/ i \in erased'
      /\ Went(i) => Went(i)'
      /\ i \in erased => i \in erased'
      /\ In(i, box)' => In(i, box)
  <2>1. Once(i)
    BY DEF JobInv
  <2>2. CASE UNCHANGED paneVars
    BY <2>1, <2>2 DEF paneVars, In, Went, Once, SubmittedAtMostOnce
  <2>3. ASSUME NEW s \in Services, Submitted(s)
        PROVE  <1>1!:
    BY <1>0, <2>1, <2>3, SubmittedIn DEF Submitted
  <2>4. ASSUME NEW s \in Services, NEW item \in (Jobs \cup Viewers) \ {i},
               Typed(s, item), UNCHANGED <<entered, erased>>
        PROVE  <1>1!:
    BY <1>0, <2>1, <2>4, TypedIn DEF Items
  <2>5. CASE Deleted
    <3>1. erased \subseteq erased' /\ i \in Jobs
      BY <2>5 DEF Deleted
    <3> QED BY <2>1, <2>5, <3>1, DeletedIn
  <2> QED BY <2>2, <2>3, <2>4, <2>5
<1>2. i \in Uploads /\ In(i, box) => Went(i)' \/ In(i, box)' \/ i \in erased'
  BY <1>1
<1> QED BY <1>0, <1>1, <1>2 DEF JobInv

\* The step of a goroutine that leaves the pane alone.
LEMMA QuietKept ==
  ASSUME PaneTypeOK, NEW j \in Jobs, JobInv(j), UNCHANGED <<paneVars, alive>>,
         \A t \in Services : conn'[t] = "exact" => conn[t] = "exact",
         NEW pc, NEW outcome, NEW exact,
         jobs'[j].pc = pc, jobs'[j].outcome = outcome, jobs'[j].exact = exact,
         pc = "answered" <=> outcome # "none",
         j \in Prompts => pc \notin UploadPcs, j \in Uploads => pc \notin PromptPcs,
         \/ pc \in {"lock", "text", "save", "info", "load", "paste"}
              /\ ~In(j, box) /\ ~Went(j) /\ j \notin erased /\ outcome = "none"
         \/ /\ pc = "escape" /\ jobs[j].pc = "text" /\ outcome = "none"
            /\ ~In(j, box) /\ ~Went(j) /\ j \notin erased /\ conn'[ServiceOf[j]] # "exact"
         \/ pc = "enter" /\ jobs[j].pc = "escape" /\ outcome = "none"
         \/ pc = "woken" /\ jobs[j].pc = "wake" /\ outcome = "none"
         \/ pc = "answered" /\ outcome = "failed"
         \/ /\ pc = "answered" /\ outcome = "ok" /\ jobs[j].pc = "woken"
            /\ exact => conn'[ServiceOf[j]] = "exact"
  PROVE  JobInv(j)'
<1>0. ServiceOf[j] \in Services
  BY PaneAssumption
<1>1. (In(j, box)' <=> In(j, box)) /\ (Went(j)' <=> Went(j)) /\ erased' = erased /\ Once(j)'
  BY DEF JobInv, paneVars, In, Went, Once, SubmittedAtMostOnce
<1> QED BY <1>0, <1>1, PaneAssumption DEF JobInv, PromptPcs, UploadPcs
\* The step of the goroutine itself.
LEMMA OwnKept ==
  ASSUME PaneTypeOK, NEW j \in Jobs, JobInv(j), Request(j) \/ Lock(j) \/ Sending(j)
  PROVE  JobInv(j)'
<1> USE PaneAssumption
<1> DEFINE Items == Jobs \cup Viewers
           s == ServiceOf[j]
<1>0. /\ JobsOK /\ ConnOK /\ alive \in BOOLEAN /\ s \in Services /\ jobs[j] \in Job
      /\ box \in Seq(Items) /\ entered \in Seq(Seq(Items)) /\ j \in Items
  BY DEF PaneTypeOK, JobsOK, ConnOK
<1> HIDE DEF Items, s
<1>a. /\ UNCHANGED alive
      /\ \A t \in Services : conn'[t] = "exact" => conn[t] = "exact"
  BY JobStep
<1>b. ASSUME NEW pc \in PromptPcs \cup UploadPcs \cup {"lock"}, GoesTo(j, pc)
      PROVE  /\ jobs'[j].pc = pc /\ jobs'[j].outcome = jobs[j].outcome
             /\ jobs'[j].exact = jobs[j].exact
  BY <1>0, <1>b, GoesToFacts DEF JobsOK
<1>c. ASSUME NEW outcome \in {"ok", "failed"}, Answers(j, outcome)
      PROVE  /\ jobs'[j].pc = "answered" /\ jobs'[j].outcome = outcome
             /\ jobs'[j].exact = (conn'[s] = "exact")
  BY <1>0, <1>c, AnswersFacts DEF s
<1>d. ASSUME UNCHANGED paneVars, Answers(j, "failed")
      PROVE  JobInv(j)'
  <2>1. jobs'[j].pc = "answered" /\ jobs'[j].outcome = "failed"
    BY <1>c, <1>d
  <2> QED BY <1>a, <1>d, <2>1, QuietKept DEF PromptPcs, UploadPcs
<1>e. ASSUME UNCHANGED paneVars, NEW pc \in {"lock", "text", "save", "info", "load", "paste"},
             GoesTo(j, pc), jobs[j].pc \notin {"escape", "enter", "wake", "woken", "answered"},
             j \in Prompts => pc \notin UploadPcs, j \in Uploads => pc \notin PromptPcs
      PROVE  JobInv(j)'
  <2>1. jobs'[j].pc = pc /\ jobs'[j].outcome = "none"
    BY <1>0, <1>b, <1>e DEF JobInv, PromptPcs, UploadPcs, Job
  <2>2. ~In(j, box) /\ ~Went(j) /\ j \notin erased
    BY <1>e DEF JobInv
  <2> QED BY <1>a, <1>e, <2>1, <2>2, QuietKept
<1>f. Does(s) => alive
  BY DEF Does
<1>1. CASE Request(j)
  <2>1. UNCHANGED paneVars /\ (GoesTo(j, "lock") \/ Answers(j, "failed"))
    BY <1>1 DEF Request
  <2> QED BY <1>1, <1>d, <1>e, <2>1 DEF Request, PromptPcs, UploadPcs
<1>2. CASE Lock(j)
  <2>1. /\ UNCHANGED paneVars
        /\ (j \in Prompts /\ GoesTo(j, "text")) \/ (j \notin Prompts /\ GoesTo(j, "save"))
             \/ Answers(j, "failed")
    BY <1>2 DEF Lock, Begins
  <2> QED BY <1>2, <1>d, <1>e, <2>1 DEF Lock, PromptPcs, UploadPcs
<1>3. CASE TypeManyLines(j)
  <2>1. CASE Answers(j, "failed")
    BY <1>3, <1>d, <2>1 DEF TypeManyLines
  <2>2. CASE GoesTo(j, "escape")
    <3>1. /\ UNCHANGED paneVars /\ jobs[j].pc = "text" /\ jobs[j].outcome = "none"
          /\ ~In(j, box) /\ ~Went(j) /\ j \notin erased /\ j \notin Uploads
      BY <1>0, <1>3 DEF TypeManyLines, JobInv, Job, PromptPcs
    <3>2. jobs'[j].pc = "escape" /\ jobs'[j].outcome = "none"
      BY <1>b, <2>2, <3>1 DEF PromptPcs
    <3>3. conn'[s] # "exact"
      BY <1>0, <1>3 DEF TypeManyLines, ConnOK, s
    <3> QED BY <1>a, <3>1, <3>2, <3>3, QuietKept DEF UploadPcs, s
  <2> QED BY <1>3, <2>1, <2>2 DEF TypeManyLines
<1>4. CASE Type(j)
  <2>1. PICK ok \in BOOLEAN : /\ Executes(s, ok)
                              /\ IF ok THEN GoesTo(j, "escape") ELSE Answers(j, "failed")
    BY <1>4 DEF Type, s
  <2>2. Typed(s, j) /\ UNCHANGED <<entered, erased>> /\ jobs[j].pc = "text"
    BY <1>4 DEF Type, s
  <2>3. /\ ~In(j, box) /\ ~Went(j) /\ j \notin erased' /\ jobs[j].outcome = "none"
        /\ j \notin Uploads /\ Once(j)
    BY <1>0, <2>2 DEF JobInv, Job, PromptPcs
  <2>4. (In(j, box)' <=> Does(s)) /\ ~Went(j)' /\ Once(j)'
    BY <1>0, <2>2, <2>3, TypedIn
  <2>5. CASE ok
    <3>1. jobs'[j].pc = "escape" /\ jobs'[j].outcome = "none"
      BY <1>b, <2>1, <2>3, <2>5 DEF PromptPcs
    <3>2. conn'[s] = "exact" => Does(s)
      BY <1>0, <2>1, <2>5, ExecutesFacts
    <3> QED BY <2>3, <2>4, <3>1, <3>2 DEF JobInv, UploadPcs, s
  <2>6. CASE ~ok
    <3>1. jobs'[j].pc = "answered" /\ jobs'[j].outcome = "failed"
      BY <1>c, <2>1, <2>6
    <3> QED BY <2>3, <2>4, <3>1 DEF JobInv, PromptPcs, UploadPcs
  <2> QED BY <2>5, <2>6
<1>5. CASE Escape(j)
  <2>1. UNCHANGED paneVars /\ jobs[j].pc = "escape" /\ (GoesTo(j, "enter") \/ Answers(j, "failed"))
    BY <1>5 DEF Escape
  <2>2. CASE GoesTo(j, "enter")
    <3>1. jobs[j].outcome = "none" /\ j \notin Uploads
      BY <1>0, <2>1 DEF JobInv, Job, PromptPcs
    <3>2. jobs'[j].pc = "enter" /\ jobs'[j].outcome = "none"
      BY <1>b, <2>2, <3>1 DEF PromptPcs
    <3> QED BY <1>a, <2>1, <3>1, <3>2, QuietKept DEF UploadPcs
  <2> QED BY <1>d, <2>1, <2>2
<1>6. CASE Enter(j)
  <2>1. PICK ok \in BOOLEAN :
          /\ Executes(s, ok)
          /\ IF ok THEN Answers(j, "ok") \/ GoesTo(j, "wake")
             ELSE IF jobs[j].tries = 2 THEN Answers(j, "failed")
             ELSE jobs' = [jobs EXCEPT ![j].tries = @ + 1]
    BY <1>6 DEF Enter, s
  <2>2. Submitted(s) /\ jobs[j].pc = "enter"
    BY <1>6 DEF Enter, s
  <2>10. UNCHANGED erased
    BY <2>2 DEF Submitted
  <2>3. jobs[j].outcome = "none" /\ j \notin Uploads /\ j \in Prompts /\ Once(j)
    BY <1>0, <2>2 DEF JobInv, Job, PromptPcs
  <2>4. /\ In(j, box)' <=> In(j, box) /\ ~Does(s)
        /\ Went(j)' <=> Went(j) \/ (In(j, box) /\ Does(s))
        /\ Once(j)'
    BY <1>0, <2>2, <2>3, SubmittedIn
  <2>5. /\ conn'[s] = "exact" => conn[s] = "exact" /\ (ok <=> Does(s))
        /\ ok /\ alive => Does(s)
    BY <1>0, <2>1, ExecutesFacts
  <2>6. conn[s] = "exact" => In(j, box) \/ Went(j) \/ j \in erased
    BY <2>2 DEF JobInv, s
  <2>7. CASE ok
    <3>1. CASE Answers(j, "ok")
      <4>1. /\ jobs'[j].pc = "answered" /\ jobs'[j].outcome = "ok"
            /\ jobs'[j].exact = (conn'[s] = "exact")
        BY <1>c, <3>1
      <4> QED BY <1>a, <2>3, <2>4, <2>5, <2>6, <2>7, <2>10, <4>1 DEF JobInv, PromptPcs, UploadPcs, s
    <3>2. CASE GoesTo(j, "wake")
      <4>1. jobs'[j].pc = "wake" /\ jobs'[j].outcome = "none"
        BY <1>b, <2>3, <3>2 DEF PromptPcs
      <4> QED BY <1>a, <2>3, <2>4, <2>5, <2>6, <2>7, <2>10, <4>1 DEF JobInv, UploadPcs, s
    <3> QED BY <2>1, <2>7, <3>1, <3>2
  <2>8. CASE ~ok /\ jobs[j].tries = 2
    <3>1. jobs'[j].pc = "answered" /\ jobs'[j].outcome = "failed"
      BY <1>c, <2>1, <2>8
    <3> QED BY <2>3, <2>4, <3>1 DEF JobInv, PromptPcs, UploadPcs
  <2>9. CASE ~ok /\ jobs[j].tries # 2
    <3>1. jobs'[j].pc = "enter" /\ jobs'[j].outcome = "none"
      BY <1>0, <2>1, <2>2, <2>3, <2>9 DEF JobsOK, Job
    <3> QED BY <2>3, <2>4, <2>5, <2>6, <2>10, <3>1 DEF JobInv, UploadPcs, s
  <2> QED BY <2>7, <2>8, <2>9
<1>7. CASE Wake(j)
  <2>1. UNCHANGED paneVars /\ jobs[j].pc = "wake" /\ GoesTo(j, "woken")
    BY <1>7 DEF Wake
  <2>2. jobs[j].outcome = "none" /\ j \notin Uploads
    BY <1>0, <2>1 DEF JobInv, Job, PromptPcs
  <2>3. jobs'[j].pc = "woken" /\ jobs'[j].outcome = "none"
    BY <1>b, <2>1, <2>2 DEF PromptPcs
  <2> QED BY <1>a, <2>1, <2>2, <2>3, QuietKept DEF UploadPcs
<1>10. CASE WakeEnds(j)
  <2>1. UNCHANGED paneVars /\ jobs[j].pc = "woken" /\ Answers(j, "ok")
    BY <1>10 DEF WakeEnds
  <2>2. /\ jobs'[j].pc = "answered" /\ jobs'[j].outcome = "ok"
        /\ jobs'[j].exact = (conn'[s] = "exact")
    BY <1>c, <2>1
  <2> QED BY <1>a, <2>1, <2>2, QuietKept DEF PromptPcs, UploadPcs, s
<1>8. CASE Save(j) \/ Info(j) \/ Load(j)
  <2>1. j \notin Prompts
    BY <1>8 DEF Save, Info, Load, JobInv, UploadPcs
  <2>2. /\ UNCHANGED paneVars /\ jobs[j].pc \in {"save", "info", "load"}
        /\ GoesTo(j, "info") \/ GoesTo(j, "load") \/ GoesTo(j, "paste") \/ Answers(j, "failed")
    BY <1>8 DEF Save, Info, Load
  <2> QED BY <1>d, <1>e, <2>1, <2>2 DEF PromptPcs
<1>9. CASE Paste(j)
  <2>1. PICK ok \in BOOLEAN : /\ Executes(s, ok)
                              /\ Answers(j, IF ok THEN "ok" ELSE "failed")
    BY <1>9 DEF Paste, s
  <2>2. Typed(s, j) /\ UNCHANGED <<entered, erased>> /\ jobs[j].pc = "paste"
    BY <1>9 DEF Paste, s
  <2>3. ~In(j, box) /\ ~Went(j) /\ j \notin Prompts /\ j \notin erased' /\ Once(j)
    BY <2>2 DEF JobInv, UploadPcs
  <2>4. (In(j, box)' <=> Does(s)) /\ ~Went(j)' /\ Once(j)'
    BY <1>0, <2>2, <2>3, TypedIn
  <2>5. /\ jobs'[j].pc = "answered" /\ jobs'[j].outcome = (IF ok THEN "ok" ELSE "failed")
        /\ jobs'[j].exact = (conn'[s] = "exact")
    BY <1>c, <2>1
  <2>6. conn'[s] = "exact" => (ok <=> Does(s))
    BY <1>0, <2>1, ExecutesFacts
  <2> QED BY <2>3, <2>4, <2>5, <2>6 DEF JobInv, PromptPcs, UploadPcs
<1> QED BY <1>1, <1>2, <1>3, <1>4, <1>5, <1>6, <1>7, <1>8, <1>9, <1>10 DEF Sending
\* What a goroutine's step leaves alone, and what it may do to the pane.
LEMMA JobTouches ==
  ASSUME PaneTypeOK, NEW j \in Jobs, Request(j) \/ Lock(j) \/ Sending(j)
  PROVE  /\ jobs[j].pc # "answered"
         /\ \A i \in Jobs \ {j} : jobs'[i] = jobs[i]
         /\ \/ UNCHANGED paneVars
            \/ Submitted(ServiceOf[j])
            \/ /\ Typed(ServiceOf[j], j) /\ UNCHANGED <<entered, erased>>
               /\ jobs[j].pc \in {"text", "paste"}
<1>0. JobsOK
  BY DEF PaneTypeOK, JobsOK
<1>1. \/ \E pc \in PromptPcs \cup UploadPcs \cup {"lock"} : GoesTo(j, pc)
      \/ \E outcome \in {"ok", "failed"} : Answers(j, outcome)
      \/ jobs' = [jobs EXCEPT ![j].tries = @ + 1]
  <2>1. ASSUME NEW ok \in BOOLEAN
        PROVE  (IF ok THEN "ok" ELSE "failed") \in {"ok", "failed"}
    OBVIOUS
  <2>2. CASE Request(j) \/ Lock(j)
    <3>1. (IF j \in Prompts THEN "text" ELSE "save") \in PromptPcs \cup UploadPcs
      BY DEF PromptPcs, UploadPcs
    <3> QED BY <2>2, <3>1 DEF Request, Lock, Begins
  <2>3. CASE TypeManyLines(j) \/ Type(j) \/ Escape(j) \/ Enter(j) \/ Wake(j) \/ WakeEnds(j)
    BY <2>3 DEF TypeManyLines, Type, Escape, Enter, Wake, WakeEnds, PromptPcs
  <2>4. CASE Save(j) \/ Info(j) \/ Load(j) \/ Paste(j)
    BY <2>1, <2>4 DEF Save, Info, Load, Paste, UploadPcs
  <2> QED BY <2>2, <2>3, <2>4 DEF Sending
<1>2. \A i \in Jobs \ {j} : jobs'[i] = jobs[i]
  <2>1. CASE jobs' = [jobs EXCEPT ![j].tries = @ + 1]
    BY <1>0, <2>1 DEF JobsOK
  <2> QED BY <1>0, <1>1, <2>1, GoesToFacts, AnswersFacts DEF JobsOK
<1> QED BY <1>2
        DEF Request, Lock, Sending, TypeManyLines, Type, Escape, Enter, Wake, WakeEnds,
            Save, Info, Load, Paste

LEMMA JobsInvStep ==
  ASSUME PaneTypeOK, JobsInv, PaneNext
  PROVE  JobsInv'
<1> USE PaneAssumption
<1>1. ASSUME NEW j \in Jobs, Request(j) \/ Lock(j) \/ Sending(j), NEW i \in Jobs
      PROVE  JobInv(i)'
  <2>1. JobInv(i)
    BY DEF JobsInv
  <2>2. CASE i = j
    BY <1>1, <2>1, <2>2, OwnKept
  <2>3. CASE i # j
    <3>1. UNCHANGED alive /\ \A t \in Services : conn'[t] = "exact" => conn[t] = "exact"
      BY <1>1, JobStep
    <3>2. /\ jobs'[i] = jobs[i]
          /\ \/ UNCHANGED paneVars
             \/ Submitted(ServiceOf[j])
             \/ Typed(ServiceOf[j], j) /\ UNCHANGED <<entered, erased>>
      BY <1>1, <2>3, JobTouches
    <3>3. ServiceOf[j] \in Services /\ j \in (Jobs \cup Viewers) \ {i}
      BY <2>3
    <3> QED BY <2>1, <3>1, <3>2, <3>3, OthersKept
  <2> QED BY <2>2, <2>3
<1>2. ASSUME NEW v \in Viewers, View(v), NEW i \in Jobs
      PROVE  JobInv(i)'
  <2>1. JobInv(i)
    BY DEF JobsInv
  <2>2. /\ UNCHANGED <<alive, jobs>>
        /\ \A t \in Services : conn'[t] = "exact" => conn[t] = "exact"
        /\ \/ UNCHANGED paneVars \/ Submitted(Adapter)
           \/ Typed(Adapter, v) /\ UNCHANGED <<entered, erased>>
           \/ Deleted
    BY <1>2, ViewStep, DeletedFacts DEF PaneTypeOK
  <2>3. v \in (Jobs \cup Viewers) \ {i}
    OBVIOUS
  <2> QED BY <2>1, <2>2, <2>3, OthersKept
<1>3. ASSUME (\E s \in Services : CloseConnection(s)) \/ SessionEnds, NEW i \in Jobs
      PROVE  JobInv(i)'
  <2>1. JobInv(i)
    BY DEF JobsInv
  <2>2. /\ UNCHANGED paneVars /\ jobs'[i] = jobs[i] /\ (alive' => alive)
        /\ \A t \in Services : conn'[t] = "exact" => conn[t] = "exact"
    BY <1>3 DEF CloseConnection, SessionEnds, PaneTypeOK, connVars
  <2> QED BY <2>1, <2>2, OthersKept
<1> QED BY <1>1, <1>2, <1>3 DEF PaneNext, JobsInv

----------------------------------------------------------------------------
(* Prompts do not mix. *)

\* A text with one more item at its end.
LEMMA UnmixedGrows ==
  ASSUME NEW S, NEW q \in Seq(S), NEW r \in Seq(S), NEW item,
         Len(r) = Len(q) + 1, r[Len(q) + 1] = item, \A k \in 1..Len(q) : r[k] = q[k],
         Unmixed(q),
         item \in Prompts =>
           \A k \in DOMAIN q : q[k] \in Prompts \ {item} /\ ServiceOf[q[k]] = ServiceOf[item]
                                 => jobs[q[k]].outcome = "failed"
  PROVE  Unmixed(r)
<1>1. DOMAIN r = 1..Len(q) + 1 /\ DOMAIN q = 1..Len(q) /\ Len(q) \in Nat
  OBVIOUS
<1>2. ASSUME NEW i \in DOMAIN r, NEW k \in DOMAIN r,
             i < k, r[i] \in Prompts, r[k] \in Prompts \ {r[i]}, ServiceOf[r[i]] = ServiceOf[r[k]]
      PROVE  jobs[r[i]].outcome = "failed"
  <2>1. i \in DOMAIN q /\ r[i] = q[i]
    BY <1>1, <1>2
  <2>2. CASE k \in DOMAIN q
    BY <1>2, <2>1, <2>2 DEF Unmixed
  <2>3. CASE k = Len(q) + 1
    BY <1>2, <2>1, <2>3
  <2> QED BY <1>1, <2>2, <2>3
<1> QED BY <1>2 DEF Unmixed

\* Requests that have failed stay failed.
LEMMA UnmixedStays ==
  ASSUME NEW text, Unmixed(text),
         \A i \in Jobs : jobs[i].outcome = "failed" => jobs'[i].outcome = "failed"
  PROVE  Unmixed(text)'
  BY DEF Unmixed

LEMMA MixStep ==
  ASSUME PaneTypeOK, JobsInv, PromptsDontMix, PaneNext
  PROVE  PromptsDontMix'
<1> USE PaneAssumption
<1> DEFINE Items == Jobs \cup Viewers
<1>0. box \in Seq(Items) /\ entered \in Seq(Seq(Items)) /\ alive \in BOOLEAN
  BY DEF PaneTypeOK
<1> HIDE DEF Items
<1>a. ASSUME \A i \in Jobs : jobs[i].outcome = "failed" => jobs'[i].outcome = "failed",
             UNCHANGED paneVars
      PROVE  PromptsDontMix'
  BY <1>a, UnmixedStays DEF PromptsDontMix, paneVars, Unmixed
<1>b. ASSUME \A i \in Jobs : jobs[i].outcome = "failed" => jobs'[i].outcome = "failed",
             NEW s \in Services, Submitted(s)
      PROVE  PromptsDontMix'
  <2>1. CASE UNCHANGED paneVars
    BY <1>a, <1>b, <2>1
  <2>2. CASE /\ Does(s) /\ box' = <<>>
             /\ Len(entered') = Len(entered) + 1 /\ entered'[Len(entered) + 1] = box
             /\ \A n \in 1..Len(entered) : entered'[n] = entered[n]
    <3>1. entered' \in Seq(Seq(Items))
      BY <1>0, <1>b, SubmittedFacts
    <3>2. \A n \in DOMAIN entered' : n \in DOMAIN entered \/ n = Len(entered) + 1
      BY <1>0, <2>2, <3>1
    <3>7. DOMAIN entered = 1..Len(entered)
      BY <1>0
    <3>3. \A n \in DOMAIN entered : entered'[n] = entered[n]
      BY <2>2, <3>7
    <3>4. ASSUME NEW text, Unmixed(text)
          PROVE  Unmixed(text)'
      BY <1>b, <3>4, UnmixedStays
    <3>5. ASSUME NEW n \in DOMAIN entered'
          PROVE  Unmixed(entered[n])' 
      <4>1. Unmixed(entered'[n])
        BY <2>2, <3>2, <3>3 DEF PromptsDontMix
      <4> QED BY <4>1, <3>4 DEF Unmixed
    <3>6. Unmixed(box)'
      BY <2>2 DEF Unmixed
    <3> QED BY <3>5, <3>6 DEF PromptsDontMix
  <2> QED BY <1>0, <1>b, <2>1, <2>2, SubmittedFacts
<1>c. ASSUME \A i \in Jobs : jobs[i].outcome = "failed" => jobs'[i].outcome = "failed",
             NEW s \in Services, NEW item \in Items, Typed(s, item), UNCHANGED <<entered, erased>>,
             item \in Prompts /\ Does(s) =>
               \A k \in DOMAIN box : box[k] \in Prompts \ {item} /\ ServiceOf[box[k]] = ServiceOf[item]
                                       => jobs[box[k]].outcome = "failed"
      PROVE  PromptsDontMix'
  <2>1. CASE Does(s)
    <3>1. /\ box' \in Seq(Items)
          /\ Len(box') = Len(box) + 1 /\ box'[Len(box) + 1] = item
          /\ \A k \in 1..Len(box) : box'[k] = box[k]
      BY <1>0, <1>c, <2>1, TypedFacts
    <3>2. Unmixed(box')
      <4>1. Unmixed(box)
        BY DEF PromptsDontMix
      <4>2. item \in Prompts =>
              \A k \in DOMAIN box : box[k] \in Prompts \ {item} /\ ServiceOf[box[k]] = ServiceOf[item]
                                      => jobs[box[k]].outcome = "failed"
        BY <1>c, <2>1
      <4> HIDE DEF Unmixed
      <4> QED BY <1>0, <3>1, <4>1, <4>2, UnmixedGrows
    <3>3. Unmixed(box)'
      BY <1>c, <3>2 DEF Unmixed
    <3>4. \A n \in DOMAIN entered' : Unmixed(entered[n])'
      BY <1>c DEF PromptsDontMix, Unmixed
    <3> QED BY <3>3, <3>4 DEF PromptsDontMix
  <2>2. CASE ~Does(s)
    BY <1>a, <1>c, <2>2 DEF Typed, paneVars
  <2> QED BY <2>1, <2>2
<1>d. ASSUME \A i \in Jobs : jobs[i].outcome = "failed" => jobs'[i].outcome = "failed", Deleted
      PROVE  PromptsDontMix'
  <2>1. Unmixed(box) /\ \A n \in DOMAIN entered : Unmixed(entered[n])
    BY DEF PromptsDontMix
  <2>2. Unmixed(box')
    BY <1>d, <2>1 DEF Unmixed, Deleted
  <2>3. Unmixed(box)'
    BY <1>d, <2>2 DEF Unmixed
  <2>4. \A n \in DOMAIN entered' : Unmixed(entered[n])'
    BY <1>d, <2>1 DEF Unmixed, Deleted
  <2> QED BY <2>3, <2>4 DEF PromptsDontMix
<1>1. ASSUME NEW j \in Jobs, Request(j) \/ Lock(j) \/ Sending(j)
      PROVE  PromptsDontMix'
  <2>1. /\ jobs[j].pc # "answered"
        /\ \A i \in Jobs \ {j} : jobs'[i] = jobs[i]
        /\ \/ UNCHANGED paneVars
           \/ Submitted(ServiceOf[j])
           \/ /\ Typed(ServiceOf[j], j) /\ UNCHANGED <<entered, erased>>
              /\ jobs[j].pc \in {"text", "paste"}
    BY <1>1, JobTouches
  <2>2. \A i \in Jobs : jobs[i].outcome = "failed" => jobs'[i].outcome = "failed"
    BY <2>1 DEF JobsInv, JobInv
  <2>3. ASSUME jobs[j].pc \in {"text", "paste"}, j \in Prompts, Does(ServiceOf[j]),
               NEW k \in DOMAIN box, box[k] \in Prompts \ {j}, ServiceOf[box[k]] = ServiceOf[j]
        PROVE  jobs[box[k]].outcome = "failed"
    <3> DEFINE i == box[k]
    <3>1. i \in Jobs /\ i # j /\ In(i, box)
      BY <2>3 DEF In
    <3>2. JobInv(i)
      BY <3>1 DEF JobsInv
    <3>3. Sends(j) => ~Sends(i)
      BY <2>3, <3>1 DEF PaneTypeOK
    <3> HIDE DEF i
    <3>4. jobs[i].pc = "answered"
      BY <2>3, <3>1, <3>2, <3>3 DEF Sends, JobInv
    <3>5. jobs[i].outcome \in {"ok", "failed"}
      BY <3>1, <3>2, <3>4 DEF PaneTypeOK, Job, JobInv
    <3>6. i \in Prompts /\ alive
      BY <2>3 DEF i, Does
    <3> QED BY <3>1, <3>2, <3>5, <3>6 DEF JobInv, i
  <2>4. ServiceOf[j] \in Services /\ j \in Items
    BY DEF Items
  <2> QED BY <1>a, <1>b, <1>c, <2>1, <2>2, <2>3, <2>4
<1>2. ASSUME NEW v \in Viewers, View(v)
      PROVE  PromptsDontMix'
  <2>1. /\ UNCHANGED jobs
        /\ \/ UNCHANGED paneVars \/ Submitted(Adapter)
           \/ Typed(Adapter, v) /\ UNCHANGED <<entered, erased>>
           \/ Deleted
    BY <1>0, <1>2, ViewStep, DeletedFacts DEF PaneTypeOK, Items
  <2>2. v \in Items /\ v \notin Prompts
    BY DEF Items
  <2> QED BY <1>a, <1>b, <1>c, <1>d, <2>1, <2>2
<1>3. CASE (\E s \in Services : CloseConnection(s)) \/ SessionEnds
  BY <1>3, <1>a DEF CloseConnection, SessionEnds
<1> QED BY <1>1, <1>2, <1>3 DEF PaneNext
----------------------------------------------------------------------------
(* The height of the window. *)

\* Unless something went wrong, one redraw at most is under way, and the height it
\* has read is the one last asked for.
RedrawInv ==
  ~disturbed =>
    /\ \A v, w \in InRedraw : v = w
    /\ \A v \in InRedraw :
         /\ viewers[v].height = wanted
         /\ viewers[v].pc = "shrink" => height = wanted
    /\ InRedraw = {} => height = wanted

LEMMA RedrawStep ==
  ASSUME PaneTypeOK, RedrawInv, NEW v \in Viewers, View(v)
  PROVE  RedrawInv'
<1> USE PaneAssumption
<1>0. viewers \in [Viewers -> Viewer] /\ disturbed \in BOOLEAN
  BY DEF PaneTypeOK
<1>b. AtRest \in Viewer /\ AtRest.pc = "idle"
  BY RestIsViewer DEF AtRest
\* A viewer that is in no redraw before or after.
<1>c. ASSUME NEW r \in Viewer, Becomes(v, r), r.pc \notin {"shrink", "restore"},
             v \notin InRedraw, UNCHANGED windowVars
      PROVE  RedrawInv'
  <2>1. viewers'[v] = r /\ \A w \in Viewers \ {v} : viewers'[w] = viewers[w]
    BY <1>0, <1>c, BecomesFacts
  <2>2. InRedraw' = InRedraw
    BY <1>c, <2>1 DEF InRedraw
  <2>3. \A w \in InRedraw : viewers'[w] = viewers[w]
    BY <1>c, <2>1 DEF InRedraw
  <2> QED BY <1>c, <2>2, <2>3 DEF RedrawInv, windowVars
\* One that leaves its redraw, the only one, with the height as it was asked for.
<1>d. ASSUME Becomes(v, AtRest), v \in InRedraw, ~disturbed' => ~disturbed /\ height' = wanted,
             UNCHANGED wanted
      PROVE  RedrawInv'
  <2>1. viewers'[v] = AtRest /\ \A w \in Viewers \ {v} : viewers'[w] = viewers[w]
    BY <1>0, <1>b, <1>d, BecomesFacts
  <2>2. InRedraw' = InRedraw \ {v}
    BY <1>b, <2>1 DEF InRedraw
  <2> QED BY <1>d, <2>2 DEF RedrawInv
<1>1. CASE PressKey(v)
  BY <1>1 DEF PressKey, windowVars, RedrawInv, InRedraw
<1>2. CASE TypeKeys(v)
  <2> DEFINE r == [pc |-> "type", left |-> Chunks, height |-> 0]
  <2>1. r \in Viewer /\ r.pc = "type"
    BY DEF Viewer
  <2>2. Becomes(v, r) /\ UNCHANGED windowVars /\ v \notin InRedraw
    BY <1>2 DEF TypeKeys, Asks, InRedraw
  <2> HIDE DEF r
  <2> QED BY <1>c, <2>1, <2>2
<1>3. CASE TypeChunk(v)
  <2>1. viewers[v].left > 1 => /\ [viewers[v] EXCEPT !.left = @ - 1] \in Viewer
                               /\ [viewers[v] EXCEPT !.left = @ - 1].pc = "type"
    BY <1>0, <1>3 DEF TypeChunk, Viewer
  <2>2. UNCHANGED windowVars /\ \E ok \in BOOLEAN :
          Becomes(v, IF ok /\ viewers[v].left > 1
                     THEN [viewers[v] EXCEPT !.left = @ - 1] ELSE AtRest)
    BY <1>3 DEF TypeChunk
  <2>3. v \notin InRedraw
    BY <1>3 DEF TypeChunk, InRedraw
  <2> QED BY <1>b, <1>c, <2>1, <2>2, <2>3
<1>4. ASSUME NEW h \in Heights, Resize(v, h)
      PROVE  RedrawInv'
  BY <1>4 DEF Resize, RedrawInv, InRedraw
<1>5. CASE ReadSize(v)
  <2>1. PICK ok \in BOOLEAN, h \in {height} \cup (IF conn[Adapter] = "late" THEN Heights ELSE {}) :
          Becomes(v, IF ok /\ h > 1 THEN [pc |-> "shrink", left |-> 0, height |-> h] ELSE AtRest)
    BY <1>5 DEF ReadSize
  <2>2. /\ UNCHANGED <<height, wanted>> /\ v \notin InRedraw
        /\ disturbed' = (disturbed \/ InRedraw # {} \/ conn[Adapter] = "late")
    BY <1>5 DEF ReadSize, Asks, InRedraw
  <2>3. SUFFICES ASSUME ~disturbed' PROVE RedrawInv'
    BY DEF RedrawInv
  <2>4. ~disturbed /\ InRedraw = {} /\ h = height /\ height = wanted
    BY <2>1, <2>2, <2>3 DEF RedrawInv
  <2>5. \A w \in Viewers : viewers[w].pc \notin {"shrink", "restore"}
    BY <2>4 DEF InRedraw
  <2>6. CASE ok /\ h > 1
    <3> DEFINE r == [pc |-> "shrink", left |-> 0, height |-> h]
    <3>1. r \in Viewer /\ r.pc = "shrink" /\ r.height = wanted
      BY <2>4 DEF Viewer, PaneTypeOK
    <3> HIDE DEF r
    <3>2. viewers'[v] = r /\ \A w \in Viewers \ {v} : viewers'[w] = viewers[w]
      BY <1>0, <2>1, <2>6, <3>1, BecomesFacts DEF r
    <3>3. InRedraw' = {v}
      BY <2>5, <3>1, <3>2 DEF InRedraw
    <3> QED BY <2>2, <2>4, <3>1, <3>2, <3>3 DEF RedrawInv
  <2>7. CASE ~(ok /\ h > 1)
    <3>1. viewers'[v] = AtRest /\ \A w \in Viewers \ {v} : viewers'[w] = viewers[w]
      BY <1>0, <1>b, <2>1, <2>7, BecomesFacts
    <3>2. InRedraw' = {}
      BY <1>b, <2>5, <3>1 DEF InRedraw
    <3> QED BY <2>2, <2>4, <3>2 DEF RedrawInv
  <2> QED BY <2>6, <2>7
<1>6. CASE Shrink(v)
  <2>1. PICK ok \in BOOLEAN :
          /\ Becomes(v, IF ok THEN [viewers[v] EXCEPT !.pc = "restore"] ELSE AtRest)
          /\ disturbed' = (disturbed \/ (~ok /\ Does(Adapter)))
    BY <1>6 DEF Shrink
  <2>2. /\ v \in InRedraw /\ viewers[v].pc = "shrink" /\ UNCHANGED wanted
        /\ ~Does(Adapter) => height' = height
    BY <1>6 DEF Shrink, InRedraw, Resized
  <2>3. CASE ok
    <3> DEFINE r == [viewers[v] EXCEPT !.pc = "restore"]
    <3>1. r \in Viewer /\ r.pc = "restore" /\ r.height = viewers[v].height
      BY <1>0 DEF Viewer
    <3> HIDE DEF r
    <3>2. viewers'[v] = r /\ \A w \in Viewers \ {v} : viewers'[w] = viewers[w]
      BY <1>0, <2>1, <2>3, <3>1, BecomesFacts DEF r
    <3>3. InRedraw' = InRedraw
      BY <2>2, <3>1, <3>2 DEF InRedraw
    <3> QED BY <2>1, <2>2, <3>1, <3>2, <3>3 DEF RedrawInv
  <2>4. CASE ~ok
    <3>1. ~disturbed' => ~disturbed /\ height' = wanted
      BY <2>1, <2>2, <2>4 DEF RedrawInv
    <3> QED BY <1>d, <2>1, <2>2, <2>4, <3>1
  <2> QED BY <2>3, <2>4
<1>7. CASE Restore(v)
  <2>1. /\ v \in InRedraw /\ Becomes(v, AtRest) /\ UNCHANGED wanted
        /\ disturbed' = (disturbed \/ ~Does(Adapter))
        /\ Does(Adapter) => height' = viewers[v].height
    BY <1>7 DEF Restore, InRedraw, Resized
  <2>2. ~disturbed' => ~disturbed /\ height' = wanted
    BY <2>1 DEF RedrawInv
  <2> QED BY <1>d, <2>1, <2>2
<1> QED BY <1>1, <1>2, <1>3, <1>4, <1>5, <1>6, <1>7 DEF View

----------------------------------------------------------------------------
(* The inductive invariant, and what follows from it. *)

PaneInv == PaneTypeOK /\ RedrawOK /\ JobsInv /\ PromptsDontMix /\ RedrawInv

LEMMA InvInit == Init => PaneInv
<1> SUFFICES ASSUME Init PROVE PaneInv
  OBVIOUS
<1>1. PaneTypeOK
  BY TypeInit
<1>2. InRedraw = {}
  BY DEF Init, InRedraw, AtRest
<1>3. ASSUME NEW i \in Jobs
      PROVE  JobInv(i)
  <2>1. ~In(i, box) /\ ~Went(i) /\ i \notin erased /\ Once(i)
    BY DEF Init, In, Went, Once, SubmittedAtMostOnce
  <2> QED BY <2>1 DEF Init, JobInv, PromptPcs, UploadPcs
<1>4. PromptsDontMix
  BY DEF Init, PromptsDontMix, Unmixed
<1> QED BY <1>1, <1>2, <1>3, <1>4 DEF PaneInv, RedrawOK, JobsInv, RedrawInv, Init

LEMMA InvStep == PaneInv /\ [PaneNext]_vars => PaneInv'
<1>1. ASSUME PaneInv, PaneNext
      PROVE  PaneInv'
  <2>1. PaneTypeOK' /\ RedrawOK'
    BY <1>1, TypeStep DEF PaneInv
  <2>2. JobsInv'
    BY <1>1, JobsInvStep DEF PaneInv
  <2>3. PromptsDontMix'
    BY <1>1, MixStep DEF PaneInv
  <2>4. RedrawInv'
    <3>1. ASSUME NEW v \in Viewers, View(v)
          PROVE  RedrawInv'
      BY <1>1, <3>1, RedrawStep DEF PaneInv
    <3>2. ASSUME NEW j \in Jobs, Request(j) \/ Lock(j) \/ Sending(j)
          PROVE  UNCHANGED <<viewers, windowVars>>
      BY <1>1, <3>2, JobStep DEF PaneInv
    <3>3. ASSUME (\E s \in Services : CloseConnection(s)) \/ SessionEnds
          PROVE  UNCHANGED <<viewers, windowVars>>
      BY <3>3 DEF CloseConnection, SessionEnds, viewerVars
    <3>4. ASSUME UNCHANGED <<viewers, windowVars>>
          PROVE  RedrawInv'
      BY <1>1, <3>4 DEF PaneInv, RedrawInv, InRedraw, windowVars
    <3> QED BY <1>1, <3>1, <3>2, <3>3, <3>4 DEF PaneNext
  <2> QED BY <2>1, <2>2, <2>3, <2>4 DEF PaneInv
<1>2. ASSUME PaneInv, UNCHANGED vars
      PROVE  PaneInv'
  <2> USE <1>2 DEF PaneInv, vars, connVars, paneVars, viewerVars, windowVars
  <2>1. PaneTypeOK'
    BY DEF PaneTypeOK, Sends
  <2>2. RedrawOK' /\ RedrawInv'
    BY DEF RedrawOK, RedrawInv, InRedraw
  <2>3. JobsInv'
    BY DEF JobsInv, JobInv, In, Went, Once, SubmittedAtMostOnce
  <2>4. PromptsDontMix'
    BY DEF PromptsDontMix, Unmixed
  <2> QED BY <2>1, <2>2, <2>3, <2>4
<1> QED BY <1>1, <1>2

\* Everything that is needed to know of a request or a redraw under way.
THEOREM PaneInvariant == PaneSpec => []PaneInv
  BY InvInit, InvStep, PTL DEF PaneSpec

\* Whoever sends holds its service's lock, alone, and every variable has its type:
\* prompt.go:43 "The caller must hold the per-agent lock".
THEOREM PaneTypeCorrect == PaneSpec => []PaneTypeOK
<1>1. PaneInv => PaneTypeOK
  BY DEF PaneInv
<1> QED BY <1>1, PaneInvariant, PTL

\* README.md:318 "per-agent mutex to prevent interleaving", for any number of
\* requests, services and commands that fail at any point.
THEOREM PromptsNeverMix == PaneSpec => []PromptsDontMix
<1>1. PaneInv => PromptsDontMix
  BY DEF PaneInv
<1> QED BY <1>1, PaneInvariant, PTL

\* A prompt whose client is told "ok" has been submitted, unless a viewer deleted it
\* meanwhile, and no prompt is twice, whichever of its commands fail and are tried again.
THEOREM OkIsTrue == PaneSpec => []OkIsEntered
<1>1. PaneInv => OkIsEntered
  BY DEF PaneInv, JobsInv, JobInv, OkIsEntered, Once, Went
<1> QED BY <1>1, PaneInvariant, PTL

\* A redraw that nothing interfered with leaves the height last asked for.
THEOREM WindowIsRestored == PaneSpec => []WindowRestored
<1>1. PaneInv => WindowRestored
  BY DEF PaneInv, RedrawInv, WindowRestored
<1> QED BY <1>1, PaneInvariant, PTL
=============================================================================
