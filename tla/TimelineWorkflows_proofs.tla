---------------------- MODULE TimelineWorkflows_proofs ----------------------
(***************************************************************************)
(* That a workflow changes the project once per step, that its receipt is  *)
(* never ahead of the project, and that what is recorded as applied is     *)
(* there: for every number of servers, timeouts, deaths, handlers that     *)
(* fail before or after their change, and edits.  The invariant counts,    *)
(* for every step, what the bridge has a receipt of, against the parts on  *)
(* the timeline.                                                           *)
(***************************************************************************)
EXTENDS TimelineWorkflows, TLAPS

\* The bridge has a receipt for the step: it will not carry it out again.
Recorded(i) == <<i, None>> \in replies

\* The step adds a part to the timeline of the workflow.
Adds(i) == i \in 1..Last /\ K.steps[i] \notin Makes
PartOf(i) == K.steps[i]

\* What a server or the receipt file has results of is recorded by the bridge.
Backed(r) ==
    /\ r \in Receipts /\ r.done <= Last
    /\ \A i \in 1..r.done : Recorded(i)

Working == {"step", "await", "verify", "record"}

ServerInv(p) ==
    /\ held[p] # None => Backed(held[p]) /\ held[p].status = "in_progress"
    /\ pc[p] \in Working => held[p] # None
    /\ pc[p] = "await" => held[p].done < Last
    /\ pc[p] \in {"verify", "record"} => held[p].done = Last
    /\ answers[p] = "ok" => pc[p] = "await" /\ Recorded(held[p].done + 1)

\* A command has the key of its step; whoever waits for it waits for that step.
CommandInv(c) ==
    /\ c \in [key : (1..5) \X {None}, step : 1..5, by : Processes \cup {None}]
    /\ c.key = <<c.step, None>> /\ c.step \in 1..Last
    /\ c.by # None => /\ pc[c.by] = "await" /\ held[c.by].done + 1 = c.step
                      /\ answers[c.by] = "none"

Labels == {"idle", "first", "lookup", "check", "begin", "step", "await", "verify", "record"}

ReceiptInv == receipt # None => Backed(receipt) /\ (Applied(receipt) => receipt.done = Last)

ControlInv ==
    /\ goal \in DOMAIN Kinds
    /\ pc \in [Processes -> Labels]
    /\ held \in [Processes -> Receipts \cup {None}]
    /\ answers \in [Processes -> {"none", "ok", "error"}]
    /\ \A p \in Processes : ServerInv(p)
    /\ \A c \in commands : CommandInv(c)
    /\ ReceiptInv

\* Only the parts of the workflow's own steps are on its timeline, each at most
\* once more than changes left no receipt.
CountInv ==
    /\ timelines \in [{"source", "target"} -> [Parts -> Nat] \cup {None}]
    /\ timelines["source"] # None
    /\ K.onto = "source" => timelines["target"] = None
    /\ \A t \in {"source", "target"} : timelines[t] # None =>
          /\ timelines[t]["edit"] <= 1
          /\ \A part \in Parts \ {"edit"} :
                t # K.onto \/ part \notin Elements(K.steps) => timelines[t][part] = 0
    /\ timelines[K.onto] # None => \A i \in 1..Last : Adds(i) =>
          timelines[K.onto][PartOf(i)] <=
              (IF lost THEN faults ELSE 0) + (IF Recorded(i) THEN 1 ELSE 0)

\* A step that was carried out is on the timeline until the user takes it away.
ThereInv ==
    /\ performed \subseteq 1..Last
    /\ replies \subseteq (1..Last) \X {None}
    /\ \A i \in 1..Last : Recorded(i) => i \in performed
    /\ edits = 0 => \A i \in performed : Adds(i) =>
          timelines[K.onto] # None /\ timelines[K.onto][PartOf(i)] > 0

\* A new sequence that was read back has every planned item once.
Verified == Applied(receipt) \/ \E p \in Processes : pc[p] = "record"
SequenceInv ==
    goal = "SequenceApply" /\ edits = 0 /\ Verified =>
        \A i \in 3..4 : Recorded(i) /\ timelines["target"][PartOf(i)] = 1

BoundInv == faults \in 0..MaxFaults /\ edits \in 0..MaxEdits /\ lost \in BOOLEAN

WorkflowInv == ControlInv /\ CountInv /\ ThereInv /\ SequenceInv /\ BoundInv

-----------------------------------------------------------------------------
(* The table of kinds *)

\* A workflow has one to five steps, all different; the first may make the target,
\* and then the workflow is on the target; none is an edit.
WellFormed(k) ==
    /\ Len(k.steps) \in 1..5 /\ DOMAIN k.steps = 1..Len(k.steps)
    /\ \A i, j \in 1..Len(k.steps) : k.steps[i] = k.steps[j] => i = j
    /\ \A i \in 1..Len(k.steps) : k.steps[i] # "edit"
    /\ \A i \in 1..Len(k.steps) : k.steps[i] \in Makes => k.onto = "target"
    /\ k.onto \in {"source", "target"}

LEMMA Table == \A k \in DOMAIN Kinds : WellFormed(Kinds[k])
<1> DEFINE all == {MediaImport, SequenceApply, SequenceRender, Broll, Animation, Color,
                   Compaction, Finalization, SynchronizedPair, SynchronizedLink,
                   PictureInPicture, VisualTreatment, AudioIntegration, AudioExtraction,
                   RenderExecution, RoughCut, Subtitles, Recipe}
<1>1. WellFormed(MediaImport) /\ WellFormed(SequenceApply) /\ WellFormed(SequenceRender)
  BY DEF WellFormed, Makes, Workflow, MediaImport, SequenceApply, SequenceRender
<1>2. WellFormed(Broll) /\ WellFormed(Animation) /\ WellFormed(Color)
  BY DEF WellFormed, Makes, Workflow, Broll, Animation, Color
<1>3. WellFormed(Compaction) /\ WellFormed(Finalization) /\ WellFormed(SynchronizedPair)
  BY DEF WellFormed, Makes, Workflow, Compaction, Finalization, SynchronizedPair
<1>4. WellFormed(SynchronizedLink) /\ WellFormed(PictureInPicture)
      /\ WellFormed(VisualTreatment)
  BY DEF WellFormed, Makes, Workflow, SynchronizedLink, PictureInPicture, VisualTreatment
<1>5. WellFormed(AudioIntegration) /\ WellFormed(AudioExtraction)
      /\ WellFormed(RenderExecution)
  BY DEF WellFormed, Makes, Workflow, AudioIntegration, AudioExtraction, RenderExecution
<1>6. WellFormed(RoughCut) /\ WellFormed(Subtitles) /\ WellFormed(Recipe)
  BY DEF WellFormed, Makes, Workflow, RoughCut, Subtitles, Recipe
<1>7. \A k \in DOMAIN Kinds : Kinds[k] \in all
  BY DEF Kinds
<1> HIDE DEF all
<1>8. \A w \in all : WellFormed(w)
  BY <1>1, <1>2, <1>3, <1>4, <1>5, <1>6 DEF all
<1> QED
  BY <1>7, <1>8

\* The steps of the workflow at hand; what they add is a part of a timeline.
LEMMA Steps ==
  ASSUME goal \in DOMAIN Kinds
  PROVE  /\ Last \in 1..5 /\ DOMAIN K.steps = 1..Last
         /\ \A i, j \in 1..Last : PartOf(i) = PartOf(j) => i = j
         /\ \A i \in 1..Last : PartOf(i) # "edit"
         /\ \A i \in 1..Last : Adds(i) => PartOf(i) \in Parts \ {"edit"}
         /\ \A i \in 1..Last : PartOf(i) \in Makes => K.onto = "target"
         /\ K.onto \in {"source", "target"}
         /\ "edit" \in Parts /\ "edit" \notin Makes
<1>1. WellFormed(K)
  BY Table DEF K
<1>2. Last \in 1..5 /\ DOMAIN K.steps = 1..Last
  BY <1>1 DEF WellFormed, Last
<1>3. \A i \in 1..Last : Adds(i) => PartOf(i) \in Parts
  <2> SUFFICES ASSUME NEW i \in 1..Last, Adds(i) PROVE PartOf(i) \in Parts
    OBVIOUS
  <2>1. PartOf(i) \in Elements(Kinds[goal].steps) /\ PartOf(i) \notin Makes
    BY <1>2 DEF Elements, PartOf, Adds, K
  <2>2. Elements(Kinds[goal].steps) \in {Elements(Kinds[k].steps) : k \in DOMAIN Kinds}
    OBVIOUS
  <2>3. PartOf(i) \in UNION {Elements(Kinds[k].steps) : k \in DOMAIN Kinds}
    BY <2>1, <2>2
  <2> QED
    BY <2>1, <2>3 DEF Parts
<1>4. \A i \in 1..Last : PartOf(i) # "edit"
  BY <1>1 DEF WellFormed, Last, PartOf
<1>5. /\ \A i, j \in 1..Last : PartOf(i) = PartOf(j) => i = j
      /\ \A i \in 1..Last : PartOf(i) \in Makes => K.onto = "target"
      /\ K.onto \in {"source", "target"}
  BY <1>1 DEF WellFormed, Last, PartOf
<1> QED
  BY <1>2, <1>3, <1>4, <1>5 DEF Parts, Makes

LEMMA SequenceSteps ==
  ASSUME goal = "SequenceApply"
  PROVE  /\ Last = 4 /\ PartOf(3) = "video" /\ PartOf(4) = "audio" /\ K.exact
         /\ K.onto = "target" /\ Adds(3) /\ Adds(4)
         /\ \A i \in 1..Last : Adds(i) => i > 1
BY DEF K, Last, Kinds, SequenceApply, Workflow, PartOf, Adds, Makes

-----------------------------------------------------------------------------
(* What a step leaves alone *)

Kept == goal' = goal /\ K' = K /\ Last' = Last

LEMMA GoalKept == ASSUME goal' = goal PROVE Kept
BY DEF Kept, K, Last

\* The timeline of the workflow, once it is there, counts the parts of its steps.
LEMMA Counts ==
  ASSUME CountInv, goal \in DOMAIN Kinds
  PROVE  /\ timelines[K.onto] \in [Parts -> Nat] \cup {None}
         /\ timelines[K.onto] # None =>
               \A i \in 1..Last : Adds(i) => timelines[K.onto][PartOf(i)] \in Nat
BY Steps DEF CountInv

\* The project and the bridge's receipts are as they were; faults only add up.
LEMMA ProjectKept ==
  ASSUME CountInv, ThereInv, BoundInv, Kept, goal \in DOMAIN Kinds,
         UNCHANGED <<timelines, replies, edits, lost, performed>>,
         faults' \in Nat, faults' >= faults
  PROVE  CountInv' /\ ThereInv'
<1>1. CountInv'
  <2>1. timelines[K.onto] # None => \A i \in 1..Last : Adds(i) =>
            timelines[K.onto][PartOf(i)] <=
                (IF lost THEN faults' ELSE 0) + (IF Recorded(i) THEN 1 ELSE 0)
    BY Counts DEF CountInv, BoundInv
  <2> QED
    BY <2>1 DEF CountInv, Kept, Adds, PartOf, Recorded
<1>2. ThereInv'
  BY DEF ThereInv, Kept, Adds, PartOf, Recorded
<1> QED
  BY <1>1, <1>2

\* Nothing new is verified, so what was verified stays so.
LEMMA SequenceKept ==
  ASSUME SequenceInv, Kept, UNCHANGED <<timelines, replies, edits>>, Verified' => Verified
  PROVE  SequenceInv'
BY DEF SequenceInv, Kept, PartOf, Recorded

-----------------------------------------------------------------------------
(* The servers *)

\* Nothing but the server p moves.
Alone(p) ==
    /\ goal' = goal /\ UNCHANGED <<timelines, replies, edits, lost, performed>>
    /\ pc' \in [Processes -> Labels] /\ held' \in [Processes -> Receipts \cup {None}]
    /\ answers' \in [Processes -> {"none", "ok", "error"}]
    /\ \A q \in Processes \ {p} :
          pc'[q] = pc[q] /\ held'[q] = held[q] /\ answers'[q] = answers[q]

\* What is left to show of a server's step: its own part, the commands, the receipt.
LEMMA ServerMoves ==
  ASSUME WorkflowInv, NEW p \in Processes, Alone(p), ServerInv(p)',
         \A c \in commands' : CommandInv(c)', ReceiptInv', SequenceInv', BoundInv',
         faults' >= faults
  PROVE  WorkflowInv'
<1> USE DEF Alone
<1>1. Kept
  BY GoalKept
<1>2. CountInv' /\ ThereInv'
  BY <1>1, ProjectKept DEF WorkflowInv, BoundInv, ControlInv
<1>3. \A q \in Processes : ServerInv(q)'
  BY <1>1 DEF WorkflowInv, ControlInv, ServerInv, Backed, Recorded, Kept
<1> QED
  BY <1>1, <1>2, <1>3 DEF WorkflowInv, ControlInv, Kept

\* A server that does not wait touches no command.
LEMMA CommandsKept ==
  ASSUME WorkflowInv, NEW p \in Processes, Alone(p), UNCHANGED commands,
         \A c \in commands : c.by # p
  PROVE  \A c \in commands' : CommandInv(c)'
<1>1. Kept
  BY GoalKept DEF Alone
<1> QED
  BY <1>1 DEF WorkflowInv, ControlInv, CommandInv, Alone, Kept

LEMMA NotAwaited ==
  ASSUME WorkflowInv, NEW p \in Processes, pc[p] # "await" \/ answers[p] # "none"
  PROVE  \A c \in commands : c.by # p
BY WorkflowAssumption DEF WorkflowInv, ControlInv, CommandInv

\* The steps that only look: calls, lookups and checks.
LookStep(p) == Call(p) \/ CheckFirst(p) \/ Lookup(p) \/ Check(p)

LEMMA LookStepInv ==
  ASSUME WorkflowInv, NEW p \in Processes, LookStep(p) PROVE WorkflowInv'
<1> USE DEF LookStep, Call, CheckFirst, Lookup, Check, Leave, BridgeKept, bridge, history,
            Goto
<1>1. Alone(p)
  BY DEF Alone, WorkflowInv, ControlInv, Labels, ReceiptInv, Backed
<1>2. Kept
  BY <1>1, GoalKept DEF Alone
<1>3. pc[p] # "await" /\ pc[p] # "record" /\ pc'[p] \notin Working /\ UNCHANGED answers
  BY DEF WorkflowInv, ControlInv, Working
<1>4. ServerInv(p)'
  BY <1>2, <1>3 DEF WorkflowInv, ControlInv, ServerInv, ReceiptInv, Backed, Recorded,
     Kept, Working, Applied, Receipts
<1>5. \A c \in commands' : CommandInv(c)'
  BY <1>1, <1>3, NotAwaited, CommandsKept
<1>6. ReceiptInv'
  BY <1>2 DEF WorkflowInv, ControlInv, ReceiptInv, Backed, Recorded, Applied, Kept
<1>7. Verified' => Verified
  BY <1>1, <1>3 DEF Verified, Alone, Applied, Working
<1>8. SequenceInv' /\ BoundInv' /\ faults' >= faults
  BY <1>1, <1>2, <1>7, SequenceKept DEF WorkflowInv, BoundInv, Alone
<1> QED
  BY <1>1, <1>4, <1>5, <1>6, <1>8, ServerMoves

\* A receipt of no steps is backed by nothing.
LEMMA Fresh ==
  [status |-> "in_progress", done |-> 0] \in Receipts
  /\ [status |-> "in_progress", done |-> 0] # None
BY NoneAssumption DEF Receipts

LEMMA BeginInv ==
  ASSUME WorkflowInv, NEW p \in Processes, Begin(p) PROVE WorkflowInv'
<1> USE DEF Begin, BridgeKept, bridge, history, Goto
<1> DEFINE fresh == [status |-> "in_progress", done |-> 0]
<1>1. held'[p] = IF held[p] = None THEN fresh ELSE held[p]
  BY DEF WorkflowInv, ControlInv
<1>2. Alone(p)
  BY Fresh DEF Alone, WorkflowInv, ControlInv, Labels
<1>3. Kept
  BY <1>2, GoalKept DEF Alone
<1>4. held'[p] # None /\ Backed(held'[p]) /\ held'[p].status = "in_progress"
  BY <1>1, Fresh, Steps DEF WorkflowInv, ControlInv, ServerInv, Backed
<1>5. pc[p] = "begin" /\ pc'[p] = "step" /\ answers'[p] # "ok"
  BY DEF WorkflowInv, ControlInv, ServerInv
<1>6. ServerInv(p)'
  BY <1>3, <1>4, <1>5 DEF ServerInv, Backed, Recorded, Kept, Working
<1>7. \A c \in commands' : CommandInv(c)'
  BY <1>2, <1>5, NotAwaited, CommandsKept
<1>8. receipt' = held'[p] \/ receipt' = receipt
  OBVIOUS
<1>9. ReceiptInv'
  BY <1>3, <1>4, <1>8 DEF WorkflowInv, ControlInv, ReceiptInv, Backed, Recorded, Applied, Kept
<1>10. Verified' => Verified
  BY <1>2, <1>4, <1>5, <1>8 DEF Verified, Alone, Applied
<1>11. SequenceInv' /\ BoundInv' /\ faults' >= faults
  BY <1>2, <1>3, <1>10, SequenceKept DEF WorkflowInv, BoundInv, Alone
<1> QED
  BY <1>2, <1>6, <1>7, <1>9, <1>11, ServerMoves

LEMMA StepInv ==
  ASSUME WorkflowInv, NEW p \in Processes, Step(p) PROVE WorkflowInv'
<1> USE DEF Step, history, Goto
<1>1. Alone(p)
  BY DEF Alone, WorkflowInv, ControlInv, Labels
<1>2. Kept
  BY <1>1, GoalKept DEF Alone
<1>3. held[p] \in Receipts /\ held[p] # None /\ held[p].done \in 0..Last /\ Last \in 1..5
  BY Steps DEF WorkflowInv, ControlInv, ServerInv, Working, Backed, Receipts
<1>4. pc'[p] = IF held[p].done = Last THEN "verify" ELSE "await"
  BY DEF WorkflowInv, ControlInv
<1>5. answers'[p] # "ok" /\ (pc'[p] = "await" => answers'[p] = "none")
  BY <1>4 DEF WorkflowInv, ControlInv, ServerInv
<1>6. ServerInv(p)'
  BY <1>2, <1>3, <1>4, <1>5
     DEF WorkflowInv, ControlInv, ServerInv, Backed, Recorded, Kept, Working
<1>7. \A c \in commands : CommandInv(c)'
  <2>1. \A c \in commands : c.by # p
    BY NotAwaited
  <2> QED
    BY <1>1, <1>2, <2>1 DEF WorkflowInv, ControlInv, CommandInv, Alone, Kept
<1>8. \A c \in commands' : CommandInv(c)'
  <2> DEFINE i == held[p].done + 1
             new == [key |-> StepKey(p, i), step |-> i, by |-> p]
  <2>1. held[p].done # Last => CommandInv(new)'
    BY <1>2, <1>3, <1>4, <1>5, WorkflowAssumption DEF CommandInv, Kept, StepKey
  <2>2. \A c \in commands' : c \in commands \/ (c = new /\ held[p].done # Last)
    OBVIOUS
  <2> QED
    BY <1>7, <2>1, <2>2
<1>9. ReceiptInv'
  BY <1>2 DEF WorkflowInv, ControlInv, ReceiptInv, Backed, Recorded, Applied, Kept
<1>10. Verified' => Verified
  BY <1>1, <1>4 DEF Verified, Alone, Applied
<1>11. SequenceInv' /\ BoundInv' /\ faults' >= faults
  BY <1>1, <1>2, <1>10, SequenceKept DEF WorkflowInv, BoundInv, Alone
<1> QED
  BY <1>1, <1>6, <1>8, <1>9, <1>11, ServerMoves

\* The result of the step that was recorded, and only of that, joins the receipt.
LEMMA StepResultInv ==
  ASSUME WorkflowInv, NEW p \in Processes, StepResult(p) PROVE WorkflowInv'
<1> USE DEF StepResult, history, Goto
<1>1. /\ held[p] \in Receipts /\ held[p] # None /\ held[p].status = "in_progress"
      /\ held[p].done \in 0..(Last - 1) /\ Last \in 1..5
      /\ \A i \in 1..(held[p].done + 1) : Recorded(i)
  BY Steps DEF WorkflowInv, ControlInv, ServerInv, Working, Backed, Receipts
<1>2. held'[p] = [status |-> "in_progress", done |-> held[p].done + 1]
  BY <1>1 DEF WorkflowInv, ControlInv, StepDone, Receipts
<1>3. held'[p] \in Receipts /\ held'[p] # None
  BY <1>1, <1>2, NoneAssumption DEF Receipts
<1>4. Alone(p)
  BY <1>3 DEF Alone, WorkflowInv, ControlInv, Labels
<1>5. Kept
  BY <1>4, GoalKept DEF Alone
<1>6. Backed(held'[p])
  BY <1>1, <1>2, <1>3 DEF Backed
<1>7. pc'[p] = "step" /\ answers'[p] = "none"
  BY DEF WorkflowInv, ControlInv
<1>8. ServerInv(p)'
  BY <1>2, <1>3, <1>5, <1>6, <1>7 DEF ServerInv, Backed, Recorded, Kept
<1>9. \A c \in commands' : CommandInv(c)'
  BY <1>4, NotAwaited, CommandsKept
<1>10. receipt' = held'[p] \/ receipt' = receipt
  OBVIOUS
<1>11. ReceiptInv'
  BY <1>2, <1>5, <1>6, <1>10
     DEF WorkflowInv, ControlInv, ReceiptInv, Backed, Recorded, Applied, Kept
<1>12. Verified' => Verified
  BY <1>2, <1>4, <1>7, <1>10 DEF Verified, Alone, Applied
<1>13. SequenceInv' /\ BoundInv' /\ faults' >= faults
  BY <1>4, <1>5, <1>12, SequenceKept DEF WorkflowInv, BoundInv, Alone
<1> QED
  BY <1>4, <1>8, <1>9, <1>11, <1>13, ServerMoves

LEMMA StepFailsInv ==
  ASSUME WorkflowInv, NEW p \in Processes, StepFails(p) PROVE WorkflowInv'
<1> USE DEF StepFails, history, Goto, Leave
<1>1. Alone(p)
  BY DEF Alone, WorkflowInv, ControlInv, Labels
<1>2. Kept
  BY <1>1, GoalKept DEF Alone
<1>3. pc'[p] = "idle" /\ held'[p] = None /\ answers'[p] = "none"
  BY DEF WorkflowInv, ControlInv
<1>4. ServerInv(p)'
  BY <1>3 DEF ServerInv, Working
<1>5. \A c \in commands' : CommandInv(c)'
  BY <1>1, NotAwaited, CommandsKept
<1>6. ReceiptInv'
  BY <1>2 DEF WorkflowInv, ControlInv, ReceiptInv, Backed, Recorded, Applied, Kept
<1>7. Verified' => Verified
  BY <1>1, <1>3 DEF Verified, Alone, Applied
<1>8. SequenceInv' /\ BoundInv' /\ faults' >= faults
  BY <1>1, <1>2, <1>7, SequenceKept DEF WorkflowInv, BoundInv, Alone
<1> QED
  BY <1>1, <1>4, <1>5, <1>6, <1>8, ServerMoves

\* A sequence passes the readback with each planned item once; by then every step
\* of it is recorded, so no command adds another.
LEMMA VerifyInv ==
  ASSUME WorkflowInv, NEW p \in Processes, Verify(p) PROVE WorkflowInv'
<1> USE DEF Verify, Leave, BridgeKept, bridge, history, Goto
<1>1. Alone(p)
  BY DEF Alone, WorkflowInv, ControlInv, Labels
<1>2. Kept
  BY <1>1, GoalKept DEF Alone
<1>3. /\ ReadBack => pc'[p] = "record" /\ held'[p] = held[p]
      /\ ~ReadBack => pc'[p] = "idle" /\ held'[p] = None
      /\ pc[p] = "verify" /\ answers' = answers /\ answers[p] # "ok"
  BY DEF WorkflowInv, ControlInv, ServerInv
<1>4. ServerInv(p)'
  BY <1>2, <1>3 DEF WorkflowInv, ControlInv, ServerInv, Backed, Recorded, Kept, Working
<1>5. \A c \in commands' : CommandInv(c)'
  BY <1>1, <1>3, NotAwaited, CommandsKept
<1>6. ReceiptInv'
  BY <1>2 DEF WorkflowInv, ControlInv, ReceiptInv, Backed, Recorded, Applied, Kept
<1>7. goal = "SequenceApply" /\ ReadBack =>
          \A i \in 3..4 : Recorded(i) /\ timelines["target"][PartOf(i)] = 1
  <2> SUFFICES ASSUME goal = "SequenceApply", ReadBack
               PROVE  /\ Recorded(3) /\ timelines["target"]["video"] = 1
                      /\ Recorded(4) /\ timelines["target"]["audio"] = 1
    BY SequenceSteps
  <2>1. Recorded(3) /\ Recorded(4)
    BY <1>3, SequenceSteps
       DEF WorkflowInv, ControlInv, ServerInv, Working, Backed
  <2> QED
    BY <2>1, SequenceSteps DEF ReadBack, NothingElse
<1>8. ~ReadBack => (Verified' => Verified)
  BY <1>1, <1>3 DEF Verified, Alone, Applied
<1>9. SequenceInv'
  <2>1. CASE ~ReadBack
    BY <1>1, <1>2, <1>8, <2>1, SequenceKept DEF WorkflowInv, Alone
  <2>2. CASE ReadBack
    BY <1>1, <1>2, <1>7, <2>2 DEF SequenceInv, Kept, Alone, PartOf, Recorded
  <2> QED
    BY <2>1, <2>2
<1>10. BoundInv' /\ faults' >= faults
  BY DEF WorkflowInv, BoundInv
<1> QED
  BY <1>1, <1>4, <1>5, <1>6, <1>9, <1>10, ServerMoves

LEMMA RecordInv ==
  ASSUME WorkflowInv, NEW p \in Processes, Record(p) PROVE WorkflowInv'
<1> USE DEF Record, Leave, BridgeKept, bridge, history, Goto
<1>1. Alone(p)
  BY DEF Alone, WorkflowInv, ControlInv, Labels
<1>2. Kept
  BY <1>1, GoalKept DEF Alone
<1>3. /\ pc[p] = "record" /\ pc'[p] = "idle" /\ held'[p] = None
      /\ answers' = answers /\ answers[p] # "ok"
  BY DEF WorkflowInv, ControlInv, ServerInv
<1>4. ServerInv(p)'
  BY <1>3 DEF ServerInv, Working
<1>5. \A c \in commands' : CommandInv(c)'
  BY <1>1, <1>3, NotAwaited, CommandsKept
<1>6. held[p] \in Receipts /\ held[p].done = Last /\ Backed(held[p])
  BY <1>3 DEF WorkflowInv, ControlInv, ServerInv, Working, Backed
<1>7. receipt' \in Receipts /\ receipt'.done = Last
  BY <1>6 DEF Receipts
<1>8. ReceiptInv'
  BY <1>2, <1>6, <1>7 DEF ReceiptInv, Backed, Recorded, Applied, Kept
<1>9. Verified' => Verified
  BY <1>3 DEF Verified
<1>10. SequenceInv' /\ BoundInv' /\ faults' >= faults
  BY <1>1, <1>2, <1>9, SequenceKept DEF WorkflowInv, BoundInv, Alone
<1> QED
  BY <1>1, <1>4, <1>5, <1>8, <1>10, ServerMoves

LEMMA GiveUpInv ==
  ASSUME WorkflowInv, NEW p \in Processes, GiveUp(p) PROVE WorkflowInv'
<1> USE DEF GiveUp, Fault, Leave, Goto
<1>1. Alone(p)
  BY DEF Alone, WorkflowInv, ControlInv, Labels
<1>2. Kept
  BY <1>1, GoalKept DEF Alone
<1>3. pc'[p] = "idle" /\ held'[p] = None /\ answers'[p] = "none"
  BY DEF WorkflowInv, ControlInv
<1>4. ServerInv(p)'
  BY <1>3 DEF ServerInv, Working
<1>5. \A c \in commands' : CommandInv(c)'
  <2> SUFFICES ASSUME NEW c \in commands
               PROVE  CommandInv([c EXCEPT !.by = IF @ = p THEN None ELSE @])'
    OBVIOUS
  <2> QED
    BY <1>1, <1>2, WorkflowAssumption DEF WorkflowInv, ControlInv, CommandInv, Alone, Kept
<1>6. ReceiptInv'
  BY <1>2 DEF WorkflowInv, ControlInv, ReceiptInv, Backed, Recorded, Applied, Kept
<1>7. Verified' => Verified
  BY <1>1, <1>3 DEF Verified, Alone, Applied
<1>8. SequenceInv' /\ BoundInv' /\ faults' >= faults
  BY <1>1, <1>2, <1>7, SequenceKept, WorkflowAssumption DEF WorkflowInv, BoundInv, Alone
<1> QED
  BY <1>1, <1>4, <1>5, <1>6, <1>8, ServerMoves

-----------------------------------------------------------------------------
(* The bridge *)

\* An answer goes to the server that waits, and takes the command away; another
\* command of that server would be the same one.
LEMMA Answered ==
  ASSUME WorkflowInv, NEW c \in commands, NEW how \in {"ok", "error"}, Answer(c, how),
         UNCHANGED <<goal, receipt, servers>>, replies \subseteq replies',
         how = "ok" => c.key \in replies'
  PROVE  ControlInv'
<1> USE DEF Answer, servers
<1>1. Kept
  BY GoalKept
<1>2. CommandInv(c) /\ c.by \in Processes \cup {None} /\ None \notin Processes
  BY WorkflowAssumption DEF WorkflowInv, ControlInv, CommandInv
<1>3. answers' \in [Processes -> {"none", "ok", "error"}]
  BY <1>2 DEF WorkflowInv, ControlInv
<1>4. how = "ok" => Recorded(c.step)'
  BY <1>2 DEF CommandInv, Recorded
<1>5. ASSUME NEW q \in Processes PROVE ServerInv(q)'
  <2>1. CASE q = c.by
    <3>1. answers'[q] = how /\ pc[q] = "await" /\ held[q].done + 1 = c.step
      BY <1>2, <2>1 DEF WorkflowInv, ControlInv, CommandInv
    <3> QED
      BY <1>1, <1>4, <3>1 DEF WorkflowInv, ControlInv, ServerInv, Backed, Recorded, Kept
  <2>2. CASE q # c.by
    <3>1. answers'[q] = answers[q]
      BY <1>2, <2>2 DEF WorkflowInv, ControlInv
    <3> QED
      BY <1>1, <3>1 DEF WorkflowInv, ControlInv, ServerInv, Backed, Recorded, Kept
  <2> QED
    BY <2>1, <2>2
<1>6. ASSUME NEW d \in commands' PROVE CommandInv(d)'
  <2>1. d \in commands /\ d # c /\ CommandInv(d)
    BY DEF WorkflowInv, ControlInv
  <2>2. d.by # None => d.by # c.by
    <3> SUFFICES ASSUME d.by # None, d.by = c.by PROVE FALSE
      OBVIOUS
    <3>1. d.step = c.step /\ d.key = c.key
      BY <1>2, <2>1 DEF CommandInv, WorkflowInv, ControlInv
    <3> QED
      BY <1>2, <2>1, <3>1 DEF CommandInv
  <2>3. d.by # None => answers'[d.by] = answers[d.by]
    BY <1>2, <2>1, <2>2 DEF WorkflowInv, ControlInv, CommandInv
  <2> QED
    BY <1>1, <2>1, <2>3 DEF CommandInv, Kept
<1>7. ReceiptInv'
  BY <1>1 DEF WorkflowInv, ControlInv, ReceiptInv, Backed, Recorded, Applied, Kept
<1> QED
  BY <1>1, <1>3, <1>5, <1>6, <1>7 DEF WorkflowInv, ControlInv, Kept

\* What a step does to the timelines: one part more, or a new target without any.
LEMMA EffectOfStep ==
  ASSUME CountInv, goal \in DOMAIN Kinds, NEW i \in 1..Last, Possible(PartOf(i)),
         timelines' = Effect(PartOf(i))
  PROVE  /\ timelines' \in [{"source", "target"} -> [Parts -> Nat] \cup {None}]
         /\ timelines'[K.onto] # None
         /\ Adds(i) =>
               /\ timelines[K.onto] # None
               /\ \A t \in {"source", "target"} \ {K.onto} : timelines'[t] = timelines[t]
               /\ timelines'[K.onto] = [timelines[K.onto] EXCEPT ![PartOf(i)] = @ + 1]
         /\ ~Adds(i) =>
               /\ timelines["target"] = None /\ K.onto = "target"
               /\ timelines'["source"] = timelines["source"]
               /\ timelines'["target"]["edit"] <= 1
               /\ \A part \in Parts \ {"edit"} : timelines'["target"][part] = 0
<1> USE DEF Effect, Possible
<1>1. timelines \in [{"source", "target"} -> [Parts -> Nat] \cup {None}]
  BY DEF CountInv
<1>2. /\ K.onto \in {"source", "target"}
      /\ Adds(i) => PartOf(i) \in Parts /\ PartOf(i) \notin Makes
      /\ ~Adds(i) => PartOf(i) \in Makes /\ K.onto = "target"
      /\ "edit" \in Parts
  BY Steps DEF Adds, PartOf
<1>3. CASE Adds(i)
  <2>1. timelines[K.onto] \in [Parts -> Nat]
    BY <1>1, <1>2, <1>3
  <2>2. timelines' = [timelines EXCEPT ![K.onto][PartOf(i)] = @ + 1]
    BY <1>2, <1>3 DEF Makes
  <2>3. [timelines[K.onto] EXCEPT ![PartOf(i)] = @ + 1] \in [Parts -> Nat]
    <3>1. PartOf(i) \in Parts /\ timelines[K.onto][PartOf(i)] + 1 \in Nat
      BY <1>2, <1>3, <2>1
    <3> QED
      BY <2>1, <3>1
  <2>4. timelines'[K.onto] = [timelines[K.onto] EXCEPT ![PartOf(i)] = @ + 1]
    BY <1>1, <1>2, <2>2
  <2>5. \A t \in {"source", "target"} \ {K.onto} : timelines'[t] = timelines[t]
    BY <1>1, <2>2
  <2>6. timelines' \in [{"source", "target"} -> [Parts -> Nat] \cup {None}]
    BY <1>1, <1>2, <2>2, <2>3
  <2>7. timelines'[K.onto] # None
    BY <2>3, <2>4, NoneAssumption
  <2> QED
    BY <1>2, <1>3, <2>4, <2>5, <2>6, <2>7
<1>4. CASE ~Adds(i)
  <2>1. timelines["target"] = None /\ timelines["source"] \in [Parts -> Nat]
    BY <1>1, <1>2, <1>4 DEF CountInv
  <2>2. \/ timelines' = [timelines EXCEPT !["target"] = timelines["source"]]
        \/ timelines' = [timelines EXCEPT !["target"] = Empty]
    BY <1>2, <1>4 DEF Makes
  <2>3. Empty \in [Parts -> Nat] /\ \A part \in Parts : Empty[part] = 0
    BY DEF Empty
  <2>4. /\ timelines["source"]["edit"] <= 1
        /\ \A part \in Parts \ {"edit"} : timelines["source"][part] = 0
    BY <1>2, <1>4 DEF CountInv
  <2>5. timelines'["target"] = timelines["source"] \/ timelines'["target"] = Empty
    BY <1>1, <2>2
  <2>6. timelines'["source"] = timelines["source"]
        /\ timelines' \in [{"source", "target"} -> [Parts -> Nat] \cup {None}]
    BY <1>1, <2>1, <2>2, <2>3
  <2>7. timelines'["target"] \in [Parts -> Nat]
    BY <2>1, <2>3, <2>5
  <2>8. timelines'["target"] # None
    BY <2>7, NoneAssumption
  <2>9. /\ timelines'["target"]["edit"] <= 1
        /\ \A part \in Parts \ {"edit"} : timelines'["target"][part] = 0
    <3>1. CASE timelines'["target"] = timelines["source"]
      BY <2>4, <3>1
    <3>2. CASE timelines'["target"] = Empty
      BY <1>2, <2>3, <3>2
    <3> QED
      BY <2>5, <3>1, <3>2
  <2> QED
    BY <1>2, <1>4, <2>1, <2>6, <2>8, <2>9
<1> QED
  BY <1>3, <1>4

\* A step that is carried out is recorded, or its receipt is lost.
CarriesOut(c) ==
    /\ c.key \notin replies /\ Possible(K.steps[c.step]) /\ goal' = goal
    /\ timelines' = Effect(K.steps[c.step])
    /\ performed \subseteq performed' /\ performed' \subseteq performed \cup {c.step}
    /\ edits' = edits
    /\ \/ replies' = replies \cup {c.key} /\ c.step \in performed' /\ UNCHANGED <<lost, faults>>
       \/ replies' = replies /\ lost' = TRUE /\ faults' = faults + 1

LEMMA CarriedOut ==
  ASSUME WorkflowInv, NEW c \in commands, CarriesOut(c)
  PROVE  CountInv' /\ ThereInv' /\ (SequenceInv' \/ (Verified' /\ ~Verified))
<1> DEFINE i == c.step
<1> USE DEF CarriesOut
<1>1. Kept
  BY GoalKept
<1>2. /\ CommandInv(c) /\ i \in 1..Last /\ c.key = <<i, None>> /\ ~Recorded(i)
      /\ goal \in DOMAIN Kinds /\ CountInv /\ ThereInv /\ BoundInv /\ SequenceInv
  BY DEF WorkflowInv, ControlInv, CommandInv, Recorded
<1>3. Possible(PartOf(i)) /\ timelines' = Effect(PartOf(i))
  BY DEF PartOf
<1> HIDE DEF i
<1>4. /\ timelines' \in [{"source", "target"} -> [Parts -> Nat] \cup {None}]
      /\ timelines'[K.onto] # None
      /\ Adds(i) =>
            /\ timelines[K.onto] # None
            /\ \A t \in {"source", "target"} \ {K.onto} : timelines'[t] = timelines[t]
            /\ timelines'[K.onto] = [timelines[K.onto] EXCEPT ![PartOf(i)] = @ + 1]
      /\ ~Adds(i) =>
            /\ timelines["target"] = None /\ K.onto = "target"
            /\ timelines'["source"] = timelines["source"]
            /\ timelines'["target"]["edit"] <= 1
            /\ \A part \in Parts \ {"edit"} : timelines'["target"][part] = 0
  BY <1>2, <1>3, EffectOfStep
<1>5. /\ Last \in 1..5 /\ K.onto \in {"source", "target"} /\ "edit" \in Parts
      /\ \A j \in 1..Last : Adds(j) => PartOf(j) \in Parts \ {"edit"}
      /\ \A j, k \in 1..Last : PartOf(j) = PartOf(k) => j = k
      /\ \A j \in 1..Last : PartOf(j) \in Elements(K.steps)
  BY <1>2, Steps DEF Elements, PartOf
<1>6. Adds(i) => timelines[K.onto] \in [Parts -> Nat]
  BY <1>2, <1>4, <1>5 DEF CountInv
<1>7. Adds(i) => /\ timelines'[K.onto][PartOf(i)] = timelines[K.onto][PartOf(i)] + 1
                 /\ \A part \in Parts \ {PartOf(i)} :
                       timelines'[K.onto][part] = timelines[K.onto][part]
  BY <1>2, <1>4, <1>5, <1>6
<1>8. /\ Recorded(i)' \/ (~Recorded(i)' /\ lost' = TRUE /\ faults' = faults + 1)
      /\ \A j \in 1..Last : Recorded(j) => Recorded(j)'
      /\ \A j \in (1..Last) \ {i} : Recorded(j)' => Recorded(j)
      /\ lost => lost'
      /\ faults \in Nat /\ faults' \in Nat /\ faults' >= faults
  BY <1>2 DEF Recorded, BoundInv
<1>9. \A j \in 1..Last : Adds(j)' = Adds(j) /\ PartOf(j)' = PartOf(j)
  <2> SUFFICES ASSUME NEW j \in 1..Last
               PROVE  Adds(j)' = Adds(j) /\ PartOf(j)' = PartOf(j)
    OBVIOUS
  <2>1. K' = K /\ Last' = Last
    BY <1>1 DEF Kept
  <2> QED
    BY ONLY <2>1 DEF Adds, PartOf
<1>10. CountInv'
  <2>1. timelines'["source"] # None /\ (K.onto = "source" => timelines'["target"] = None)
    BY <1>2, <1>4, <1>5 DEF CountInv
  <2>2. ASSUME NEW t \in {"source", "target"}, timelines'[t] # None
        PROVE  /\ timelines'[t]["edit"] <= 1
               /\ \A part \in Parts \ {"edit"} :
                     t # K.onto \/ part \notin Elements(K.steps) => timelines'[t][part] = 0
    <3>1. CASE Adds(i) /\ t = K.onto
      <4>1. timelines[K.onto] # None /\ i \in 1..Last /\ PartOf(i) \in Parts \ {"edit"}
        BY <1>2, <1>4, <1>5, <3>1
      <4>2. timelines'[t]["edit"] <= 1
        BY <1>2, <1>5, <1>7, <3>1, <4>1 DEF CountInv
      <4>3. ASSUME NEW part \in Parts \ {"edit"}, part \notin Elements(K.steps)
            PROVE  timelines'[t][part] = 0
        <5>1. part # PartOf(i)
          BY <1>5, <3>1, <4>1, <4>3
        <5>2. timelines[K.onto][part] = 0
          BY <1>2, <1>5, <4>1, <4>3 DEF CountInv
        <5> QED
          BY <1>7, <3>1, <5>1, <5>2
      <4> QED
        BY <3>1, <4>2, <4>3
    <3>2. CASE ~Adds(i) /\ t = K.onto
      BY <1>4, <3>2
    <3>3. CASE t # K.onto
      <4>1. timelines'[t] = timelines[t]
        BY <1>4, <1>5, <3>3
      <4> QED
        BY <1>2, <2>2, <3>3, <4>1 DEF CountInv
    <3> QED
      BY <3>1, <3>2, <3>3
  <2>3. ASSUME NEW j \in 1..Last, Adds(j)
        PROVE  timelines'[K.onto][PartOf(j)] <=
                   (IF lost' THEN faults' ELSE 0) + (IF Recorded(j)' THEN 1 ELSE 0)
    <3>1. CASE ~Adds(i)
      BY <1>4, <1>5, <1>8, <2>3, <3>1
    <3>2. CASE Adds(i)
      <4>1. timelines[K.onto][PartOf(j)] \in Nat
            /\ timelines[K.onto][PartOf(j)] <=
                   (IF lost THEN faults ELSE 0) + (IF Recorded(j) THEN 1 ELSE 0)
        BY <1>2, <1>4, <1>5, <1>6, <2>3, <3>2 DEF CountInv
      <4>2. CASE j = i
        BY <1>2, <1>7, <1>8, <3>2, <4>1, <4>2
      <4>3. CASE j # i
        <5>1. timelines'[K.onto][PartOf(j)] = timelines[K.onto][PartOf(j)]
          BY <1>2, <1>5, <1>7, <2>3, <3>2, <4>3
        <5> QED
          BY <1>8, <4>1, <4>3, <5>1
      <4> QED
        BY <4>2, <4>3
    <3> QED
      BY <3>1, <3>2
  <2> QED
    <3>1. K' = K /\ Last' = Last
      BY <1>1 DEF Kept
    <3>2. \A j \in 1..Last : Adds(j)' =>
              timelines'[K.onto][PartOf(j)'] <=
                  (IF lost' THEN faults' ELSE 0) + (IF Recorded(j)' THEN 1 ELSE 0)
      BY <1>9, <2>3
    <3> QED
      BY ONLY <1>4, <2>1, <2>2, <3>1, <3>2 DEF CountInv
<1>11. ThereInv'
  <2>1. performed' \subseteq 1..Last /\ replies' \subseteq (1..Last) \X {None}
    <3>1. performed' \subseteq 1..Last
      BY <1>2 DEF ThereInv, i
    <3>2. <<i, None>> \in (1..Last) \X {None}
      BY <1>2
    <3> QED
      BY <1>2, <3>1, <3>2 DEF ThereInv
  <2>2. \A j \in 1..Last : Recorded(j)' => j \in performed'
    <3>1. Recorded(i)' => i \in performed'
      BY <1>2 DEF Recorded, i
    <3>2. ASSUME NEW j \in (1..Last) \ {i}, Recorded(j)' PROVE j \in performed'
      BY <1>2, <1>8, <3>2 DEF ThereInv
    <3> QED
      BY <3>1, <3>2
  <2>3. ASSUME edits = 0, NEW j \in performed', Adds(j)
        PROVE  timelines'[K.onto][PartOf(j)] > 0
    <3>1. j \in 1..Last /\ (j = i \/ j \in performed)
      BY <1>2, <2>1 DEF i
    <3>2. CASE j = i
      <4>1. timelines[K.onto][PartOf(i)] \in Nat
        BY <1>2, <1>5, <1>6, <2>3, <3>2
      <4> QED
        BY <1>7, <2>3, <3>2, <4>1
    <3>3. CASE j # i
      <4>1. timelines[K.onto] # None /\ timelines[K.onto][PartOf(j)] > 0
        BY <1>2, <2>3, <3>1, <3>3 DEF ThereInv
      <4>2. Adds(i)
        BY <1>4, <4>1
      <4>3. PartOf(j) \in Parts \ {PartOf(i)}
        BY <1>2, <1>5, <2>3, <3>1, <3>3
      <4> QED
        BY <1>7, <4>1, <4>2, <4>3
    <3> QED
      BY <3>2, <3>3
  <2> QED
    BY <1>1, <1>4, <1>9, <2>1, <2>2, <2>3 DEF ThereInv, Kept
<1>12. SequenceInv' \/ (Verified' /\ ~Verified)
  <2> SUFFICES ASSUME goal = "SequenceApply", edits = 0, Verified, NEW j \in 3..4
               PROVE  Recorded(j)' /\ timelines'["target"][PartOf(j)] = 1
    BY <1>1, <1>9, SequenceSteps DEF SequenceInv, Kept, PartOf
  <2>1. Recorded(j) /\ timelines["target"][PartOf(j)] = 1 /\ j \in 1..Last /\ Adds(j)
    BY <1>2, SequenceSteps DEF SequenceInv
  <2>2. timelines["target"] # None /\ K.onto = "target"
    BY <1>2, <2>1, SequenceSteps DEF ThereInv
  <2>3. Adds(i) /\ j # i
    BY <1>2, <1>4, <2>1, <2>2
  <2>4. PartOf(j) \in Parts \ {PartOf(i)}
    BY <1>2, <1>5, <2>1, <2>3
  <2> QED
    BY <1>7, <1>8, <2>1, <2>2, <2>3, <2>4
<1> QED
  BY <1>10, <1>11, <1>12

LEMMA ReplayInv ==
  ASSUME WorkflowInv, NEW c \in commands, Replay(c) PROVE WorkflowInv'
<1> USE DEF Replay, servers, history
<1>1. Kept
  BY GoalKept
<1>2. ControlInv'
  BY Answered
<1>3. CountInv' /\ ThereInv'
  BY <1>1, ProjectKept DEF WorkflowInv, ControlInv, BoundInv
<1>4. Verified' => Verified
  BY DEF Verified, Applied
<1> QED
  BY <1>1, <1>2, <1>3, <1>4, SequenceKept DEF WorkflowInv, BoundInv

LEMMA PerformInv ==
  ASSUME WorkflowInv, NEW c \in commands, Perform(c) PROVE WorkflowInv'
<1> USE DEF Perform
<1>1. ControlInv'
  BY Answered DEF servers
<1>2. CarriesOut(c)
  BY DEF CarriesOut
<1>3. Verified' => Verified
  BY DEF Verified, Applied, servers
<1> QED
  BY <1>1, <1>2, <1>3, CarriedOut DEF WorkflowInv, BoundInv

\* No answer comes: the server's call ends with the Resolve it talked to.
LEMMA PerformUnrecordedInv ==
  ASSUME WorkflowInv, NEW c \in commands, PerformUnrecorded(c) PROVE WorkflowInv'
<1> USE DEF PerformUnrecorded, Fault, Leave, Goto
<1>1. Kept
  BY GoalKept
<1>2. CommandInv(c) /\ c.by \in Processes \cup {None} /\ None \notin Processes
  BY WorkflowAssumption DEF WorkflowInv, ControlInv, CommandInv
<1>3. /\ pc' \in [Processes -> Labels] /\ held' \in [Processes -> Receipts \cup {None}]
      /\ c.by # None => pc'[c.by] = "idle" /\ held'[c.by] = None /\ answers[c.by] = "none"
      /\ \A q \in Processes \ {c.by} : pc'[q] = pc[q] /\ held'[q] = held[q]
  BY <1>2 DEF WorkflowInv, ControlInv, Labels, CommandInv, servers
<1>4. \A q \in Processes : ServerInv(q)'
  <2>1. ASSUME NEW q \in Processes, q # c.by PROVE ServerInv(q)'
    BY <1>1, <1>3, <2>1 DEF WorkflowInv, ControlInv, ServerInv, Backed, Recorded, Kept
  <2>2. ASSUME c.by \in Processes PROVE ServerInv(c.by)'
    BY <1>2, <1>3, <2>2 DEF ServerInv, Working
  <2> QED
    BY <2>1, <2>2
<1>5. ASSUME NEW d \in commands' PROVE CommandInv(d)'
  <2>1. d \in commands /\ d # c /\ CommandInv(d)
    BY DEF WorkflowInv, ControlInv
  <2>2. d.by # None => d.by # c.by
    BY <1>2, <2>1 DEF CommandInv, WorkflowInv, ControlInv
  <2> QED
    BY <1>1, <1>3, <2>1, <2>2 DEF CommandInv, Kept
<1>6. ReceiptInv'
  BY <1>1 DEF WorkflowInv, ControlInv, ReceiptInv, Backed, Recorded, Applied, Kept
<1>7. ControlInv'
  BY <1>1, <1>3, <1>4, <1>5, <1>6 DEF WorkflowInv, ControlInv, Kept
<1>8. CarriesOut(c)
  BY DEF CarriesOut
<1>9. Verified' => Verified
  BY <1>2, <1>3 DEF Verified, Applied
<1>10. CountInv' /\ ThereInv' /\ SequenceInv'
  BY <1>8, <1>9, CarriedOut
<1>11. BoundInv'
  BY WorkflowAssumption DEF WorkflowInv, BoundInv
<1> QED
  BY <1>7, <1>10, <1>11 DEF WorkflowInv

\* The error ends the call; what was changed is there, and has no receipt.
LEMMA FailAfterChangeInv ==
  ASSUME WorkflowInv, NEW c \in commands, FailAfterChange(c) PROVE WorkflowInv'
<1> USE DEF FailAfterChange, Fault
<1>1. ControlInv'
  BY Answered DEF servers
<1>2. CarriesOut(c)
  BY DEF CarriesOut
<1>3. Verified' => Verified
  BY DEF Verified, Applied, servers
<1>4. CountInv' /\ ThereInv' /\ SequenceInv'
  BY <1>2, <1>3, CarriedOut
<1>5. BoundInv'
  BY WorkflowAssumption DEF WorkflowInv, BoundInv
<1> QED
  BY <1>1, <1>4, <1>5 DEF WorkflowInv

LEMMA RejectInv ==
  ASSUME WorkflowInv, NEW c \in commands, Reject(c) PROVE WorkflowInv'
<1> USE DEF Reject, servers
<1>1. Kept
  BY GoalKept
<1>2. ControlInv'
  BY Answered
<1>3. faults' \in 0..MaxFaults /\ faults' >= faults
  BY WorkflowAssumption DEF WorkflowInv, BoundInv, Fault
<1>4. CountInv' /\ ThereInv'
  BY <1>1, <1>3, ProjectKept DEF WorkflowInv, ControlInv, BoundInv
<1>5. Verified' => Verified
  BY DEF Verified, Applied
<1> QED
  BY <1>1, <1>2, <1>3, <1>4, <1>5, SequenceKept DEF WorkflowInv, BoundInv

\* The user may add what the plan does not know, or take a part away; from then on
\* edits is not 0.
LEMMA UserEditsInv ==
  ASSUME WorkflowInv, NEW t \in {"source", "target"}, UserEdits(t) PROVE WorkflowInv'
<1> USE DEF UserEdits
<1>1. Kept
  BY GoalKept
<1>2. ControlInv'
  BY <1>1 DEF WorkflowInv, ControlInv, ServerInv, CommandInv, ReceiptInv, Backed, Recorded,
     Applied, Kept, servers, bridge
<1>3. edits' \in 0..MaxEdits /\ edits' # 0
  BY WorkflowAssumption DEF WorkflowInv, BoundInv
<1>4. /\ CountInv /\ "edit" \in Parts /\ timelines[t] \in [Parts -> Nat]
      /\ timelines[t]["edit"] \in {0, 1} /\ goal \in DOMAIN Kinds
  <2>1. CountInv /\ "edit" \in Parts /\ goal \in DOMAIN Kinds
    BY Steps DEF WorkflowInv, ControlInv
  <2>2. timelines[t] \in [Parts -> Nat] /\ timelines[t]["edit"] <= 1
    BY <2>1 DEF CountInv
  <2> QED
    BY <2>1, <2>2
<1>5. PICK bag \in [Parts -> Nat] :
          /\ timelines' = [timelines EXCEPT ![t] = bag]
          /\ bag["edit"] <= 1
          /\ \A part \in Parts \ {"edit"} : bag[part] <= timelines[t][part]
  <2>1. CASE timelines' = [timelines EXCEPT ![t]["edit"] = 1 - @]
    <3> DEFINE bag == [timelines[t] EXCEPT !["edit"] = 1 - @]
    <3>1. 1 - timelines[t]["edit"] \in {0, 1}
      BY <1>4
    <3>2. bag \in [Parts -> Nat] /\ bag["edit"] <= 1
      BY <1>4, <3>1
    <3>3. \A part \in Parts \ {"edit"} : bag[part] = timelines[t][part]
      BY <1>4
    <3>4. timelines' = [timelines EXCEPT ![t] = bag]
      BY <2>1
    <3> HIDE DEF bag
    <3>5. \A part \in Parts \ {"edit"} : bag[part] <= timelines[t][part]
      BY <1>4, <3>2, <3>3
    <3> QED
      BY <3>2, <3>4, <3>5
  <2>2. ASSUME NEW x \in Parts \ {"edit"}, timelines' = [timelines EXCEPT ![t][x] = 0]
        PROVE  \E bag \in [Parts -> Nat] :
                  /\ timelines' = [timelines EXCEPT ![t] = bag]
                  /\ bag["edit"] <= 1
                  /\ \A part \in Parts \ {"edit"} : bag[part] <= timelines[t][part]
    <3> DEFINE bag == [timelines[t] EXCEPT ![x] = 0]
    <3>1. bag \in [Parts -> Nat] /\ bag["edit"] <= 1
      BY <1>4
    <3>2. \A part \in Parts \ {"edit"} : bag[part] <= timelines[t][part]
      BY <1>4
    <3>3. timelines' = [timelines EXCEPT ![t] = bag]
      BY <2>2
    <3> HIDE DEF bag
    <3> QED
      BY <3>1, <3>2, <3>3
  <2> QED
    BY <2>1, <2>2
<1>6. bag # None
  BY NoneAssumption
<1>7. /\ timelines' \in [{"source", "target"} -> [Parts -> Nat] \cup {None}]
      /\ timelines'[t] = bag
      /\ \A s \in {"source", "target"} : s # t => timelines'[s] = timelines[s]
  BY <1>4, <1>5 DEF CountInv
<1>8. /\ \A part \in Parts \ {"edit"} : bag[part] \in Nat /\ timelines[t][part] \in Nat
      /\ K.onto \in {"source", "target"}
      /\ \A i \in 1..Last : Adds(i) => PartOf(i) \in Parts \ {"edit"}
  BY <1>4, Steps
<1>9. CountInv'
  <2>1. timelines'["source"] # None /\ (K.onto = "source" => timelines'["target"] = None)
    BY <1>4, <1>6, <1>7 DEF CountInv
  <2>2. ASSUME NEW s \in {"source", "target"}, timelines'[s] # None
        PROVE  /\ timelines'[s]["edit"] <= 1
               /\ \A part \in Parts \ {"edit"} :
                     s # K.onto \/ part \notin Elements(K.steps) => timelines'[s][part] = 0
    <3>1. CASE s = t
      <4>1. timelines'[s] = bag /\ timelines[t] # None
        BY <1>7, <3>1
      <4>2. \A part \in Parts \ {"edit"} :
                s # K.onto \/ part \notin Elements(K.steps) => timelines[t][part] = 0
        BY <1>4, <3>1, <4>1 DEF CountInv
      <4> QED
        BY <1>5, <1>8, <4>1, <4>2
    <3>2. CASE s # t
      BY <1>4, <1>7, <2>2, <3>2 DEF CountInv
    <3> QED
      BY <3>1, <3>2
  <2>3. ASSUME timelines'[K.onto] # None, NEW i \in 1..Last, Adds(i)
        PROVE  timelines'[K.onto][PartOf(i)] <=
                   (IF lost THEN faults ELSE 0) + (IF Recorded(i) THEN 1 ELSE 0)
    <3>1. CASE K.onto = t
      <4>1. timelines[t][PartOf(i)] <=
                (IF lost THEN faults ELSE 0) + (IF Recorded(i) THEN 1 ELSE 0)
        BY <1>4, <2>3, <3>1 DEF CountInv
      <4>2. bag[PartOf(i)] <= timelines[t][PartOf(i)]
        BY <1>5, <1>8, <2>3
      <4>3. timelines'[K.onto][PartOf(i)] = bag[PartOf(i)]
        BY <1>7, <3>1
      <4>4. /\ (IF lost THEN faults ELSE 0) + (IF Recorded(i) THEN 1 ELSE 0) \in Nat
            /\ bag[PartOf(i)] \in Nat /\ timelines[t][PartOf(i)] \in Nat
        BY <1>8, <2>3 DEF WorkflowInv, BoundInv
      <4> HIDE DEF Recorded
      <4> QED
        BY <4>1, <4>2, <4>3, <4>4
    <3>2. CASE K.onto # t
      BY <1>4, <1>7, <1>8, <2>3, <3>2 DEF CountInv
    <3> QED
      BY <3>1, <3>2
  <2> QED
    BY <1>1, <1>7, <2>1, <2>2, <2>3 DEF CountInv, Kept, Adds, PartOf, Recorded, bridge
<1>10. ThereInv'
  BY <1>1, <1>3 DEF WorkflowInv, ThereInv, Kept, Recorded, bridge
<1>11. SequenceInv'
  BY <1>3 DEF SequenceInv
<1> QED
  BY <1>2, <1>3, <1>9, <1>10, <1>11 DEF WorkflowInv, BoundInv

-----------------------------------------------------------------------------
(* The theorems *)

LEMMA InitInv == Init => WorkflowInv
<1> SUFFICES ASSUME Init PROVE WorkflowInv
  OBVIOUS
<1> USE DEF Init
<1>1. Last \in 1..5 /\ K.onto \in {"source", "target"} /\ "edit" \in Parts
  BY Steps
<1>2. Empty \in [Parts -> Nat] /\ Empty # None /\ \A part \in Parts : Empty[part] = 0
  BY NoneAssumption DEF Empty
<1>3. /\ timelines \in [{"source", "target"} -> [Parts -> Nat] \cup {None}]
      /\ timelines["source"] = Empty /\ timelines["target"] = None
  BY <1>2
<1>4. ControlInv
  BY WorkflowAssumption
     DEF ControlInv, Labels, ServerInv, Working, ReceiptInv
<1>5. CountInv
  <2>1. \A i \in 1..Last : Adds(i) => PartOf(i) \in Parts
    BY Steps
  <2> QED
    BY <1>1, <1>2, <1>3, <2>1 DEF CountInv
<1>6. ThereInv
  BY <1>1 DEF ThereInv, Recorded
<1>7. SequenceInv
  <2>1. ~Verified
    BY DEF Verified, Applied
  <2> QED
    BY <2>1 DEF SequenceInv
<1>8. BoundInv
  <2>1. lost \in BOOLEAN
    OBVIOUS
  <2>2. faults \in 0..MaxFaults /\ edits \in 0..MaxEdits
    BY WorkflowAssumption
  <2> QED
    BY <2>1, <2>2 DEF BoundInv
<1> QED
  BY <1>4, <1>5, <1>6, <1>7, <1>8 DEF WorkflowInv

LEMMA NextInv == WorkflowInv /\ [Next]_vars => WorkflowInv'
<1> SUFFICES ASSUME WorkflowInv, [Next]_vars PROVE WorkflowInv'
  OBVIOUS
<1>1. ASSUME NEW p \in Processes, ServerStep(p) PROVE WorkflowInv'
  BY <1>1, LookStepInv, BeginInv, StepInv, StepResultInv, StepFailsInv, VerifyInv, RecordInv
     DEF ServerStep, LookStep
<1>2. ASSUME NEW p \in Processes, GiveUp(p) PROVE WorkflowInv'
  BY <1>2, GiveUpInv
<1>3. ASSUME NEW c \in commands,
             BridgeStep(c) \/ PerformUnrecorded(c) \/ FailAfterChange(c)
      PROVE  WorkflowInv'
  BY <1>3, ReplayInv, PerformInv, RejectInv, PerformUnrecordedInv, FailAfterChangeInv
     DEF BridgeStep
<1>4. ASSUME NEW t \in {"source", "target"}, UserEdits(t) PROVE WorkflowInv'
  BY <1>4, UserEditsInv
<1>5. CASE UNCHANGED vars
  <2>1. Kept
    BY <1>5, GoalKept DEF vars
  <2> QED
    BY <1>5, <2>1 DEF vars, servers, bridge, history, WorkflowInv, ControlInv, ServerInv,
       CommandInv, ReceiptInv, Backed, Recorded, Applied, CountInv, ThereInv, SequenceInv,
       Verified, BoundInv, Adds, PartOf, Kept
<1> QED
  BY <1>1, <1>2, <1>3, <1>4, <1>5 DEF Next

\* What the invariant counts, the parts that the bridge, its receipts and the receipt files
\* know of, agrees in every state, whatever the servers, the bridge and the user do.
THEOREM WorkflowInvariant == Spec => []WorkflowInv
BY InitInv, NextInv, PTL DEF Spec

\* Every variable keeps its type, and no timeline has a part more often than the
\* faults and edits of the behaviour allow.
THEOREM TypeCorrect == Spec => []TypeOK
<1>1. WorkflowInv => TypeOK
  <2> SUFFICES ASSUME WorkflowInv PROVE TypeOK
    OBVIOUS
  <2>1. Last \in 1..5 /\ K.onto \in {"source", "target"} /\ "edit" \in Parts
    BY Steps DEF WorkflowInv, ControlInv
  <2>2. ASSUME NEW t \in {"source", "target"}, timelines[t] # None
        PROVE  timelines[t] \in [Parts -> 0..(MaxFaults + MaxEdits + 1)]
    <3>1. timelines[t] \in [Parts -> Nat] /\ CountInv
      BY <2>2 DEF WorkflowInv, CountInv
    <3>2. ASSUME NEW part \in Parts
          PROVE  timelines[t][part] <= MaxFaults + 1
      <4>1. timelines[t][part] \in Nat
        BY <3>1
      <4>2. CASE part = "edit"
        BY <2>2, <3>1, <4>2, WorkflowAssumption DEF CountInv
      <4>3. CASE part # "edit" /\ (t # K.onto \/ part \notin Elements(K.steps))
        BY <2>2, <3>1, <4>3, WorkflowAssumption DEF CountInv
      <4>4. CASE part # "edit" /\ t = K.onto /\ part \in Elements(K.steps)
        <5>1. PICK i \in 1..Last : part = PartOf(i)
          BY <4>4, Steps DEF Elements, PartOf, WorkflowInv, ControlInv
        <5>2. Adds(i)
          BY <5>1 DEF Adds, PartOf, Parts, Makes
        <5>3. timelines[t][part] <=
                  (IF lost THEN faults ELSE 0) + (IF Recorded(i) THEN 1 ELSE 0)
          BY <2>2, <3>1, <4>4, <5>1, <5>2 DEF CountInv
        <5>4. faults \in Nat /\ faults <= MaxFaults
          BY WorkflowAssumption DEF WorkflowInv, BoundInv
        <5> HIDE DEF Recorded
        <5> QED
          BY <4>1, <5>3, <5>4, WorkflowAssumption
      <4> QED
        BY <4>2, <4>3, <4>4
    <3> QED
      BY <3>1, <3>2, WorkflowAssumption
  <2>3. timelines \in [{"source", "target"} ->
                          [Parts -> 0..(MaxFaults + MaxEdits + 1)] \cup {None}]
    BY <2>2 DEF WorkflowInv, CountInv
  <2>4. commands \subseteq [key : (1..5) \X (Processes \cup {None}), step : 1..5,
                            by : Processes \cup {None}]
    BY DEF WorkflowInv, ControlInv, CommandInv
  <2>5. replies \subseteq (1..5) \X (Processes \cup {None}) /\ performed \subseteq 1..5
    BY <2>1 DEF WorkflowInv, ThereInv
  <2>6. receipt \in Receipts \cup {None}
    BY DEF WorkflowInv, ControlInv, ReceiptInv, Backed
  <2> QED
    BY <2>3, <2>4, <2>5, <2>6 DEF TypeOK, WorkflowInv, ControlInv, Labels, BoundInv
<1> QED
  BY <1>1, WorkflowInvariant, PTL

\* However many servers run a workflow and repeat it, every step of it is on its
\* timeline at most once as long as no change is left without a receipt, by a death
\* of Resolve or by a handler that fails after it: every step is asked for under the
\* key the receipt gives it.
THEOREM StepsOnce == Spec => []OncePerStep
<1>1. WorkflowInv => OncePerStep
  <2> SUFFICES ASSUME WorkflowInv, ~lost, NEW t \in {"source", "target"},
                      timelines[t] # None, NEW part \in Parts
               PROVE  timelines[t][part] <= 1
    BY DEF OncePerStep
  <2>1. timelines[t] \in [Parts -> Nat] /\ CountInv
    BY DEF WorkflowInv, CountInv
  <2>2. CASE part = "edit"
    BY <2>1, <2>2 DEF CountInv
  <2>3. CASE part # "edit" /\ (t # K.onto \/ part \notin Elements(K.steps))
    BY <2>1, <2>3 DEF CountInv
  <2>4. CASE part # "edit" /\ t = K.onto /\ part \in Elements(K.steps)
    <3>1. PICK i \in 1..Last : part = PartOf(i)
      BY <2>4, Steps DEF Elements, PartOf, WorkflowInv, ControlInv
    <3>2. Adds(i)
      BY <3>1 DEF Adds, PartOf, Parts, Makes
    <3>3. timelines[t][part] <= 0 + (IF Recorded(i) THEN 1 ELSE 0)
      BY <2>1, <2>4, <3>1, <3>2 DEF CountInv
    <3> QED
      BY <2>1, <3>3
  <2> QED
    BY <2>2, <2>3, <2>4
<1> QED
  BY <1>1, WorkflowInvariant, PTL

\* The receipt file never claims a step that was not carried out, whatever order
\* the servers write it in.
THEOREM ReceiptBehind == Spec => []ReceiptNotAhead
<1>1. WorkflowInv => ReceiptNotAhead
  <2> SUFFICES ASSUME WorkflowInv, receipt # None
               PROVE  /\ 1..receipt.done \subseteq performed
                      /\ Applied(receipt) => receipt.done = Last
    BY DEF ReceiptNotAhead
  <2>1. Backed(receipt) /\ (Applied(receipt) => receipt.done = Last)
    BY DEF WorkflowInv, ControlInv, ReceiptInv
  <2>2. \A i \in 1..receipt.done : i \in 1..Last /\ Recorded(i)
    BY <2>1, Steps DEF Backed, Receipts, WorkflowInv, ControlInv
  <2>3. \A i \in 1..receipt.done : i \in performed
    BY <2>2 DEF WorkflowInv, ThereInv
  <2> QED
    BY <2>1, <2>3
<1> QED
  BY <1>1, WorkflowInvariant, PTL

\* An applied receipt means the reviewed plan is there, in full and once, as long
\* as the user has not touched the timelines.
THEOREM AppliedMeansThere == Spec => []AppliedIsExact
<1>1. WorkflowInv => AppliedIsExact
  <2> SUFFICES ASSUME WorkflowInv, Applied(receipt), edits = 0, NEW i \in 1..Last,
                      K.steps[i] \notin Makes
               PROVE  LET count == timelines[K.onto][K.steps[i]] IN
                      /\ count > 0
                      /\ ~lost \/ (goal = "SequenceApply" /\ i > 2) => count = 1
    BY DEF AppliedIsExact
  <2> DEFINE count == timelines[K.onto][PartOf(i)]
  <2>1. Adds(i) /\ K.steps[i] = PartOf(i)
    BY DEF Adds, PartOf
  <2>2. Recorded(i) /\ i \in performed
    BY Steps DEF WorkflowInv, ControlInv, ReceiptInv, Backed, Receipts, Applied, ThereInv
  <2>3. timelines[K.onto] # None /\ count > 0
    BY <2>1, <2>2 DEF WorkflowInv, ThereInv
  <2>4. count \in Nat
    BY <2>1, <2>3, Counts DEF WorkflowInv, ControlInv
  <2>5. ~lost => count <= 1
    BY <2>1, <2>2, <2>3 DEF WorkflowInv, CountInv
  <2>6. goal = "SequenceApply" /\ i > 2 => count = 1
    BY SequenceSteps DEF WorkflowInv, SequenceInv, Verified
  <2> HIDE DEF count
  <2>7. count > 0 /\ (~lost \/ (goal = "SequenceApply" /\ i > 2) => count = 1)
    BY <2>3, <2>4, <2>5, <2>6
  <2> QED
    BY <2>1, <2>7 DEF count
<1> QED
  BY <1>1, WorkflowInvariant, PTL
=============================================================================
