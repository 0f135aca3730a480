------------------------- MODULE TimelineWorkflows -------------------------
(***************************************************************************)
(* The workflows of the agent that change a project in several steps       *)
(* (src/agent/*.py: apply, assemble, link, start and the like).  They are  *)
(* sagas of one shape: validate, compare the reviewed plan with the live   *)
(* project, keep a receipt file, ask the bridge for one step after the     *)
(* other under keys derived from the receipt, read the result back, and    *)
(* record "applied".  What differs is in the table of kinds below: which   *)
(* steps, on which timeline, in which order the receipt and the live       *)
(* project are looked at, and what the readback insists on.                *)
(*                                                                         *)
(* A behaviour is one reviewed plan of one kind, carried out by the MCP    *)
(* servers Processes, which share the receipts directory without a lock.   *)
(* A call may be given up at a timeout while its command goes on, a server *)
(* may die, a command may fail before its change or after it, Resolve may  *)
(* die between a change and its receipt (BridgeQueue), and the user may    *)
(* edit the timelines.                                                     *)
(*                                                                         *)
(* A timeline is a bag of parts: what was there when the plan was          *)
(* reviewed, what each step put there, and what the user added since.      *)
(***************************************************************************)
EXTENDS Naturals, Sequences, FiniteSets

CONSTANTS
    Processes,      \* servers that run the workflow
    None,           \* no timeline, no receipt, nobody
    MaxFaults,      \* bound on timeouts, crashes, failures and lost receipts
    MaxEdits        \* bound on the edits of the user

ASSUME WorkflowAssumption ==
    /\ None \notin Processes
    /\ MaxFaults \in Nat /\ MaxEdits \in Nat

-----------------------------------------------------------------------------
(* The kinds of workflow.                                                  *)
(*   steps   the commands, in order; "duplicate" and "create" make the     *)
(*           target, and the others add a part to it                       *)
(*   onto    the timeline they change: a new "target", or the "source"     *)
(*   checks  when the reviewed plan is compared with the live project:     *)
(*           "first", then the receipt is looked up; "always", after that; *)
(*           "fresh", after that and only without a receipt; "never"       *)
(*   sees    the parts of the source that the plan depends on              *)
(*   keeps   a receipt is on disk from before the first step               *)
(*   reads   the parts the readback insists on                             *)
(*   exact   the readback accepts no item the plan does not know           *)

Workflow(steps, onto, checks, sees, keeps, reads, exact) ==
    [steps |-> steps, onto |-> onto, checks |-> checks, sees |-> sees,
     keeps |-> keeps, reads |-> reads, exact |-> exact]

MediaImport ==
    Workflow(<<"import">>, "source", "always", {"import", "edit"}, FALSE, {"import"}, FALSE)

SequenceApply ==
    Workflow(<<"duplicate", "tracks", "video", "audio">>, "target", "always",
         {"edit"}, TRUE, {"video", "audio"}, TRUE)

SequenceRender ==
    Workflow(<<"prepare", "start">>, "source", "always", {"start"}, TRUE, {}, FALSE)

Broll ==
    Workflow(<<"duplicate", "tracks", "insert">>, "target", "first", {"edit"}, TRUE,
         {"insert"}, FALSE)

Animation ==
    Workflow(<<"duplicate", "insert">>, "target", "first", {"edit"}, TRUE, {"insert"}, FALSE)

Color ==
    Workflow(<<"duplicate", "color">>, "target", "first", {"edit"}, TRUE, {"color"}, TRUE)

Compaction ==
    Workflow(<<"create", "tracks", "insert">>, "target", "always", {}, TRUE, {"insert"}, FALSE)

Finalization ==
    Workflow(<<"link", "transform">>, "source", "never", {}, TRUE, {}, FALSE)

SynchronizedPair ==
    Workflow(<<"create", "tracks", "screen", "audio", "webcam">>, "target", "never", {}, TRUE,
         {"screen", "audio", "webcam"}, FALSE)

SynchronizedLink == Workflow(<<"link">>, "source", "never", {}, TRUE, {}, FALSE)

PictureInPicture == Workflow(<<"transform">>, "source", "never", {}, TRUE, {}, FALSE)

VisualTreatment ==
    Workflow(<<"transform", "title">>, "source", "never", {}, TRUE, {}, FALSE)

AudioIntegration ==
    Workflow(<<"import", "tracks", "audio", "disable", "enable">>, "source", "never", {}, TRUE,
         {"audio"}, FALSE)

AudioExtraction ==
    Workflow(<<"start">>, "source", "always", {"start"}, TRUE, {}, FALSE)

RenderExecution ==
    Workflow(<<"start">>, "source", "fresh", {"start"}, TRUE, {}, FALSE)

RoughCut ==
    Workflow(<<"duplicate">>, "target", "never", {}, FALSE, {}, FALSE)

Subtitles ==
    Workflow(<<"import", "append">>, "source", "never", {}, FALSE, {"append"}, FALSE)

\* A packaged recipe; its two steps are workflows of their own, whose receipts
\* answer for them when it is run again.
Recipe == Workflow(<<"transform", "link">>, "source", "never", {}, TRUE, {}, FALSE)

Kinds == [MediaImport |-> MediaImport, SequenceApply |-> SequenceApply,
          SequenceRender |-> SequenceRender, Broll |-> Broll,
          Animation |-> Animation, Color |-> Color, Compaction |-> Compaction,
          Finalization |-> Finalization, SynchronizedPair |-> SynchronizedPair,
          SynchronizedLink |-> SynchronizedLink,
          PictureInPicture |-> PictureInPicture,
          VisualTreatment |-> VisualTreatment,
          AudioIntegration |-> AudioIntegration,
          AudioExtraction |-> AudioExtraction,
          RenderExecution |-> RenderExecution, RoughCut |-> RoughCut,
          Subtitles |-> Subtitles, Recipe |-> Recipe]

Elements(seq) == {seq[i] : i \in DOMAIN seq}
Makes == {"duplicate", "create"}
Parts == {"edit"} \cup ((UNION {Elements(Kinds[k].steps) : k \in DOMAIN Kinds}) \ Makes)

\* Nothing is neither a timeline nor a receipt.
Receipts == [status : {"in_progress", "applied"}, done : 0..5]
ASSUME NoneAssumption == None \notin Receipts /\ None \notin [Parts -> Nat]

-----------------------------------------------------------------------------

VARIABLES
    goal,           \* the workflow of this behaviour, one of Kinds
    timelines,      \* "source" and "target": a bag of parts, or None
    receipt,        \* the receipt file: its status and the steps it has
    \* the servers
    pc,
    held,           \* the receipt a server works on
    \* the bridge
    commands,       \* commands not carried out yet
    answers,        \* the answer a waiting server will find
    replies,        \* the keys that have a bridge receipt
    \* bounds and history
    faults, edits,
    lost,           \* a step changed the project and the bridge has no receipt of it
    performed       \* the steps that were carried out to their end

servers == <<pc, held>>
bridge  == <<commands, answers, replies>>
history == <<faults, edits, lost, performed>>
vars    == <<goal, timelines, receipt, servers, bridge, history>>

K == Kinds[goal]
Last == Len(K.steps)
Empty == [p \in Parts |-> 0]

TypeOK ==
    /\ goal \in DOMAIN Kinds
    /\ timelines \in [{"source", "target"} -> [Parts -> 0..(MaxFaults + MaxEdits + 1)] \cup {None}]
    /\ receipt \in Receipts \cup {None}
    /\ pc \in [Processes -> {"idle", "first", "lookup", "check", "begin", "step",
                             "await", "verify", "record"}]
    /\ held \in [Processes -> Receipts \cup {None}]
    /\ commands \subseteq [key : (1..5) \X (Processes \cup {None}), step : 1..5,
                           by : Processes \cup {None}]
    /\ answers \in [Processes -> {"none", "ok", "error"}]
    /\ replies \subseteq (1..5) \X (Processes \cup {None})
    /\ faults \in 0..MaxFaults /\ edits \in 0..MaxEdits /\ lost \in BOOLEAN
    /\ performed \subseteq 1..5

\* The plan was reviewed on the source as it is; its target is not there yet.
Init ==
    /\ goal \in DOMAIN Kinds
    /\ timelines = [t \in {"source", "target"} |-> IF t = "source" THEN Empty ELSE None]
    /\ receipt = None
    /\ pc = [p \in Processes |-> "idle"] /\ held = [p \in Processes |-> None]
    /\ commands = {} /\ answers = [p \in Processes |-> "none"] /\ replies = {}
    /\ faults = 0 /\ edits = 0 /\ lost = FALSE /\ performed = {}

-----------------------------------------------------------------------------
(* A server. *)

Goto(p, label) == pc' = [pc EXCEPT ![p] = label]

\* The call ends, with a result or with an error; nothing of it is remembered.
Leave(p) == Goto(p, "idle") /\ held' = [held EXCEPT ![p] = None]

BridgeKept == UNCHANGED <<goal, timelines, bridge, history>>

\* The tool is called, for the first time or again.
Call(p) ==
    /\ pc[p] = "idle"
    /\ Goto(p, IF K.checks = "first" THEN "first" ELSE "lookup")
    /\ UNCHANGED <<receipt, held>> /\ BridgeKept

\* The live project still gives the plan that was reviewed.
PlanHolds == \A part \in K.sees : timelines["source"][part] = 0

\* Seeded fault in NameFree: the name is checked on every call.
NameAlwaysFree(p) == goal = "SequenceApply" => timelines["target"] = None

\* The first check of a new sequence: its name is free.
NameFree(p) ==
    goal = "SequenceApply" /\ held[p] = None => timelines["target"] = None

\* An edit may leave what a B-roll plan looks at (bounds, tracks, collisions) alone.
Overlooked == goal = "Broll"

CheckFirst(p) ==
    /\ pc[p] = "first"
    /\ \/ (PlanHolds \/ Overlooked) /\ Goto(p, "lookup") /\ UNCHANGED held
       \/ ~PlanHolds /\ Leave(p)
    /\ UNCHANGED receipt /\ BridgeKept

Applied(r) == r # None /\ r.status = "applied"

\* An applied receipt is the result of the call.
Lookup(p) ==
    /\ pc[p] = "lookup"
    /\ IF Applied(receipt) THEN Leave(p)
       ELSE /\ held' = [held EXCEPT ![p] = receipt]
            /\ Goto(p, IF K.checks = "always" \/ (K.checks = "fresh" /\ receipt = None)
                       THEN "check" ELSE "begin")
    /\ UNCHANGED receipt /\ BridgeKept

Check(p) ==
    /\ pc[p] = "check"
    /\ IF PlanHolds /\ NameFree(p) THEN Goto(p, "begin") /\ UNCHANGED held ELSE Leave(p)
    /\ UNCHANGED receipt /\ BridgeKept

\* A call that found no receipt writes one, whatever is on disk by now.
Begin(p) ==
    /\ pc[p] = "begin" /\ Goto(p, "step")
    /\ held' = [held EXCEPT ![p] =
                    IF @ = None THEN [status |-> "in_progress", done |-> 0] ELSE @]
    /\ receipt' = IF held[p] = None /\ K.keeps THEN held'[p] ELSE receipt
    /\ BridgeKept

\* Seeded fault in StepKey: every server has keys of its own.
KeyOfCall(p, i) == <<i, p>>

\* The key of a step: derived from the receipt, never from the call.
StepKey(p, i) == <<i, None>>

\* The next step without a result is asked for; after the last one the
\* result is verified.
Step(p) ==
    /\ pc[p] = "step"
    /\ IF held[p].done = Last
       THEN Goto(p, "verify") /\ UNCHANGED <<commands, answers>>
       ELSE LET i == held[p].done + 1 IN
            /\ Goto(p, "await")
            /\ commands' = commands \cup {[key |-> StepKey(p, i), step |-> i, by |-> p]}
            /\ answers' = [answers EXCEPT ![p] = "none"]
    /\ UNCHANGED <<goal, timelines, receipt, held, replies, history>>

StepDone(r) == [r EXCEPT !.done = @ + 1]

\* The result of a step is stored before the next one is asked for.
StepResult(p) ==
    /\ pc[p] = "await" /\ answers[p] = "ok"
    /\ Goto(p, "step") /\ held' = [held EXCEPT ![p] = StepDone(@)]
    /\ receipt' = IF K.keeps THEN held'[p] ELSE receipt
    /\ answers' = [answers EXCEPT ![p] = "none"]
    /\ UNCHANGED <<goal, timelines, commands, replies, history>>

\* Seeded fault in StepFails: a failed step counts as done.
StepFailsForward(p) ==
    /\ pc[p] = "await" /\ answers[p] = "error"
    /\ Goto(p, "step") /\ held' = [held EXCEPT ![p] = StepDone(@)]
    /\ receipt' = IF K.keeps THEN held'[p] ELSE receipt
    /\ answers' = [answers EXCEPT ![p] = "none"]
    /\ UNCHANGED <<goal, timelines, commands, replies, history>>

StepFails(p) ==
    /\ pc[p] = "await" /\ answers[p] = "error" /\ Leave(p)
    /\ answers' = [answers EXCEPT ![p] = "none"]
    /\ UNCHANGED <<goal, timelines, receipt, commands, replies, history>>

\* Seeded fault in NothingElse: the counts of the placements are not compared.
NoEdit(bag) == bag["edit"] = 0

\* The items of a new sequence are exactly the planned ones, and its empty source
\* is still empty; the items of a graded timeline are exactly those mapped to the
\* source.
NothingElse(bag) ==
    /\ bag["edit"] = 0
    /\ goal = "SequenceApply" =>
          /\ bag["video"] = 1 /\ bag["audio"] = 1
          /\ timelines["source"]["edit"] = 0

ReadBack ==
    LET bag == timelines[K.onto] IN
    /\ \A part \in K.reads : bag[part] > 0
    /\ K.exact => NothingElse(bag)

\* The target is read back; whatever is missing ends the call.
Verify(p) ==
    /\ pc[p] = "verify"
    /\ IF ReadBack THEN Goto(p, "record") /\ UNCHANGED held ELSE Leave(p)
    /\ UNCHANGED receipt /\ BridgeKept

\* Seeded fault in Record: a status no reader knows.
RecordStarted(p) ==
    /\ pc[p] = "record" /\ Leave(p)
    /\ receipt' = [held[p] EXCEPT !.status = "started"]
    /\ BridgeKept

\* The receipt becomes "applied", and is the result of the call.
Record(p) ==
    /\ pc[p] = "record" /\ Leave(p)
    /\ receipt' = [held[p] EXCEPT !.status = "applied"]
    /\ BridgeKept

Fault == faults < MaxFaults /\ faults' = faults + 1

\* The server stops waiting or dies; the command it asked for stays.
GiveUp(p) ==
    /\ pc[p] # "idle" /\ Fault /\ Leave(p)
    /\ commands' = {[c EXCEPT !.by = IF @ = p THEN None ELSE @] : c \in commands}
    /\ answers' = [answers EXCEPT ![p] = "none"]
    /\ UNCHANGED <<goal, timelines, receipt, replies, edits, lost, performed>>

-----------------------------------------------------------------------------
(* The bridge and Resolve, as BridgeQueue has them: one command at a time, *)
(* a key with a receipt is answered from it.                               *)

Answer(c, how) ==
    /\ commands' = commands \ {c}
    /\ answers' = IF c.by = None THEN answers ELSE [answers EXCEPT ![c.by] = how]

Replay(c) ==
    /\ c.key \in replies /\ Answer(c, "ok")
    /\ UNCHANGED <<goal, timelines, receipt, servers, replies, history>>

\* A timeline cannot get a name that exists, nor a part before it exists.
Possible(step) ==
    IF step \in Makes THEN timelines["target"] = None ELSE timelines[K.onto] # None

Effect(step) ==
    CASE step = "duplicate" -> [timelines EXCEPT !["target"] = timelines["source"]]
      [] step = "create"    -> [timelines EXCEPT !["target"] = Empty]
      [] OTHER              -> [timelines EXCEPT ![K.onto][step] = @ + 1]

Perform(c) ==
    /\ c.key \notin replies /\ Possible(K.steps[c.step])
    /\ timelines' = Effect(K.steps[c.step])
    /\ performed' = performed \cup {c.step}
    /\ replies' = replies \cup {c.key} /\ Answer(c, "ok")
    /\ UNCHANGED <<goal, receipt, servers, faults, edits, lost>>

\* Resolve dies between the change and the bridge receipt: no answer comes.
PerformUnrecorded(c) ==
    /\ c.key \notin replies /\ Possible(K.steps[c.step])
    /\ Fault /\ lost' = TRUE
    /\ timelines' = Effect(K.steps[c.step])
    /\ performed' = performed \cup {c.step}
    /\ commands' = commands \ {c}
    /\ IF c.by = None THEN UNCHANGED servers ELSE Leave(c.by)
    /\ UNCHANGED <<goal, receipt, answers, replies, edits>>

\* The handler changes the project and answers an error with Resolve alive: its
\* readback fails, its batch stops half-way, or its receipt cannot be written.
FailAfterChange(c) ==
    /\ c.key \notin replies /\ Possible(K.steps[c.step])
    /\ Fault /\ lost' = TRUE
    /\ timelines' = Effect(K.steps[c.step])
    /\ Answer(c, "error")
    /\ UNCHANGED <<goal, receipt, servers, replies, edits, performed>>

\* The handler refuses, or fails before it changes anything.
Reject(c) ==
    /\ c.key \notin replies /\ Answer(c, "error")
    /\ Possible(K.steps[c.step]) => Fault
    /\ ~Possible(K.steps[c.step]) => UNCHANGED faults
    /\ UNCHANGED <<goal, timelines, receipt, servers, replies, edits, lost, performed>>

\* The user adds something to a timeline, or takes something away.
UserEdits(t) ==
    /\ timelines[t] # None /\ edits < MaxEdits /\ edits' = edits + 1
    /\ \/ timelines' = [timelines EXCEPT ![t]["edit"] = 1 - @]
       \/ \E part \in Parts \ {"edit"} :
             /\ timelines[t][part] > 0
             /\ timelines' = [timelines EXCEPT ![t][part] = 0]
    /\ UNCHANGED <<goal, receipt, servers, bridge, faults, lost, performed>>

-----------------------------------------------------------------------------

ServerStep(p) ==
    \/ Call(p) \/ CheckFirst(p) \/ Lookup(p) \/ Check(p) \/ Begin(p) \/ Step(p)
    \/ StepResult(p) \/ StepFails(p) \/ Verify(p) \/ Record(p)

BridgeStep(c) == Replay(c) \/ Perform(c) \/ Reject(c)

Next ==
    \/ \E p \in Processes : ServerStep(p) \/ GiveUp(p)
    \/ \E c \in commands : BridgeStep(c) \/ PerformUnrecorded(c) \/ FailAfterChange(c)
    \/ \E t \in {"source", "target"} : UserEdits(t)

\* A server goes on with a call it has begun, the client calls again until the
\* workflow is applied, and the bridge works on its queue.
Fairness ==
    /\ \A p \in Processes : WF_vars(ServerStep(p))
    /\ WF_vars(\E c \in commands : BridgeStep(c))

Spec == Init /\ [][Next]_vars /\ Fairness

-----------------------------------------------------------------------------
(* Properties *)

\* However many servers run a workflow, and whatever they gave up and called
\* again, each of its steps changes the project once, unless a step changed it
\* and left no receipt: Resolve died first, or the handler failed after its change.
OncePerStep ==
    ~lost => \A t \in {"source", "target"} :
                timelines[t] # None => \A part \in Parts : timelines[t][part] <= 1

\* The receipt is never ahead of the project: the steps it has results of were
\* carried out, and it is applied only with all of them.
ReceiptNotAhead ==
    receipt # None =>
        /\ 1..receipt.done \subseteq performed
        /\ Applied(receipt) => receipt.done = Last

\* While the user keeps off the timelines, an applied workflow is there in full,
\* and once; a sequence so even when a step of it was repeated because a change
\* had left no receipt.
AppliedIsExact ==
    Applied(receipt) /\ edits = 0 =>
        \A i \in 1..Last :
            K.steps[i] \notin Makes =>
                LET count == timelines[K.onto][K.steps[i]] IN
                /\ count > 0
                /\ ~lost \/ (goal = "SequenceApply" /\ i > 2) => count = 1

\* These refuse to go on once their own first attempt is visible: an import whose
\* files are in the Media Pool, a start whose output exists.
RefusesItsOwnWork == {"MediaImport", "SequenceRender", "AudioExtraction"}

\* Every other workflow that is called again after timeouts, failures and deaths
\* of servers is applied in the end, and stays so, unless the user edits its
\* timelines, Resolve dies after a change or a handler fails after its own.
EventuallyApplied ==
    [](edits = 0 /\ ~lost /\ goal \notin RefusesItsOwnWork) => <>[]Applied(receipt)
=============================================================================
