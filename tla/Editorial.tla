------------------------------- MODULE Editorial -------------------------------
(***************************************************************************)
(* From recordings to a film.  A talk loses its pauses (RoughCut), or      *)
(* approved takes are put in a row (TakeSequence); a finalized timeline is *)
(* given its voice and subtitles and is rendered (Delivery); a rendered    *)
(* one is dressed with B-roll, an animation and a color treatment          *)
(* (Dressing).  The four share the user and the arithmetic of frames, but  *)
(* no document that one writes and another reads again: each starts from   *)
(* receipts that are never changed.  So a behaviour is about one of them:  *)
(* the desk.                                                               *)
(***************************************************************************)
EXTENDS RoughCut, TakeSequence, Delivery, Dressing

\* There is something to begin with on every desk.
ASSUME DeskAssumption ==
    /\ Silences # {} /\ SampleRates # {} /\ Recordings # {} /\ Rates # {}
    /\ FirstFiles # {} /\ TimelineRates # {}
    /\ Leads # {} /\ Assets # {}

VARIABLE desk       \* "cut", "take", "delivery" or "dress"

vars == <<desk, cutVars, takeVars, deliveryVars, dressVars>>

TypeOK ==
    /\ desk \in {"cut", "take", "delivery", "dress"}
    /\ CutTypeOK /\ TakeTypeOK /\ DeliveryTypeOK /\ DressTypeOK

\* What the other desks' variables are while nobody works there.
CutRests ==
    /\ speech = [silent |-> CHOOSE s \in Silences : TRUE,
                 sampleRate |-> CHOOSE r \in SampleRates : TRUE, duration |-> Windows * Window]
    /\ footage = [role \in {"screen", "webcam"} |-> CHOOSE r \in Recordings : TRUE]
    /\ rate = (CHOOSE r \in Rates : TRUE)
    /\ plan = NoPlan /\ approval = NoPlan
    /\ pairs = {} /\ layouts = {} /\ links = {}
    /\ compaction = NoCompaction /\ compacting = FALSE /\ inserted = {} /\ finalized = NoFinal

TakeRests ==
    /\ files = (CHOOSE f \in FirstFiles : TRUE) /\ targetRate = (CHOOSE r \in TimelineRates : TRUE)
    /\ analysis = None /\ selections = {} /\ reviewing = {} /\ reviews = <<>>
    /\ everApproved = {} /\ sequence = <<>> /\ binding = None /\ private = {} /\ public = {}
    /\ pool = {} /\ untouched = TRUE /\ importing = NoImport /\ imported = NoImport
    /\ application = NoApplication /\ target = None /\ report = "none" /\ render = None
    /\ touches = 0

DressRests ==
    /\ DressInit
    /\ lead = (CHOOSE frames \in Leads : TRUE) /\ asset = (CHOOSE a \in Assets : TRUE)

Init ==
    \/ desk = "cut" /\ CutInit /\ TakeRests /\ DeliveryInit /\ DressRests
    \/ desk = "take" /\ TakeInit /\ CutRests /\ DeliveryInit /\ DressRests
    \/ desk = "delivery" /\ DeliveryInit /\ CutRests /\ TakeRests /\ DressRests
    \/ desk = "dress" /\ DressInit /\ CutRests /\ TakeRests /\ DeliveryInit

Next ==
    /\ UNCHANGED desk
    /\ \/ desk = "cut" /\ CutNext /\ UNCHANGED <<takeVars, deliveryVars, dressVars>>
       \/ desk = "take" /\ TakeNext /\ UNCHANGED <<cutVars, deliveryVars, dressVars>>
       \/ desk = "delivery" /\ DeliveryNext /\ UNCHANGED <<cutVars, takeVars, dressVars>>
       \/ desk = "dress" /\ DressNext /\ UNCHANGED <<cutVars, takeVars, deliveryVars>>

Spec == Init /\ [][Next]_vars

-----------------------------------------------------------------------------
(* Properties *)

\* What is on a timeline was approved: of a talk nothing that the approved plan
\* cuts (pause_compaction.py), of the takes the approved ones, each once and in
\* its approved range (take_sequence_timeline_apply.py), over a film the B-roll
\* and the animation that were reviewed, and the graded film is that one in full
\* (broll.py, animation_workflow.py, color_workflow.py).
ShownWasApproved == OnlyKeptIsShown /\ TakesAreApproved /\ DressedAsAgreed

\* No word is lost: all the speech of a talk whose proposed cuts were approved is
\* on its timeline (audio_analysis.detect_pauses, rough_cut.create_plan), unless its
\* offset is negative or its windows are no whole number of samples: in both cases
\* the code cuts into words.
NoWordIsLost == OnlySilenceIsCut

\* Picture and sound stay as far apart as the offset they were paired with puts them
\* (synchronized_pair.py), and the clips do not drift from the times they were
\* reviewed with, whatever the frame rates.  That is together only for an offset that
\* is minus the webcam's lead; the estimate returns the lead itself.
StaysInStep == InStep /\ TakesInStep

\* No plan asks for a frame that its recording does not have.
FramesExist == CutFramesExist /\ TakeFramesExist /\ CoverFramesExist

\* The file of a run that is reported complete is a render of the timeline that
\* the run inspected, with the voice of that timeline (baseline_edit.status,
\* finalized_audio_integration.py, finalized_render_execution.py), whatever else
\* is rendered under the same names, unless the user came in between.
DeliveredWasInspected == VoiceIsItsOwn /\ CompleteWasInspected
=============================================================================
