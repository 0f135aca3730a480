------------------------------- MODULE RoughCut -------------------------------
(***************************************************************************)
(* From the recording of a talk to a timeline without its pauses.  Each    *)
(* stage writes a document that the next one reads: create_plan proposes   *)
(* the cuts, approve binds a review to the content of the plan file,       *)
(* assemble lays the two recordings side by side, the compaction previews  *)
(* what is kept as frames of the sources and of a new timeline, records    *)
(* the preview and inserts it, finalize links and frames what was          *)
(* inserted.  Between any two stages the user may edit the plan file,      *)
(* relink a recording or change the rate of the timeline.                  *)
(*                                                                         *)
(* How each insertion is carried out and replayed is TimelineWorkflows'    *)
(* matter; here the stages are whole, except that the compaction may be    *)
(* interrupted between its receipt and its insertion.                      *)
(***************************************************************************)
EXTENDS FrameArithmetic, FiniteSets, Sequences, SequencesExt, FiniteSetsExt

CONSTANTS
    Window,         \* window_ms: what an analysis window is taken to last, in ticks
    Windows,        \* number of windows of the speech recording
    SampleRates,    \* rates its sound may be sampled with
    MinPause,       \* min_pause_duration_ms
    Context,        \* preserve_context_ms
    MinOverlap,     \* MIN_SYNC_OVERLAP_WINDOWS
    Silences,       \* the sets of silent windows a recording may have
    Offsets,        \* webcam offsets, in ticks
    WebcamLead,     \* what happens at t of the screen's file is at t + WebcamLead of the webcam's
    Recordings,     \* what a recording may be: [frames, rate]
    Rates,          \* rates of the paired timeline
    MaxPairs        \* bound on the pairs that are assembled

ASSUME CutAssumption ==
    /\ Window \in Nat \ {0} /\ Windows \in Nat \ {0} /\ MinOverlap \in Nat /\ MaxPairs \in Nat
    /\ MinPause \in Nat /\ MinPause >= Window /\ Context \in Nat
    /\ Silences \subseteq SUBSET (0 .. Windows - 1)
    /\ SampleRates \subseteq Nat \ {0}
    /\ Offsets \subseteq Int /\ WebcamLead \in Int
    /\ Recordings \subseteq [frames: Nat \ {0, 1}, rate: Nat \ {0}]
    /\ Rates \subseteq Nat \ {0}

VARIABLES
    speech,         \* the speech recording: its silent windows, sample rate, duration
    footage,        \* what the media pool says of the two recordings
    rate,           \* rate of the paired timeline
    plan,           \* content of the plan file
    approval,       \* the plan content that the approval file is about
    pairs,          \* offsets with an applied receipt of a synchronized pair
    layouts, links, \* pairs that have an applied layout, applied links
    compaction,     \* the receipt of the compaction
    compacting,     \* a call is between its receipt and its insertion
    inserted,       \* the placements on the new timeline
    finalized       \* what the finalization linked and framed

cutVars == <<speech, footage, rate, plan, approval, pairs, layouts, links,
             compaction, compacting, inserted, finalized>>

Roles == {"screen_video", "screen_audio", "webcam_video"}
RecordingOf == [role \in Roles |-> IF role = "webcam_video" THEN "webcam" ELSE "screen"]

Largest(a, b) == IF a >= b THEN a ELSE b
Smallest(a, b) == IF a <= b THEN a ELSE b

-----------------------------------------------------------------------------
(* The pauses of a recording and the cuts they suggest *)

\* Seeded fault in DetectPauses: a pause ends with the window after it.
DetectLongPauses(s) ==
    {pause \in {[start |-> run[1] * Window, end |-> (run[2] + 1) * Window] :
                run \in {r \in (0 .. Windows - 1) \X (1 .. Windows) :
                            /\ r[1] < r[2] /\ r[1] .. r[2] - 1 \subseteq s.silent
                            /\ r[1] - 1 \notin s.silent /\ r[2] \notin s.silent}} :
        pause.end - pause.start >= MinPause}

\* read_pcm_wav_envelope: a window is a whole number of samples, rounded down, and
\* the duration is rounded to a tick, a half to the even one.
WindowSamples(sampleRate) == Largest(1, (sampleRate * Window) \div Second)
WavDuration(samples, sampleRate) ==
    LET up == ToTicks(samples, sampleRate)
        half == (2 * samples * Second + sampleRate) % (2 * sampleRate) = 0
    IN  IF half /\ up % 2 = 1 THEN up - 1 ELSE up

\* detect_pauses: the longest runs of silent windows, in times that take every window
\* to be as long as Window says; the last one may be shorter.
Runs(s) == {run \in (0 .. Windows - 1) \X (1 .. Windows) :
    /\ run[1] < run[2] /\ run[1] .. run[2] - 1 \subseteq s.silent
    /\ run[1] - 1 \notin s.silent /\ run[2] \notin s.silent}

DetectPauses(s) ==
    {pause \in {[start |-> run[1] * Window, end |-> Smallest(run[2] * Window, s.duration)]
                    : run \in Runs(s)} :
        pause.end - pause.start >= MinPause}

\* In the order of their starts.
InOrder(cuts) ==
    [i \in 1 .. Cardinality(cuts) |->
        CHOOSE c \in cuts : Cardinality({d \in cuts : d.start < c.start}) = i - 1]

\* Every pause keeps some silence on either side.
ProposedCuts(s) ==
    LET shrunk == {[start |-> p.start + Context, end |-> p.end - Context] : p \in DetectPauses(s)}
    IN  InOrder({c \in shrunk : c.start < c.end})

\* estimate_sync_offset takes the lag of the best score; any lag whose windows
\* overlap enough may have it.  The right one is WebcamLead: windows i of the screen
\* and i + lag of the webcam are compared.
Lags(s) == {o \in Offsets : Windows - (IF o < 0 THEN -o ELSE o) \div Window >= MinOverlap}

-----------------------------------------------------------------------------
(* What a plan keeps *)

NoPlan == [offset |-> 0, cuts |-> <<>>, written |-> FALSE]

\* Where each recording begins on the common clock, and on a pair's timeline: the
\* webcam by the offset later than the screen.
StartOf(offset, recording) ==
    IF recording = "screen" THEN Largest(0, -offset) ELSE Largest(0, offset)
PairPosition(offset, recording, target) == ToFrames(StartOf(offset, recording), target)
Length(r) == ToTicks(r.frames, r.rate)
SourceDuration(offset, media) ==
    Largest(StartOf(offset, "screen") + Length(media.screen),
            StartOf(offset, "webcam") + Length(media.webcam))

\* The cuts must be in order, apart and inside the sources.
CutsValid(cuts, duration) ==
    \A i \in DOMAIN cuts :
        /\ cuts[i].start >= (IF i = 1 THEN 0 ELSE cuts[i - 1].end)
        /\ cuts[i].start < cuts[i].end /\ cuts[i].end <= duration

\* What the cuts before interval i take away.
Removed(cuts, i) == Sums([j \in DOMAIN cuts |-> cuts[j].end - cuts[j].start])[i - 1]

\* _timeline_intervals: what lies between the cuts, and how far it moves
\* forward.  Interval i lies after cut i - 1 and before cut i.
Kept(cuts, duration) ==
    LET n == Len(cuts)
        after(i) == IF i = 1 THEN 0 ELSE cuts[i - 1].end
        before(i) == IF i = n + 1 THEN duration ELSE cuts[i].start
    IN  {[start |-> after(i), end |-> before(i), output |-> after(i) - Removed(cuts, i)]
            : i \in {j \in 1 .. n + 1 : after(j) < before(j)}}

\* Seeded fault in Placement: a recording that begins inside an interval is put
\* where the interval begins.
PlacementAtStart(interval, role, offset, media, target) ==
    LET asset == media[RecordingOf[role]]
        start == StartOf(offset, RecordingOf[role])
        from == Largest(interval.start, start)
        to == Smallest(interval.end, start + Length(asset))
    IN  [segment |-> interval.start, role |-> role, rate |-> asset.rate, shown |-> from < to,
         from |-> ToFrames(from - start, asset.rate),
         to |-> ToFrames(to - start, asset.rate) - 1,
         position |-> ToFrames(interval.output, target)]

\* _placements: the part of each recording that an interval shows, as frames of
\* the source and of the new timeline.  What is shorter than two frames is left
\* out.
Placement(interval, role, offset, media, target) ==
    LET asset == media[RecordingOf[role]]
        start == StartOf(offset, RecordingOf[role])
        from == Largest(interval.start, start)
        to == Smallest(interval.end, start + Length(asset))
    IN  [segment |-> interval.start, role |-> role, rate |-> asset.rate, shown |-> from < to,
         from |-> ToFrames(from - start, asset.rate),
         to |-> ToFrames(to - start, asset.rate) - 1,
         position |-> ToFrames(interval.output + from - interval.start, target)]

Placements(intervals, offset, media, target) ==
    {p \in {Placement(i, role, offset, media, target) : i \in intervals, role \in Roles} :
        p.shown /\ p.to > p.from}

\* PauseCompactionPreviewer.preview
Preview(content, media, target) ==
    LET duration == SourceDuration(content.offset, media)
    IN  IF CutsValid(content.cuts, duration)
        THEN Placements(Kept(content.cuts, duration), content.offset, media, target)
        ELSE {}

\* _target_items: the screen's picture and sound of a segment are linked, the
\* webcam's picture is framed.
OfRole(placements, role) == {p \in placements : p.role = role}
Linked(placements) ==
    {{p, q} : p \in OfRole(placements, "screen_video"), q \in OfRole(placements, "screen_audio")}
LinkGroups(placements) ==
    {g \in Linked(placements) : Cardinality({p.segment : p \in g}) = 1}
PairsComplete(placements) ==
    {p.segment : p \in OfRole(placements, "screen_video")}
        = {p.segment : p \in OfRole(placements, "screen_audio")}

NoFinal == [links |-> {}, framed |-> {}]
NoCompaction == [status |-> "none", offset |-> 0, rate |-> 0, preview |-> {}]

CutTypeOK ==
    /\ speech \in [silent: Silences, sampleRate: SampleRates, duration: Nat]
    /\ footage \in [screen: Recordings, webcam: Recordings] /\ rate \in Rates
    /\ plan.written \in BOOLEAN /\ approval.written \in BOOLEAN
    /\ approval.written => plan.written
    /\ pairs \subseteq Offsets /\ layouts \subseteq pairs /\ links \subseteq pairs
    /\ compaction.status \in {"none", "in_progress", "applied"}
    /\ compacting \in BOOLEAN
    /\ compacting => compaction.status = "in_progress"
    /\ inserted # {} => compaction.status = "applied" /\ inserted = compaction.preview

CutInit ==
    /\ \E silent \in Silences, sampleRate \in SampleRates :
          LET window == WindowSamples(sampleRate)
          IN  \E samples \in {Windows * window, Windows * window - window \div 2} :
                 speech = [silent |-> silent, sampleRate |-> sampleRate,
                           duration |-> WavDuration(samples, sampleRate)]
    /\ footage \in [screen: Recordings, webcam: Recordings]
    /\ rate \in Rates
    /\ plan = NoPlan /\ approval = NoPlan
    /\ pairs = {} /\ layouts = {} /\ links = {}
    /\ compaction = NoCompaction /\ compacting = FALSE
    /\ inserted = {} /\ finalized = NoFinal

-----------------------------------------------------------------------------
(* The stages *)

\* The plan's name is derived from its content when it is made; a plan that is
\* already there is returned as it is.
CreatePlan ==
    /\ ~plan.written
    /\ \E o \in Lags(speech) :
          plan' = [offset |-> o, cuts |-> ProposedCuts(speech), written |-> TRUE]
    /\ UNCHANGED <<speech, footage, rate, approval, pairs, layouts, links,
                   compaction, compacting, inserted, finalized>>

\* approve, once; an approval of other content is an error.
Approve ==
    /\ plan.written /\ ~approval.written
    /\ approval' = plan
    /\ UNCHANGED <<speech, footage, rate, plan, pairs, layouts, links,
                   compaction, compacting, inserted, finalized>>

\* assemble: the caller names the offset.
Assemble ==
    /\ Cardinality(pairs) < MaxPairs
    /\ \E o \in Offsets \ pairs : pairs' = pairs \cup {o}
    /\ UNCHANGED <<speech, footage, rate, plan, approval, layouts, links,
                   compaction, compacting, inserted, finalized>>

\* link and compose on the timeline of a pair.
Style ==
    /\ \E o \in pairs :
          \/ o \notin layouts /\ layouts' = layouts \cup {o} /\ UNCHANGED links
          \/ o \notin links /\ links' = links \cup {o} /\ UNCHANGED layouts
    /\ UNCHANGED <<speech, footage, rate, plan, approval, pairs,
                   compaction, compacting, inserted, finalized>>

\* _approved_plan: the approval speaks of what the file says now.
ApprovalHolds == approval.written /\ approval = plan

\* apply up to its receipt: an interrupted one must find the same preview.
BeginCompaction ==
    /\ ~compacting /\ compaction.status # "applied"
    /\ ApprovalHolds
    /\ plan.offset \in pairs
    /\ LET preview == Preview(plan, footage, rate) IN
          /\ preview # {}
          /\ compaction' = [status |-> "in_progress", offset |-> plan.offset,
                             rate |-> rate, preview |-> preview]
    /\ compaction.status = "in_progress" => compaction' = compaction
    /\ compacting' = TRUE
    /\ UNCHANGED <<speech, footage, rate, plan, approval, pairs, layouts, links, inserted,
                   finalized>>

\* The rest of apply: what the call previewed is inserted and read back.
FinishCompaction ==
    /\ compacting
    /\ inserted' = compaction.preview
    /\ compaction' = [compaction EXCEPT !.status = "applied"]
    /\ compacting' = FALSE
    /\ UNCHANGED <<speech, footage, rate, plan, approval, pairs, layouts, links, finalized>>

Interrupt ==
    /\ compacting
    /\ compacting' = FALSE
    /\ UNCHANGED <<speech, footage, rate, plan, approval, pairs, layouts, links,
                   compaction, inserted, finalized>>

\* finalize: the three receipts are about one pair.
Finalize ==
    /\ finalized = NoFinal
    /\ compaction.status = "applied" /\ compaction.offset \in layouts \cap links
    /\ PairsComplete(inserted)
    /\ LinkGroups(inserted) # {} /\ OfRole(inserted, "webcam_video") # {}
    /\ finalized' = [links |-> LinkGroups(inserted), framed |-> OfRole(inserted, "webcam_video")]
    /\ UNCHANGED <<speech, footage, rate, plan, approval, pairs, layouts, links,
                   compaction, compacting, inserted>>

-----------------------------------------------------------------------------
(* The user *)

\* Another text in the plan file: cuts dropped, in another order, or reaching
\* over what is said; or the proposal again.
Texts(cuts) ==
    {cuts, Reverse(cuts), [i \in DOMAIN cuts |-> [cuts[i] EXCEPT !.end = @ + Window]]}
    \cup (IF cuts = <<>> THEN {} ELSE {Tail(cuts)})

EditPlan ==
    /\ plan.written
    /\ \E cuts \in Texts(ProposedCuts(speech)) \ {plan.cuts} : plan' = [plan EXCEPT !.cuts = cuts]
    /\ UNCHANGED <<speech, footage, rate, approval, pairs, layouts, links,
                   compaction, compacting, inserted, finalized>>

\* A recording is replaced in the media pool, or the timeline gets another rate.
\* Before the first preview CutInit has all of these already.
ChangeMedia ==
    /\ plan.written /\ compaction.status = "in_progress"
    /\ \/ footage' \in [screen: Recordings, webcam: Recordings] /\ UNCHANGED rate
       \/ rate' \in Rates /\ UNCHANGED footage
    /\ <<footage, rate>>' # <<footage, rate>>
    /\ UNCHANGED <<speech, plan, approval, pairs, layouts, links,
                   compaction, compacting, inserted, finalized>>

CutNext ==
    \/ CreatePlan \/ Approve \/ Assemble \/ Style
    \/ BeginCompaction \/ FinishCompaction \/ Interrupt \/ Finalize
    \/ EditPlan \/ ChangeMedia

CutSpec == CutInit /\ [][CutNext]_cutVars

-----------------------------------------------------------------------------
(* What is to hold *)

\* OnlyKeptIsShown: nothing inside a cut of the approved plan is on the new
\* timeline, but for half a frame at its ends, and the pair that the placements
\* were computed for was assembled with the offset of that plan.
ShownOutside(p, cut, start) ==
    \/ 2 * (p.to + 1) * Second <= 2 * (cut.start - start) * p.rate + Second
    \/ 2 * p.from * Second >= 2 * (cut.end - start) * p.rate - Second
OnlyKeptIsShown ==
    \A p \in inserted :
        /\ approval.written /\ approval.offset \in pairs
        /\ \A i \in DOMAIN approval.cuts :
              ShownOutside(p, approval.cuts[i], StartOf(approval.offset, RecordingOf[p.role]))

\* OnlySilenceIsCut: as long as nobody edited the cuts, the recording of the speech
\* starts with the timeline (a negative offset puts the webcam first, and cuts that
\* were made on the speech's own clock then fall on other words), and a window is a
\* whole number of samples (or detect_pauses takes every window for longer than it
\* is), every moment of the screen recording in which somebody speaks is on the new
\* timeline, up to the last that is there.
ExactWindows == (speech.sampleRate * Window) % Second = 0
Speaks(t) ==
    LET sample == (t * speech.sampleRate) \div Second
    IN  sample \div WindowSamples(speech.sampleRate) \in (0 .. Windows - 1) \ speech.silent
OnlySilenceIsCut ==
    inserted # {} /\ approval.cuts = ProposedCuts(speech)
        /\ approval.offset >= 0 /\ ExactWindows =>
        LET sound == OfRole(inserted, "screen_audio")
        IN  \A t \in 0 .. speech.duration - 1, q \in sound :
               Speaks(t) /\ t * q.rate < q.to * Second =>
                   \E p \in sound : p.from * Second <= t * p.rate /\ t * p.rate < (p.to + 1) * Second

\* InStep: where the screen and the webcam show the same part of the recording, the
\* webcam shows what happened earlier, by its offset and by its lead, to within the
\* rounding of each to its frames.  So they are together where the offset is minus
\* the lead, and twice the lead apart where it is the one that a right estimate
\* returns.  A clip covers at most one frame of the clip after it, and where their
\* rate is not that of the timeline, less than one and a half frames and one of the
\* source.
InFront(p) == IF RecordingOf[p.role] = "webcam" THEN WebcamLead ELSE 0
Behind(p) == IF RecordingOf[p.role] = "webcam" THEN compaction.offset + WebcamLead ELSE 0
Shift(p, q) ==      \* moment of the talk minus output time, at p's start
    2 * q.rate * (p.from * Second * compaction.rate - InFront(p) * p.rate * compaction.rate
                    - p.position * Second * p.rate)
Together(p, q) ==
    LET apart == Shift(p, q) - Shift(q, p)
        expected == 2 * p.rate * q.rate * compaction.rate * (Behind(q) - Behind(p))
        slack == Second * (compaction.rate * (p.rate + q.rate) + 2 * p.rate * q.rate)
    IN  expected - slack <= apart /\ apart <= expected + slack
Overrun(p, q) ==
    p.position + Refit(p.to - p.from + 1, p.rate, compaction.rate) - q.position
InStep ==
    /\ \A o \in pairs :
          LET apart == PairPosition(o, "webcam", rate) - PairPosition(o, "screen", rate)
          IN  -Second <= 2 * (apart * Second - o * rate) /\ 2 * (apart * Second - o * rate) <= Second
    /\ \A p, q \in inserted :
          /\ p.segment = q.segment => Together(p, q)
          /\ p.role = q.role /\ p.position < q.position =>
                /\ p.rate = compaction.rate => Overrun(p, q) <= 1
                /\ 2 * p.rate * Overrun(p, q) < 3 * p.rate + 2 * compaction.rate

\* CutFramesExist: a preview of any plan asks for frames that the recordings have.
CutFramesExist ==
    plan.written =>
        \A p \in Preview(plan, footage, rate) :
            0 <= p.from /\ p.from < p.to /\ p.to < footage[RecordingOf[p.role]].frames
=============================================================================
