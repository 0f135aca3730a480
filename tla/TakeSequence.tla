----------------------------- MODULE TakeSequence -----------------------------
(***************************************************************************)
(* From several takes of a shot to a timeline of the approved ones, and to *)
(* its render.  A selection compares takes, a review approves one of them, *)
(* a sequence is a list of approved takes, a binding says in which files   *)
(* they are, a mapping turns it into frames, the import brings the files   *)
(* into the Media Pool, the application puts the frames on an empty copy   *)
(* of a timeline, a quality report and its review allow the render.        *)
(*                                                                         *)
(* Every document names the one before by the hash of its content, so the  *)
(* documents are values here and a tampered one does not exist.  What the  *)
(* hashes do not hold is the rest of the world: the user may replace a     *)
(* file, fill the Media Pool or edit a timeline between any two stages,    *)
(* and two servers may review at once.  A preview, which only reads, is    *)
(* one step.  How the import, the application and the render are carried   *)
(* out and replayed command by command is TimelineWorkflows' matter.       *)
(***************************************************************************)
EXTENDS FrameArithmetic, FiniteSets, Sequences, FiniteSetsExt

CONSTANTS
    Paths,          \* files that takes are in
    NameOf,         \* the name of a file without its folder
    Contents,       \* what a file may contain; stands for its fingerprint
    MediaOf,        \* content -> [frames, rate, sound]
    Shots,          \* the sets of [id, path, range] a caller may compare
    Tolerance,      \* SOURCE_DURATION_TOLERANCE_SECONDS, in ticks
    TimelineRates,  \* rates the target timeline may have
    MaxReviewers,   \* servers that review at the same time
    MaxTouches,     \* bound on what the user replaces and edits
    MaxSelections, MaxBindings,     \* bounds on the stored documents
    FirstFiles,     \* what the files contain at the beginning
    None            \* no document, nobody

Whole == [start |-> 0, end |-> 0]       \* a candidate without a source range

ASSUME TakeAssumption ==
    /\ MediaOf \in [Contents -> [frames: Nat \ {0}, rate: Nat \ {0}, sound: BOOLEAN]]
    /\ Paths = DOMAIN NameOf
    /\ \A shot \in Shots :
          /\ IsFiniteSet(shot) /\ \E c, d \in shot : c.id # d.id
          /\ \A c \in shot :
                /\ c.path \in Paths /\ c.range \in [start: Nat, end: Nat]
                /\ c.range = Whole \/ c.range.start < c.range.end
    /\ {Tolerance, MaxReviewers, MaxTouches, MaxSelections, MaxBindings} \subseteq Nat
    /\ FirstFiles \subseteq [Paths -> Contents]
    /\ TimelineRates \subseteq Nat \ {0}

VARIABLES
    files,          \* what the files contain
    analysis,       \* a comparison whose takes are measured and not yet hashed
    selections,     \* the stored comparisons: sets of takes
    reviewing,      \* reviews that found no other one and are about to be written
    reviews,        \* the stored review of a selection
    everApproved,   \* the takes that a stored review approved at some time
    sequence,       \* the approved takes in their order
    binding,        \* a binding whose private half is written
    private, public,    \* the halves of the stored bindings
    pool,           \* the Media Pool: [name, path]
    targetRate,     \* rate of the timeline that is copied
    untouched,      \* that timeline is empty
    importing,      \* an import that is checked and not carried out
    imported,       \* the import receipt
    application,    \* the receipt of the application, with its plan
    target,         \* the items on the new timeline
    report,         \* the quality report and its review
    render,         \* what the render was started on
    touches

takeVars == <<files, analysis, selections, reviewing, reviews, everApproved, sequence,
              binding, private, public, pool, targetRate, untouched, importing,
              imported, application, target, report, render, touches>>
documents == <<selections, reviewing, reviews, everApproved, sequence, binding, private, public>>
project == <<pool, targetRate, untouched, importing, imported, application, target, report, render>>

-----------------------------------------------------------------------------
(* Takes *)

DurationOf(content) == ToTicks(MediaOf[content].frames, MediaOf[content].rate)

\* _resolved_bounds
InFile(range, content) ==
    range # Whole =>
        range.start < DurationOf(content) /\ range.end <= DurationOf(content) + Tolerance

\* _entry: a take as a selection, a sequence and a binding describe it.
Take(candidate, content) ==
    [id |-> candidate.id, name |-> NameOf[candidate.path], print |-> content,
     range |-> candidate.range]

\* What can be approved of a selection: one take, or nothing.
Verdicts(selection) == selection \cup {None}

-----------------------------------------------------------------------------
(* A binding as frames of the sources and of the timeline *)

\* Seeded fault in Resolves: the files of a binding are not read again.
ResolvesUnread(b) == TRUE

\* resolve_sources: every file still has the name and the content of its take.
Resolves(b) == \A i \in DOMAIN b : files[b[i].path] = b[i].take.print

\* get: both halves are there.
Readable(b) == b \in private /\ b \in public

\* Seeded fault in Used: a range that ends after its file is not clamped.
UsedUnclamped(source) ==
    IF source.take.range = Whole THEN [start |-> 0, end |-> DurationOf(files[source.path])]
    ELSE source.take.range

\* _source_range: the part of a file that is used.
Used(source) ==
    LET duration == DurationOf(files[source.path]) IN
    IF source.take.range = Whole THEN [start |-> 0, end |-> duration]
    ELSE [start |-> source.take.range.start,
          end |-> IF source.take.range.end < duration THEN source.take.range.end ELSE duration]

FirstFrame(source) == ToFrames(Used(source).start, MediaOf[files[source.path]].rate)
EndFrame(source) == ToFrames(Used(source).end, MediaOf[files[source.path]].rate)
OnTimeline(source) ==
    LET filled == Refit(EndFrame(source) - FirstFrame(source),
                        MediaOf[files[source.path]].rate, targetRate)
    IN  IF filled < 1 THEN 1 ELSE filled

\* A range must lie in its file and show at least one frame of it.
Fits(source) ==
    /\ source.take.range # Whole =>
          source.take.range.end <= DurationOf(files[source.path]) + Tolerance
    /\ Used(source).start < Used(source).end /\ FirstFrame(source) < EndFrame(source)

\* A clip begins where those before it end.
PositionOf(b, i) == Sums([j \in DOMAIN b |-> OnTimeline(b[j])])[i - 1]

\* TakeSequenceTimelineMappingWorkflow.preview: one after the other, in the
\* order of the binding's list; nothing when a check fails.
Mapping(b) ==
    IF Readable(b) /\ Resolves(b) /\ \A i \in DOMAIN b : Fits(b[i])
    THEN [i \in DOMAIN b |->
            [order |-> b[i].order, take |-> b[i].take,
             rate |-> MediaOf[files[b[i].path]].rate,
             from |-> FirstFrame(b[i]), to |-> EndFrame(b[i]) - 1,
             position |-> PositionOf(b, i),
             length |-> OnTimeline(b[i])]]
    ELSE <<>>

PathOf(b, print) == b[CHOOSE i \in DOMAIN b : b[i].take.print = print].path

\* _unique_sources, _private_sources: a content has one name and is in one file.
Unambiguous(b) ==
    \A i, j \in DOMAIN b : b[i].take.print = b[j].take.print => b[i].path = b[j].path

\* No source has the name of another one or of something in the Media Pool.
ImportReady(b) ==
    /\ \A i, j \in DOMAIN b : b[i].take.name = b[j].take.name => b[i].take.print = b[j].take.print
    /\ \A i \in DOMAIN b : b[i].take.name \notin {asset.name : asset \in pool}

\* _verify_metadata: what Resolve imported covers the frames that are asked for.
Covers(mapping, b) ==
    \A i \in DOMAIN mapping :
        LET media == MediaOf[files[PathOf(b, mapping[i].take.print)]]
        IN  media.frames > mapping[i].to /\ media.rate = mapping[i].rate

\* The items that a plan puts on the new timeline.
Items(plan) ==
    {[track |-> "video", clip |-> plan[i]] : i \in DOMAIN plan}
    \cup {[track |-> "audio", clip |-> plan[i]] : i \in {j \in DOMAIN plan : plan[j].sound}}

-----------------------------------------------------------------------------

NoApplication == [status |-> "none", plan |-> <<>>, calling |-> FALSE]
NoImport == [binding |-> <<>>, mapping |-> <<>>]

TakeTypeOK ==
    /\ files \in [Paths -> Contents] /\ targetRate \in TimelineRates
    /\ \A s \in selections : Cardinality(s) >= 2 /\ {t.print : t \in s} \subseteq Contents
    /\ DOMAIN reviews \subseteq selections
    /\ \A s \in DOMAIN reviews : reviews[s] \in Verdicts(s)
    /\ public \subseteq private
    /\ binding # None => binding \in private \ public
    /\ importing # NoImport => importing.mapping # <<>>
    /\ application.status \in {"none", "in_progress", "applied"}
    /\ application.calling => application.status = "in_progress"
    /\ report \in {"none", "ready", "approve", "reject"}
    /\ report # "none" => application.status = "applied"
    /\ touches \in 0 .. MaxTouches

TakeInit ==
    /\ files \in FirstFiles /\ targetRate \in TimelineRates
    /\ analysis = None /\ selections = {} /\ reviewing = {} /\ reviews = <<>>
    /\ everApproved = {} /\ sequence = <<>>
    /\ binding = None /\ private = {} /\ public = {}
    /\ pool = {} /\ untouched = TRUE /\ importing = NoImport /\ imported = NoImport
    /\ application = NoApplication /\ target = None
    /\ report = "none" /\ render = None /\ touches = 0

-----------------------------------------------------------------------------
(* Selecting *)

\* analyze, analyze_scripted: the takes are measured,
Measure ==
    /\ analysis = None /\ Cardinality(selections) < MaxSelections
    /\ sequence = <<>>       \* later selections are of no further use
    /\ \E shot \in Shots :
          /\ \A c \in shot : InFile(c.range, files[c.path])
          /\ analysis' = shot
    /\ UNCHANGED <<files, documents, project, touches>>

\* and hashed after that.
Select ==
    /\ analysis # None
    /\ selections' = selections \cup {{Take(c, files[c.path]) : c \in analysis}}
    /\ analysis' = None
    /\ UNCHANGED <<files, reviewing, reviews, everApproved, sequence, binding,
                   private, public, project, touches>>

\* review, up to the look for an earlier one.
BeginReview ==
    /\ Cardinality(reviewing) < MaxReviewers /\ sequence = <<>>
    /\ \E s \in selections \ DOMAIN reviews : \E choice \in Verdicts(s) :
          reviewing' = reviewing \cup {[of |-> s, choice |-> choice]}
    /\ UNCHANGED <<files, analysis, selections, reviews, everApproved, sequence,
                   binding, private, public, project, touches>>

\* The file of the review is written, whatever is there by now.
WriteReview ==
    /\ \E r \in reviewing :
          /\ reviewing' = reviewing \ {r}
          /\ reviews' = [s \in DOMAIN reviews \cup {r.of} |->
                            IF s = r.of THEN r.choice ELSE reviews[s]]
          /\ everApproved' = everApproved \cup ({r.choice} \ {None})
    /\ UNCHANGED <<files, analysis, selections, sequence, binding, private, public,
                   project, touches>>

Approved(s) == s \in DOMAIN reviews /\ reviews[s] # None

\* compose: approved selections, none of them twice, in the caller's order.
Compose ==
    /\ sequence = <<>>
    /\ \E n \in 1 .. Cardinality(selections) : \E list \in [1 .. n -> selections] :
          /\ \A i, j \in 1 .. n : i # j => list[i] # list[j]
          /\ \A i \in 1 .. n : Approved(list[i])
          /\ sequence' = [i \in 1 .. n |-> reviews[list[i]]]
    /\ UNCHANGED <<files, analysis, selections, reviewing, reviews, everApproved,
                   binding, private, public, project, touches>>

-----------------------------------------------------------------------------
(* Binding *)

\* The caller lists every entry of the sequence once, in any order, with a file.
Sources ==
    {b \in [DOMAIN sequence -> [order: DOMAIN sequence, path: Paths, take: {sequence[i] : i \in DOMAIN sequence}]] :
        /\ {b[i].order : i \in DOMAIN b} = DOMAIN sequence
        /\ \A i \in DOMAIN b :
              /\ b[i].take = sequence[b[i].order]
              /\ NameOf[b[i].path] = b[i].take.name /\ files[b[i].path] = b[i].take.print}

\* Seeded fault in BeginBind: the public half is written first.
BeginBindPublic ==
    /\ binding = None /\ sequence # <<>> /\ Cardinality(private) < MaxBindings
    /\ \E b \in Sources \ (private \cup public) : public' = public \cup {b} /\ binding' = b
    /\ UNCHANGED <<files, analysis, selections, reviewing, reviews, everApproved,
                   sequence, private, project, touches>>

\* bind: the private half is written, then the public one.  A binding that has
\* either is only read.
BeginBind ==
    /\ binding = None /\ sequence # <<>> /\ Cardinality(private) < MaxBindings
    /\ \E b \in Sources \ (private \cup public) : private' = private \cup {b} /\ binding' = b
    /\ UNCHANGED <<files, analysis, selections, reviewing, reviews, everApproved,
                   sequence, public, project, touches>>

FinishBind ==
    /\ binding # None
    /\ public' = public \cup {binding} /\ binding' = None
    /\ UNCHANGED <<files, analysis, selections, reviewing, reviews, everApproved,
                   sequence, private, project, touches>>

\* The server dies between the two.
LoseBind ==
    /\ binding # None
    /\ binding' = None
    /\ UNCHANGED <<files, analysis, selections, reviewing, reviews, everApproved,
                   sequence, private, public, project, touches>>

-----------------------------------------------------------------------------
(* Importing *)

\* TakeSequenceMediaImporter.apply, up to the command: the plan is the one that
\* was reviewed, and nothing has the name of a source.
BeginImport ==
    /\ importing = NoImport /\ imported = NoImport
    /\ \E b \in public :
          /\ Mapping(b) # <<>> /\ Unambiguous(b) /\ ImportReady(b)
          /\ importing' = [binding |-> b, mapping |-> Mapping(b)]
    /\ UNCHANGED <<files, analysis, documents, pool, targetRate, untouched, imported,
                   application, target, report, render, touches>>

\* Resolve imports the files; there is a receipt when they cover the plan.
FinishImport ==
    /\ importing # NoImport
    /\ LET b == importing.binding IN
          /\ pool' = pool \cup {[name |-> b[i].take.name, path |-> b[i].path] : i \in DOMAIN b}
          /\ imported' = IF Covers(importing.mapping, b) THEN importing ELSE NoImport
    /\ importing' = NoImport
    /\ UNCHANGED <<files, analysis, documents, targetRate, untouched, application, target,
                   report, render, touches>>

-----------------------------------------------------------------------------
(* Applying *)

\* _preview: the import receipt is about the mapping as it is now, the timeline
\* to be copied is empty, and every clip is longer than one frame.
Plan ==
    LET m == Mapping(imported.binding) IN
    IF /\ imported # NoImport /\ m = imported.mapping /\ untouched
       /\ \A i \in DOMAIN m : m[i].from < m[i].to
    THEN [i \in DOMAIN m |->
            LET path == PathOf(imported.binding, m[i].take.print) IN
            [order |-> m[i].order, take |-> m[i].take, rate |-> m[i].rate,
             from |-> m[i].from, to |-> m[i].to, position |-> m[i].position,
             length |-> m[i].length, shows |-> files[path], sound |-> MediaOf[files[path]].sound]]
    ELSE <<>>

\* apply up to its first command: the name of the new timeline is free, or the
\* interrupted application had the same plan.
BeginApply ==
    /\ ~application.calling /\ application.status # "applied"
    /\ Plan # <<>>
    /\ application.status = "none" => target = None
    /\ application.status = "in_progress" => application.plan = Plan
    /\ application' = [status |-> "in_progress", plan |-> Plan, calling |-> TRUE]
    /\ UNCHANGED <<files, analysis, documents, pool, targetRate, untouched, importing,
                   imported, target, report, render, touches>>

\* The commands that have not been carried out yet are, and both timelines are
\* read back.
FinishApply ==
    /\ application.calling
    /\ target' = IF target = None THEN Items(application.plan) ELSE target
    /\ application' = [application EXCEPT !.calling = FALSE,
          !.status = IF target' = Items(application.plan) /\ untouched THEN "applied" ELSE @]
    /\ UNCHANGED <<files, analysis, documents, pool, targetRate, untouched, importing,
                   imported, report, render, touches>>

\* get: the timelines are still what the receipt says.
StillApplied ==
    /\ application.status = "applied"
    /\ target = Items(application.plan) /\ untouched

-----------------------------------------------------------------------------
(* Quality review and render *)

\* inspect: the clips follow each other without a gap.
Contiguous(plan) ==
    \A i \in DOMAIN plan :
        plan[i].position = (IF i = 1 THEN 0 ELSE plan[i - 1].position + plan[i - 1].length)

Inspect ==
    /\ report = "none" /\ StillApplied /\ Contiguous(application.plan)
    /\ report' = "ready"
    /\ UNCHANGED <<files, analysis, documents, pool, targetRate, untouched, importing,
                   imported, application, target, render, touches>>

ReviewReport ==
    /\ report = "ready" /\ StillApplied
    /\ report' \in {"approve", "reject"}
    /\ UNCHANGED <<files, analysis, documents, pool, targetRate, untouched, importing,
                   imported, application, target, render, touches>>

\* start: the evidence is read again; the job is prepared and started after that.
BeginRender ==
    /\ render = None
    /\ report = "approve" /\ StillApplied
    /\ render' = [started |-> FALSE, reviewed |-> target]
    /\ UNCHANGED <<files, analysis, documents, pool, targetRate, untouched, importing,
                   imported, application, target, report, touches>>

StartRender ==
    /\ render # None /\ ~render.started
    /\ render' = [render EXCEPT !.started = TRUE]
    /\ UNCHANGED <<files, analysis, documents, pool, targetRate, untouched, importing,
                   imported, application, target, report, touches>>

-----------------------------------------------------------------------------
(* The user *)

Touch == touches < MaxTouches /\ touches' = touches + 1

ReplaceFile ==
    /\ Touch
    /\ \E p \in Paths : \E c \in Contents \ {files[p]} : files' = [files EXCEPT ![p] = c]
    /\ UNCHANGED <<analysis, documents, project>>

\* Something with the name of a take is imported by hand.
FillPool ==
    /\ Touch /\ importing = NoImport /\ imported = NoImport
    /\ \E p \in Paths : pool' = pool \cup {[name |-> NameOf[p], path |-> p]}
    /\ UNCHANGED <<files, analysis, documents, targetRate, untouched, importing, imported,
                   application, target, report, render>>

\* A timeline is edited, or its rate is changed while it is empty.
EditTimeline ==
    /\ Touch /\ imported # NoImport
    /\ \/ untouched' = ~untouched /\ UNCHANGED <<targetRate, target>>
       \/ untouched /\ targetRate' \in TimelineRates \ {targetRate} /\ UNCHANGED <<untouched, target>>
       \/ /\ target # None
          /\ \E item \in target : target' = target \ {item}
          /\ UNCHANGED <<untouched, targetRate>>
    /\ UNCHANGED <<files, analysis, documents, pool, importing, imported, application,
                   report, render>>

TakeNext ==
    \/ Measure \/ Select \/ BeginReview \/ WriteReview \/ Compose
    \/ BeginBind \/ FinishBind \/ LoseBind
    \/ BeginImport \/ FinishImport \/ BeginApply \/ FinishApply
    \/ Inspect \/ ReviewReport \/ BeginRender \/ StartRender
    \/ ReplaceFile \/ FillPool \/ EditTimeline

TakeSpec == TakeInit /\ [][TakeNext]_takeVars

-----------------------------------------------------------------------------
(* What is to hold *)

\* TakesAreApproved: what a plan puts on the timeline are the approved takes of
\* the sequence, each once, with no frame before or after the approved range but
\* for half a frame, from files that have the approved content when the plan is
\* made; and what a render is started on passed this and the quality review.
WithinRange(clip) ==
    clip.take.range # Whole =>
        /\ 2 * clip.from * Second >= 2 * clip.take.range.start * clip.rate - Second
        /\ 2 * (clip.to + 1) * Second <= 2 * clip.take.range.end * clip.rate + Second
TakesAreApproved ==
    LET plan == application.plan IN
    /\ \A i \in DOMAIN plan :
          /\ plan[i].take \in everApproved /\ plan[i].shows = plan[i].take.print
          /\ WithinRange(plan[i])
    /\ plan # <<>> =>
          \A n \in DOMAIN sequence :
              Cardinality({i \in DOMAIN plan : plan[i].order = n /\ plan[i].take = sequence[n]}) = 1
    /\ render # None => report = "approve" /\ render.reviewed = Items(plan)

\* TakesInStep: a clip begins where the durations of the clips before it say, to
\* within the rounding of each of them.
Slack(clip) == 1 + 2 * ((targetRate + clip.rate - 1) \div clip.rate)
TakesInStep ==
    \A b \in public :
        LET m == Mapping(b)
            before(i) == Sums([j \in DOMAIN b |-> Used(b[j]).end - Used(b[j]).start])[i - 1]
            slack(i) == Sums([j \in DOMAIN m |-> Slack(m[j])])[i - 1]
        IN  \A i \in DOMAIN m :
               LET apart == 2 * (m[i].position * Second - before(i) * targetRate)
               IN  -slack(i) * Second <= apart /\ apart <= slack(i) * Second

\* TakeFramesExist: a mapping asks for frames that the approved file has, and an
\* import receipt for frames that the imported file has.
TakeFramesExist ==
    \A b \in public :
        LET m == Mapping(b) IN
        \A i \in DOMAIN m :
            0 <= m[i].from /\ m[i].from <= m[i].to /\ m[i].to < MediaOf[m[i].take.print].frames
=============================================================================
