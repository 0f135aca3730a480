--------------------------- MODULE BridgeActions ---------------------------
(***************************************************************************)
(* The write actions of the Python bridge, call by call: what              *)
(* _execute_write_command of ResolveBridge.py does between its checks and  *)
(* the receipt.  BridgeQueue has an action as one step; here it is the     *)
(* sequence of calls it makes in the scripting interface of Resolve, any   *)
(* of which may be refused, may fail after it took effect, or may claim a  *)
(* success that is not there, while the user goes on working in Resolve.   *)
(*                                                                         *)
(* A behaviour is one request of one action, sent again after a failure (a *)
(* failed action leaves no receipt, so that the same key runs again).  A   *)
(* place, that is a timeline, the Media Pool or the render queue, is a bag *)
(* of parts: items that were added, or the value of a property that is set.*)
(***************************************************************************)
EXTENDS Naturals, Sequences, Functions

CONSTANTS
    None,           \* no timeline
    Wanted,         \* tracks of each type that are asked for
    MaxTries,       \* bound on how often the request is sent
    MaxFaults,      \* bound on calls that do not do what they say
    MaxMoves        \* bound on what the user does during an action

ASSUME ActionsAssumption ==
    /\ {Wanted, MaxTries, MaxFaults, MaxMoves} \subseteq Nat
    /\ Wanted > 0

-----------------------------------------------------------------------------
(* The actions.  A step is a call or a readback, on a part; "value" is the *)
(* value of a property.                                                    *)
(*   needs     what the live project has to be like before the backup      *)
(*   steps     the calls, in order                                         *)
(*   guarded   the steps of the try block                                  *)
(*   finally   the step of its finally clause, or 0                        *)

On(call, what, n, value) == [call |-> call, part |-> <<what, n>>, value |-> value]
Do(call, what) == On(call, what, 1, 1)

Handler(needs, steps, guarded, finally) ==
    [needs |-> needs, steps |-> steps, guarded |-> guarded, finally |-> finally]

Plain(needs, steps) == Handler(needs, steps, {}, 0)

Select == Do("select", "timeline")

ImportNeeds == {"allowed_path"}
ImportMedia == Plain(ImportNeeds, <<Do("import", "file")>>)

CreateTimeline == Plain({}, <<Do("create", "timeline")>>)

ProjectNeeds == {"free_name"}
CreateProject ==
    Plain(ProjectNeeds, <<Do("create", "project"), Do("shown", "project"), Do("save", "project")>>)

TrackNeeds == {"track_counts"}
EnsureTracks ==
    Plain(TrackNeeds, <<Do("count", "video"), Do("track", "video"), Do("track", "audio")>>)

DuplicateNeeds == {"free_name"}
DuplicateTimeline ==
    Plain(DuplicateNeeds, <<Do("copy", "timeline"), Do("listed", "timeline"),
                            Do("reselect", "timeline"), Do("kept", "timeline")>>)

CurrentNeeds == {"selectable"}
SetCurrent == Plain(CurrentNeeds, <<Select, Do("chosen", "timeline")>>)

AppendNeeds == {"media_item"}
AppendClip == Plain(AppendNeeds, <<Select, Do("append", "clip")>>)

TitleNeeds == {"at_or_after_the_end"}
InsertTitle ==
    Handler(TitleNeeds,
            <<Select, Do("cue", "title"), Do("insert", "title"), Do("uncue", "title"),
              Do("exact", "title")>>,
            {3}, 4)

AnimationNeeds == {"template", "at_the_end"}

\* The playhead is read back before the try block.
InsertAnimation ==
    Handler(AnimationNeeds,
            <<Select, Do("cue", "title"), Do("cued", "title"), Do("insert", "title"),
              Do("uncue", "title"), Do("exact", "title")>>,
            {4}, 5)

SubtitleFileNeeds == {"import_receipt"}
AppendSubtitles ==
    Plain(SubtitleFileNeeds, <<Select, Do("append", "subtitle"), Do("more", "subtitle")>>)

InsertClipNeeds == {"open_track"}
InsertClip == Plain(InsertClipNeeds, <<Select, Do("append", "clip")>>)

InsertClipsNeeds == {"open_track"}
InsertClips == Plain(InsertClipsNeeds, <<Select, Do("append", "clip")>>)

SetOne == <<Select, On("set", "property", 1, 1), On("present", "property", 1, 1)>>

EnabledNeeds == {"open_track"}
SetEnabled == Plain(EnabledNeeds, SetOne)

LinkNeeds == {"open_track"}
SetLinked == Plain(LinkNeeds, SetOne)

\* A batch has two elements, each set and read back before the next.
SetEach(batch) ==
    <<Select, On("set", "property", batch[1], 1), On("present", "property", batch[1], 1),
              On("set", "property", batch[2], 2), On("present", "property", batch[2], 2)>>

LinkGroupsNeeds == {"open_track"}
SetLinkGroups(batch) == Plain(LinkGroupsNeeds, SetEach(batch))

TransformNeeds == {"open_track", "position"}
SetTransform == Plain(TransformNeeds, SetOne)

TransformsNeeds == {"open_track", "position"}
SetTransforms(batch) == Plain(TransformsNeeds, SetEach(batch))

GradeEach(batch) ==
    <<Select, On("version", "version", batch[1], 1), On("set", "loaded", batch[1], 1),
              On("set", "grade", batch[1], 1), On("present", "loaded", batch[1], 1),
              On("version", "version", batch[2], 1), On("set", "loaded", batch[2], 1),
              On("set", "grade", batch[2], 1), On("present", "loaded", batch[2], 1)>>

ColorNeeds == {"every_media_item", "open_track"}
ApplyColor(batch) == Plain(ColorNeeds, GradeEach(batch))

DeleteNeeds == {"open_track"}
DeleteClip ==
    Plain(DeleteNeeds, <<Select, On("set", "gone", 1, 1), On("present", "gone", 1, 1)>>)

AddMarker == Plain({}, <<Do("mark", "marker")>>)

CaptionNeeds == {"audio"}
CreateSubtitles == Plain(CaptionNeeds, <<Select, Do("mark", "subtitle"), Do("more", "subtitle")>>)

RenderNeeds == {"directory"}

\* The Deliver page is open for the settings, the job and its readback.
PrepareRender ==
    Handler(RenderNeeds,
            <<Select, Do("open", "job"), Do("settings", "job"), Do("queue", "job"),
              Do("policy", "job"), Do("close", "job")>>,
            {3, 4, 5}, 6)

Handlers(batch) ==
    [create_project |-> CreateProject,
     import_media |-> ImportMedia, create_timeline |-> CreateTimeline,
     ensure_timeline_tracks |-> EnsureTracks, duplicate_timeline |-> DuplicateTimeline,
     set_current_timeline |-> SetCurrent, append_clip |-> AppendClip,
     insert_title |-> InsertTitle, insert_animation_template |-> InsertAnimation,
     append_subtitle_file |-> AppendSubtitles, insert_clip |-> InsertClip,
     insert_clips |-> InsertClips, set_clip_enabled |-> SetEnabled,
     set_clips_linked |-> SetLinked, set_clip_link_groups |-> SetLinkGroups(batch),
     set_clip_transform |-> SetTransform, set_clip_transforms |-> SetTransforms(batch),
     apply_color_preset |-> ApplyColor(batch), delete_clip |-> DeleteClip,
     add_marker |-> AddMarker, create_subtitles_from_audio |-> CreateSubtitles,
     prepare_render_job |-> PrepareRender]

\* Batches of two elements, which the arguments may name twice.
Batches == {<<1, 2>>, <<1, 1>>}
Batched == {"set_clip_link_groups", "set_clip_transforms", "apply_color_preset"}

\* Seeded fault in ValidBatch: an element may be named twice.
AnyBatch(action, batch) == batch \in Batches

\* No element of a batch is named twice.
ValidBatch(action, batch) == action \in Batched => IsInjective(batch)

-----------------------------------------------------------------------------

VARIABLES
    action, batch,  \* the request
    requested,      \* the frame a title is to start at
    places,         \* what is in each place, or None
    selected, playhead, page,       \* what Resolve shows; a new project is "new"
    \* the bridge
    phase, at,
    before,         \* what the action remembers from before
    failing,        \* a finally clause runs because of an error
    got,            \* the last call returned what was asked for
    outcome,
    \* bounds and history
    tries, faults, moves,
    strayed,        \* the user selected another timeline during the action
    stuck,          \* a call that puts the view back failed
    exposed         \* an error came when the view was moved and no try block had begun

request == <<action, batch, requested>>
resolve == <<places, selected, playhead, page>>
history == <<faults, moves, strayed, stuck, exposed>>
vars == <<request, resolve, phase, at, before, failing, got, outcome, tries, history>>

Whats == {"file", "project", "timeline", "video", "audio", "title", "clip", "subtitle", "property",
          "version", "loaded", "grade", "gone", "marker", "job", "edit", "wrong"}
Parts == Whats \X {1, 2}
Edit == <<"edit", 1>>
Wrong == <<"wrong", 1>>
Empty == [p \in Parts |-> 0]
Timelines == {"target", "other", "new", "renamed"}
Made == {"new", "renamed"}
Places == Timelines \cup {"pool", "queue"}
H == Handlers(batch)[action]
Step == H.steps[at]
Bags == [Parts -> Nat]

ASSUME NoneAssumption == None \notin Bags

TypeOK ==
    /\ action \in DOMAIN Handlers(<<1, 2>>) /\ batch \in Batches /\ requested \in 0..1
    /\ places \in [Places -> Bags \cup {None}]
    /\ selected \in Timelines /\ playhead \in {"user", "cued"} /\ page \in {"edit", "deliver"}
    /\ phase \in {"idle", "check", "backup", "call"} /\ at \in 0..9
    /\ before \in [selected : Timelines, playhead : {"user", "cued"}, bag : Bags]
    /\ {failing, got, strayed, stuck, exposed} \subseteq BOOLEAN
    /\ outcome \in {"none", "ok", "refused", "failed"}
    /\ tries \in 0..MaxTries /\ faults \in 0..MaxFaults /\ moves \in 0..MaxMoves

\* Two timelines; either is the current one.
Init ==
    /\ action \in DOMAIN Handlers(<<1, 2>>) /\ batch \in Batches
    /\ requested \in (IF action = "insert_title" THEN 0..1 ELSE {0})
    /\ places = [p \in Places |-> IF p \in Made THEN None ELSE Empty]
    /\ selected \in {"target", "other"} /\ playhead = "user" /\ page = "edit"
    /\ phase = "idle" /\ at = 0
    /\ before = [selected |-> selected, playhead |-> "user", bag |-> Empty]
    /\ failing = FALSE /\ got = FALSE /\ outcome = "none"
    /\ tries = 0 /\ faults = 0 /\ moves = 0 /\ strayed = FALSE /\ stuck = FALSE
    /\ exposed = FALSE

-----------------------------------------------------------------------------
(* Before the first call. *)

Reply(result) == phase' = "idle" /\ at' = 0 /\ failing' = FALSE /\ outcome' = result

ResolveKept == UNCHANGED <<resolve, history>>

\* The request is sent, again after an error; invalid arguments are refused.
Send ==
    /\ phase = "idle" /\ outcome # "ok"
    /\ tries < MaxTries /\ tries' = tries + 1
    /\ IF ValidBatch(action, batch)
       THEN phase' = "check" /\ outcome' = "none" /\ UNCHANGED <<at, failing>>
       ELSE Reply("refused")
    /\ UNCHANGED <<request, before, got>> /\ ResolveKept

\* The end of the target: behind the title, if it is there.
End ==
    LET bag == places["target"] IN
    IF bag[<<"title", 1>>] > 0 THEN requested + 1 ELSE bag[Edit]

\* What the project must be like; all else it may lack is left to Refuse.
Holds(need) ==
    /\ need = "free_name" => places["new"] = None
    /\ need = "at_or_after_the_end" => requested >= End
    /\ need = "at_the_end" => requested = End
    /\ need = "every_media_item" => places["target"][Edit] = 0

Check ==
    /\ phase = "check" /\ \A need \in H.needs : Holds(need)
    /\ phase' = "backup"
    /\ before' = [selected |-> selected, playhead |-> playhead, bag |-> places["target"]]
    /\ UNCHANGED <<request, at, failing, got, outcome, tries>> /\ ResolveKept

\* A timeline, an item, a track, a method is missing or locked; or there is no backup.
Refuse ==
    /\ phase \in {"check", "backup"} /\ Reply("refused")
    /\ UNCHANGED <<request, before, got, tries>> /\ ResolveKept

BackUp ==
    /\ phase = "backup" /\ phase' = "call" /\ at' = 1
    /\ UNCHANGED <<request, before, failing, got, outcome, tries>> /\ ResolveKept

-----------------------------------------------------------------------------
(* The calls. *)

Calling(call) == phase = "call" /\ Step.call = call

\* On to the next step, or to the answer.
Advance ==
    IF failing THEN Reply("failed")
    ELSE IF at = Len(H.steps) THEN Reply("ok")
    ELSE at' = at + 1 /\ UNCHANGED <<phase, failing, outcome>>

\* Seeded fault in Fail: an error skips the finally clause.
FailAtOnce == Reply("failed")

\* An error; inside the try block the finally clause comes first.
Fail ==
    IF at \in H.guarded
    THEN at' = H.finally /\ failing' = TRUE /\ UNCHANGED <<phase, outcome>>
    ELSE Reply("failed")

Fault == faults < MaxFaults /\ faults' = faults + 1
NoFault == UNCHANGED faults

\* Where a call puts things: AppendToTimeline means the current timeline.
Place ==
    CASE Step.call = "import" -> "pool"
      [] Step.call = "queue"  -> "queue"
      [] Step.call = "append" -> selected
      [] OTHER                -> "target"

With(part, value) == [places EXCEPT ![Place][part] = value]
WithOneMore(part) == With(part, places[Place][part] + 1)

\* A title lands where the playhead is.
Added ==
    IF Step.call = "insert" /\ playhead # "cued" THEN WithOneMore(Wrong)
    ELSE WithOneMore(Step.part)

\* A call that adds something: it does, it does not, or it says one and does the other.
Add ==
    /\ \E call \in {"import", "append", "insert", "mark", "queue"} : Calling(call)
    /\ \/ places' = Added /\ got' = (Added = WithOneMore(Step.part)) /\ Advance /\ NoFault
       \/ UNCHANGED <<places, got>> /\ Fail /\ NoFault
       \/ places' \in {places, WithOneMore(Wrong)} /\ got' = FALSE /\ Advance /\ Fault
       \/ places' \in {Added, WithOneMore(Wrong)} /\ UNCHANGED got /\ Fail /\ Fault
    /\ UNCHANGED <<request, selected, playhead, page, before, tries, moves, strayed, stuck,
                   exposed>>

\* A call that sets a property.
Set ==
    /\ Calling("set")
    /\ \/ places' = With(Step.part, Step.value) /\ Advance /\ NoFault
       \/ UNCHANGED places /\ Fail /\ NoFault
       \/ UNCHANGED places /\ Advance /\ Fault
       \/ places' = With(Step.part, Step.value) /\ Fail /\ Fault
    /\ UNCHANGED <<request, selected, playhead, page, before, got, tries, moves, strayed,
                   stuck, exposed>>

\* Seeded fault in VersionMissing: a color version is added every time.
AlwaysMissing == Step.call = "version"

\* The managed color version is added to an item that does not have it.
VersionMissing == places["target"][Step.part] = 0

Version ==
    /\ Calling("version")
    /\ \/ ~VersionMissing /\ UNCHANGED places /\ Advance /\ NoFault
       \/ VersionMissing /\ places' = WithOneMore(Step.part) /\ Advance /\ NoFault
       \/ VersionMissing /\ UNCHANGED places /\ Fail /\ NoFault
       \/ VersionMissing /\ places' = WithOneMore(Step.part) /\ Fail /\ Fault
    /\ UNCHANGED <<request, selected, playhead, page, before, got, tries, moves, strayed,
                   stuck, exposed>>

\* The tracks are counted once, after the backup.
Count ==
    /\ Calling("count") /\ Advance
    /\ before' = [before EXCEPT !.bag = places["target"]]
    /\ UNCHANGED <<request, got, tries>> /\ ResolveKept

\* Tracks are added one by one; each must raise the count by one.
Track ==
    LET known == before.bag[Step.part] IN
    /\ Calling("track")
    /\ \/ known >= Wanted /\ Advance /\ UNCHANGED <<places, before>> /\ NoFault
       \/ /\ known < Wanted /\ places' = WithOneMore(Step.part)
          /\ IF places'["target"][Step.part] = known + 1
             THEN /\ before' = [before EXCEPT !.bag[Step.part] = known + 1]
                  /\ UNCHANGED <<phase, at, failing, outcome>>
             ELSE Fail /\ UNCHANGED before
          /\ NoFault
       \/ known < Wanted /\ Fail /\ UNCHANGED <<places, before>> /\ NoFault
       \/ known < Wanted /\ Fail /\ places' = WithOneMore(Step.part) /\ UNCHANGED before /\ Fault
    /\ UNCHANGED <<request, selected, playhead, page, got, tries, moves, strayed, stuck, exposed>>

\* A new timeline, empty or a copy, or a new project, is there under the name that
\* was asked for or, when Resolve says one thing and does another, under some other
\* name, which stays taken.  Resolve may show it.
Appears(name) ==
    LET old == IF places[name] = None THEN Empty ELSE places[name] IN
    places' = [places EXCEPT ![name] = [old EXCEPT ![Step.part] = @ + 1]]

Make ==
    /\ Calling("create") \/ Calling("copy")
    /\ \/ Appears("new") /\ got' = TRUE /\ Advance /\ NoFault /\ selected' \in {selected, "new"}
       \/ UNCHANGED <<places, selected>> /\ got' = FALSE /\ Fail /\ NoFault
       \/ UNCHANGED <<places, selected>> /\ got' = FALSE /\ Advance /\ Fault
       \/ \E name \in Made :
             /\ Appears(name) /\ got' = FALSE /\ selected' \in {selected, name} /\ Fault
             /\ Fail \/ (name = "renamed" /\ Advance)
    /\ UNCHANGED <<request, playhead, page, before, tries, moves, strayed, stuck, exposed>>

SelectTimeline ==
    /\ Calling("select")
    /\ \/ selected' = "target" /\ Advance
       \/ UNCHANGED selected /\ Fail
    /\ UNCHANGED <<request, places, playhead, page, before, got, tries, history>>

\* After a copy the timeline from before is selected again.
Reselect ==
    /\ Calling("reselect")
    /\ \/ selected' = before.selected /\ Advance
       \/ selected # before.selected /\ UNCHANGED selected /\ Fail
    /\ UNCHANGED <<request, places, playhead, page, before, got, tries, history>>

\* The playhead goes to the requested frame ...
Cue ==
    /\ Calling("cue")
    /\ \/ playhead' = "cued" /\ Advance /\ NoFault /\ UNCHANGED exposed
       \/ UNCHANGED <<playhead, exposed>> /\ Fail /\ NoFault
       \/ UNCHANGED <<playhead, exposed>> /\ Advance /\ Fault
       \/ playhead' = "cued" /\ exposed' = TRUE /\ Fail /\ Fault
    /\ UNCHANGED <<request, places, selected, page, before, got, tries, moves, strayed, stuck>>

PutBack == playhead' = before.playhead /\ UNCHANGED stuck
LeaveMoved == UNCHANGED playhead /\ stuck' = TRUE

\* ... where an animation finds it; if it does not, it puts it back and fails.  If it
\* cannot be read at all, nothing puts it back.
Cued ==
    /\ Calling("cued")
    /\ \/ playhead = "cued" /\ Advance /\ NoFault /\ UNCHANGED <<playhead, stuck, exposed>>
       \/ /\ playhead # "cued" /\ Fail /\ UNCHANGED exposed
          /\ (PutBack /\ NoFault) \/ (LeaveMoved /\ Fault)
       \/ UNCHANGED <<playhead, stuck>> /\ exposed' = TRUE /\ Fail /\ Fault
    /\ UNCHANGED <<request, places, selected, page, before, got, tries, moves, strayed>>

\* ... and back, whatever this call returns, unless it raises an error itself.
Uncue ==
    /\ Calling("uncue")
    /\ \/ PutBack /\ Advance /\ NoFault
       \/ PutBack /\ Fail /\ Fault
       \/ LeaveMoved /\ (Advance \/ Fail) /\ Fault
    /\ UNCHANGED <<request, places, selected, page, before, got, tries, moves, strayed, exposed>>

\* A render job is prepared on the Deliver page.
Open ==
    /\ Calling("open")
    /\ \/ page' = "deliver" /\ Advance /\ NoFault /\ UNCHANGED exposed
       \/ UNCHANGED <<page, exposed>> /\ Fail /\ NoFault
       \/ page' = "deliver" /\ exposed' = TRUE /\ Fail /\ Fault
    /\ UNCHANGED <<request, places, selected, playhead, before, got, tries, moves, strayed, stuck>>

Close ==
    /\ Calling("close")
    /\ \/ page' = "edit" /\ Advance /\ NoFault /\ UNCHANGED stuck
       \/ page' = "edit" /\ Fail /\ Fault /\ UNCHANGED stuck
       \/ UNCHANGED page /\ stuck' = TRUE /\ (Advance \/ Fail) /\ Fault
    /\ UNCHANGED <<request, places, selected, playhead, before, got, tries, moves, strayed,
                   exposed>>

\* Preset, resolution, format, mode and settings; or the saving of a new project:
\* each may be refused.
Settings ==
    /\ Calling("settings") \/ Calling("save")
    /\ Advance \/ Fail
    /\ UNCHANGED <<request, before, got, tries>> /\ ResolveKept

-----------------------------------------------------------------------------
(* The readbacks. *)

\* One item is new, where it was asked for, and no other changed.
Exact(bag) == bag = [before.bag EXCEPT ![Step.part] = @ + 1]

\* There are more subtitles, whoever made them.
Sum(bag) == bag[Step.part] + bag[Edit] + bag[Wrong]
More(bag) == Sum(bag) > Sum(before.bag)

Seen ==
    LET bag == places["target"] IN
    /\ Step.call = "present" => bag[Step.part] = Step.value
    /\ Step.call = "exact" => Exact(bag)
    /\ Step.call = "more" => More(bag)
    /\ Step.call \in {"listed", "shown"} => got
    /\ Step.call = "shown" => selected = "new"
    /\ Step.call = "kept" => selected = before.selected
    /\ Step.call = "chosen" => selected = "target"

Readbacks == {"present", "exact", "more", "listed", "shown", "kept", "chosen"}

ReadBack ==
    /\ phase = "call" /\ Step.call \in Readbacks
    /\ IF Seen THEN Advance ELSE Fail
    /\ UNCHANGED <<request, before, got, tries>> /\ ResolveKept

\* Seeded fault in Policy: a job is deleted that is not there.
PolicyUnseen ==
    /\ Calling("policy")
    /\ \/ got /\ Advance /\ UNCHANGED places
       \/ ~got /\ Fail /\ places' = [places EXCEPT !["queue"][Wrong] = @ - 1]
    /\ UNCHANGED <<request, selected, playhead, page, before, got, tries, history>>

\* A job outside the profile is an error; a wave job is deleted again.
Policy ==
    /\ Calling("policy")
    /\ \/ got /\ Advance /\ UNCHANGED places
       \/ ~got /\ Fail /\ UNCHANGED places
       \/ /\ ~got /\ Fail /\ places["queue"][Wrong] > 0
          /\ places' = [places EXCEPT !["queue"][Wrong] = @ - 1]
    /\ UNCHANGED <<request, selected, playhead, page, before, got, tries, history>>

-----------------------------------------------------------------------------
(* The user, during an action. *)

UserMoves ==
    /\ phase # "idle" /\ moves < MaxMoves /\ moves' = moves + 1
    /\ \/ /\ \E t \in Timelines \ {selected} : places[t] # None /\ selected' = t
          /\ strayed' = TRUE /\ UNCHANGED <<places, playhead>>
       \/ /\ places' = [places EXCEPT !["target"][Edit] = @ + 1]
          /\ UNCHANGED <<selected, strayed, playhead>>
       \/ /\ playhead' = "user" /\ UNCHANGED <<places, selected, strayed>>
    /\ UNCHANGED <<request, page, phase, at, before, failing, got, outcome, tries, faults,
                   stuck, exposed>>

Next ==
    \/ Send \/ Check \/ Refuse \/ BackUp
    \/ Add \/ Set \/ Version \/ Count \/ Track \/ Make
    \/ SelectTimeline \/ Reselect \/ Cue \/ Cued \/ Uncue \/ Open \/ Close \/ Settings
    \/ ReadBack \/ Policy
    \/ UserMoves

Spec == Init /\ [][Next]_vars

-----------------------------------------------------------------------------
(* Properties *)

\* What a readback stands for, at the time of the answer.
Shown(step) ==
    LET bag == places["target"] IN
    /\ step.call = "present" => bag[step.part] = step.value
    /\ step.call = "exact" => bag = [before.bag EXCEPT ![step.part] = @ + 1]
    /\ step.call = "track" => bag[step.part] >= Wanted
    /\ step.call \in {"listed", "shown"} => places["new"][step.part] = 1
    /\ step.call = "policy" => places["queue"][step.part] > 0

\* An action that reads its work back answers "success" only when all of it is in
\* the timeline it was asked for: for every element of a batch, whatever Resolve
\* claimed, whatever was left by an earlier attempt, and whatever the user did in
\* the meantime.  A title or an animation disturbed nothing else on it.
SuccessIsSeen == outcome = "ok" => \A i \in DOMAIN H.steps : Shown(H.steps[i])

\* No action ever touches another timeline than the one it names, unless the user
\* selects one while it runs: an append goes to the current timeline, and only
\* titles are looked for afterwards.  After an action, however it ended, the
\* playhead and the page are where the user had them, with two exceptions: the call
\* that puts them back failed; or the error came before the try block, that is the
\* call that moves them took effect and failed, or the playhead of an animation could
\* not be read.  A successful copy leaves the same timeline selected.
NothingElseChanges ==
    /\ ~strayed => places["other"] = Empty
    /\ phase = "idle" /\ ~stuck /\ ~exposed => playhead = "user" /\ page = "edit"
    /\ outcome = "ok" /\ action = "duplicate_timeline" => selected = before.selected

\* The parts that a repetition of their action never adds a second time.
Unrepeatable ==
    {<<"title", 1>>} \cup {<<"version", n>> : n \in {1, 2}}

\* A request that failed in the middle and is sent again never adds what is there
\* already: a title, a color version, a track, a copy or a project of the name asked
\* for.  A copy that came out under another name fails its readback and is not looked
\* for again: a repetition makes the next one.
RepeatAddsNothing ==
    /\ \A part \in Unrepeatable : places["target"][part] <= 1
    /\ \A type \in {"video", "audio"} : places["target"][<<type, 1>>] <= Wanted
    /\ action \in {"duplicate_timeline", "create_project"} /\ places["new"] # None =>
          \E part \in Parts : places["new"] = [Empty EXCEPT ![part] = 1]
=============================================================================
