------------------------ MODULE BridgeActions_proofs ------------------------
(***************************************************************************)
(* That an action of the Python bridge answers "success" only for work it  *)
(* saw, touches nothing else, and adds nothing twice when it is sent again:*)
(* for every number of tracks, attempts, misbehaving calls and moves of    *)
(* the user.                                                               *)
(*                                                                         *)
(* The calls of an action are data here, so the proof has two halves.      *)
(* WellFormed says what every action has in common in the order of its     *)
(* calls: which call comes before which, what lies in a try block, which   *)
(* call is the last.  Table checks that, action by action.  The invariant  *)
(* is about an arbitrary well-formed action that is somewhere between two  *)
(* calls, with a lemma per call that Resolve may answer in several ways.   *)
(***************************************************************************)
EXTENDS BridgeActions, TLAPS

Makes == {"create", "copy"}
Adds == {"import", "append", "insert", "mark", "queue"}
PutsBack == {"uncue", "close"}
Copies == {"duplicate_timeline", "create_project"}
Calls == Adds \cup Makes \cup PutsBack \cup Readbacks \cup
    {"select", "reselect", "set", "version", "count", "track", "cue", "cued", "open", "settings",
     "save", "policy"}

\* The parts that can only be set, and what the other calls may add.
Properties == {"property", "loaded", "grade", "gone"} \X {1, 2}
Title == <<"title", 1>>
Tracks == {<<"video", 1>>, <<"audio", 1>>}
Versions == {<<"version", 1>>, <<"version", 2>>}
Things == {"file", "clip", "subtitle", "marker", "job"} \X {1}

StepTypeOK(steps) ==
    /\ Len(steps) \in Nat /\ 1 <= Len(steps) /\ Len(steps) <= 9
    /\ DOMAIN steps = 1..Len(steps)
    /\ \A i \in DOMAIN steps : steps[i] \in [call : Calls, part : Parts, value : {1, 2}]

\* The try block is left only through its finally clause, which puts back what a call
\* just before the block has changed.
TryOK(h) ==
    /\ h.guarded \subseteq DOMAIN h.steps \ {1} /\ h.finally \notin h.guarded
    /\ h.guarded # {} => h.finally \in DOMAIN h.steps
    /\ \A i \in h.guarded : i < h.finally /\ i + 1 \in h.guarded \cup {h.finally}
    /\ \A i \in DOMAIN h.steps :
          /\ h.steps[i].call \in PutsBack <=> i = h.finally
          /\ h.steps[i].call = "open" => i + 1 \in h.guarded
          /\ h.steps[i].call = "cue" =>
                i + 1 \in DOMAIN h.steps /\ (i + 1 \in h.guarded \/ h.steps[i + 1].call = "cued")
          /\ h.steps[i].call = "cued" => i \notin h.guarded /\ i + 1 \in h.guarded
          /\ h.steps[i].call \in {"cue", "cued"} => h.steps[h.finally].call = "uncue"
          /\ h.steps[i].call = "open" => h.steps[h.finally].call = "close"

\* What comes before a call, and what may not come after it.
OrderOK(h) ==
    \A i \in DOMAIN h.steps :
        LET step == h.steps[i]
            first == h.steps[1]
            last == h.steps[i - 1]
        IN  /\ step.call \in {"exact", "kept"} => i = Len(h.steps)
            /\ step.call \in Makes => i = 1
            /\ step.call = "append" => i > 1 /\ first.call = "select"
            /\ step.call = "reselect" => first.call # "select"
            /\ step.call \in {"listed", "shown"} =>
                  i = 2 /\ first.call \in Makes /\ step.part = first.part
            /\ step.call = "policy" => i > 1 /\ last.call = "queue" /\ step.part = last.part
            /\ step.call = "track" => i > 1 /\ last.call \in {"count", "track"}
            /\ step.call = "insert" =>
                  /\ \A j \in DOMAIN h.steps : h.steps[j].call = "insert" => i = j
                  /\ i < h.finally /\ h.needs \cap {"at_or_after_the_end", "at_the_end"} # {}

\* What a call adds or sets.
PartsOK(h) ==
    \A i \in DOMAIN h.steps :
        LET step == h.steps[i]
        IN  /\ step.call = "insert" => step.part = Title
            /\ step.call \in Adds \ {"insert"} => step.part \in Things
            /\ step.call = "set" => step.part \in Properties
            /\ step.call = "version" => step.part \in Versions
            /\ step.call = "track" => step.part \in Tracks
            /\ step.call = "policy" => step.part \in Things
            /\ step.call = "present" =>
                  /\ step.part \in Properties
                  /\ \A j \in DOMAIN h.steps :
                        j > i /\ h.steps[j].call = "set" => h.steps[j].part # step.part

WellFormed(a, h) ==
    /\ StepTypeOK(h.steps) /\ TryOK(h) /\ OrderOK(h) /\ PartsOK(h)
    /\ a \in Copies => "free_name" \in h.needs /\ h.steps[1].call \in Makes
    /\ a = "duplicate_timeline" => h.steps[Len(h.steps)].call = "kept"
    /\ \A i \in DOMAIN h.steps : h.steps[i].call \in {"listed", "shown"} => a \in Copies

-----------------------------------------------------------------------------
(* The invariant. *)

\* Where the action is.
Control ==
    /\ at = 0 <=> phase # "call"
    /\ phase = "call" => at \in DOMAIN H.steps
    /\ failing => phase = "call" /\ at = H.finally
    /\ phase # "idle" => outcome = "none" /\ ValidBatch(action, batch)

\* Every place but the new one is there, and so is the timeline that is shown.
PlacesInv ==
    /\ \A p \in Places \ {"new", "renamed"} : places[p] # None
    /\ places[selected] # None /\ places[before.selected] # None

\* What was read back so far is still so.
SeenInv ==
    /\ phase = "call" /\ ~failing => \A i \in 1..at - 1 : Shown(H.steps[i])
    /\ outcome = "ok" =>
          /\ phase = "idle" /\ SuccessIsSeen
          /\ action = "duplicate_timeline" => selected = before.selected

\* A copy or a project is made where there is none.
NewInv ==
    action \in Copies =>
        /\ places["new"] \in {None, [Empty EXCEPT ![H.steps[1].part] = 1]}
        /\ phase = "backup" \/ at = 1 => places["new"] = None
        /\ at = 2 /\ got => places["new"] # None

\* What comes back from the queue is what was put there.
QueueInv ==
    phase = "call" /\ Step.call = "policy" /\ got /\ ~failing => places["queue"][Step.part] > 0

\* The tracks that the bridge knows are the ones there are.
TrackInv ==
    /\ \A track \in Tracks : places["target"][track] <= Wanted
    /\ phase = "call" /\ Step.call = "track" =>
          \A track \in Tracks : before.bag[track] = places["target"][track]

\* There is no title where one is about to be inserted.
Ahead ==
    phase \in {"backup", "call"} /\ \E i \in DOMAIN H.steps : i >= at /\ H.steps[i].call = "insert"

TitleInv ==
    /\ \A part \in {Title} \cup Versions : places["target"][part] <= 1
    /\ Ahead => places["target"][Title] = 0

\* The named timeline stays selected.
SelectInv ==
    ~strayed =>
        /\ places["other"] = Empty
        /\ phase = "call" /\ at > 1 /\ H.steps[1].call = "select" => selected = "target"

\* The view is changed only where the finally clause will put it back, or just before.
Inside(call) ==
    /\ phase = "call" /\ H.steps[H.finally].call = call
    /\ at \in H.guarded \cup {H.finally} \/ H.steps[at].call = "cued"

ViewInv ==
    ~stuck /\ ~exposed =>
        /\ playhead = "user" \/ Inside("uncue")
        /\ page = "edit" \/ Inside("close")
        /\ phase \in {"backup", "call"} => before.playhead = "user"

IInv ==
    /\ TypeOK /\ Control /\ PlacesInv /\ SeenInv /\ NewInv /\ QueueInv /\ TrackInv /\ TitleInv
    /\ SelectInv /\ ViewInv
-----------------------------------------------------------------------------
(* The calls of every action. *)

\* The elements of a batch that may run are two.
LEMMA Pairs ==
    ASSUME NEW a, NEW b \in Batches
    PROVE  /\ b[1] \in {1, 2} /\ b[2] \in {1, 2}
           /\ a \in Batched /\ ValidBatch(a, b) => b[1] # b[2]
  BY DEF Batches, ValidBatch, IsInjective

\* The longest of them: a grade reads an element back before it sets the other one.
LEMMA ColorTable ==
    ASSUME NEW b, b[1] \in {1, 2}, b[2] \in {1, 2}, b[1] # b[2]
    PROVE  WellFormed("apply_color_preset", ApplyColor(b))
<1> DEFINE h == ApplyColor(b)
           steps == h.steps
<1> USE DEF Select, Do, On
<1>1. /\ steps[1] = Select /\ DOMAIN steps = 1..9 /\ Len(steps) = 9
      /\ steps[2] = On("version", "version", b[1], 1) /\ steps[3] = On("set", "loaded", b[1], 1)
      /\ steps[4] = On("set", "grade", b[1], 1) /\ steps[5] = On("present", "loaded", b[1], 1)
      /\ steps[6] = On("version", "version", b[2], 1) /\ steps[7] = On("set", "loaded", b[2], 1)
      /\ steps[8] = On("set", "grade", b[2], 1) /\ steps[9] = On("present", "loaded", b[2], 1)
  BY DEF ApplyColor, Plain, Handler, GradeEach
<1>2. StepTypeOK(steps)
  BY DEF StepTypeOK, ApplyColor, Plain, Handler, GradeEach, Calls, Adds, Makes, PutsBack, Readbacks,
         Parts, Whats
<1>3. TryOK(h)
  BY DEF TryOK, ApplyColor, Plain, Handler, GradeEach, PutsBack
<1> HIDE DEF h
<1>4. OrderOK(h)
  BY <1>1 DEF OrderOK, Makes
<1>5. PartsOK(h)
  <2>1. \A i, j \in DOMAIN steps :
            steps[i].call = "present" /\ j > i /\ steps[j].call = "set" =>
                steps[j].part # steps[i].part
    BY <1>1
  <2>2. \A i \in DOMAIN steps : steps[i].call \in {"version", "set", "present", "select"}
    BY <1>1
  <2>3. \A i \in DOMAIN steps :
            /\ steps[i].call = "version" => steps[i].part \in Versions
            /\ steps[i].call \in {"set", "present"} => steps[i].part \in Properties
    BY <1>1 DEF Versions, Properties
  <2> QED
    BY <2>1, <2>2, <2>3 DEF PartsOK, Adds
<1>6. \A i \in DOMAIN steps : steps[i].call \notin {"listed", "shown"}
  BY <1>1
<1> QED
  BY <1>2, <1>3, <1>4, <1>5, <1>6 DEF WellFormed, Copies, h

\* The other batches set an element and read it back, and then the other one.
LEMMA EachTable ==
    ASSUME NEW a, a \notin Copies, NEW needs,
           NEW b, b[1] \in {1, 2}, b[2] \in {1, 2}, b[1] # b[2]
    PROVE  WellFormed(a, Plain(needs, SetEach(b)))
<1> DEFINE h == Plain(needs, SetEach(b))
           steps == h.steps
<1> USE DEF Select, Do, On
<1>1. /\ steps[1] = Select /\ DOMAIN steps = 1..5 /\ Len(steps) = 5
      /\ steps[2] = On("set", "property", b[1], 1)
      /\ steps[3] = On("present", "property", b[1], 1)
      /\ steps[4] = On("set", "property", b[2], 2)
      /\ steps[5] = On("present", "property", b[2], 2)
  BY DEF Plain, Handler, SetEach
<1>2. StepTypeOK(steps)
  BY DEF StepTypeOK, Plain, Handler, SetEach, Calls, Adds, Makes, PutsBack, Readbacks, Parts, Whats
<1>3. TryOK(h)
  BY DEF TryOK, Plain, Handler, SetEach, PutsBack
<1> HIDE DEF h
<1>4. OrderOK(h)
  BY <1>1 DEF OrderOK, Makes
<1>5. PartsOK(h)
  <2>1. \A i, j \in DOMAIN steps :
            steps[i].call = "present" /\ j > i /\ steps[j].call = "set" =>
                steps[j].part # steps[i].part
    BY <1>1
  <2>2. \A i \in DOMAIN steps :
            /\ steps[i].call \in {"set", "present", "select"}
            /\ steps[i].call \in {"set", "present"} => steps[i].part \in Properties
    BY <1>1 DEF Properties
  <2> QED
    BY <2>1, <2>2 DEF PartsOK, Adds
<1>6. \A i \in DOMAIN steps : steps[i].call \notin {"listed", "shown"}
  BY <1>1
<1> QED
  BY <1>2, <1>3, <1>4, <1>5, <1>6 DEF WellFormed, Copies, h

LEMMA Table ==
    ASSUME NEW a \in DOMAIN Handlers(<<1, 2>>), NEW b \in Batches, ValidBatch(a, b)
    PROVE  WellFormed(a, Handlers(b)[a])
<1>1. b[1] \in {1, 2} /\ b[2] \in {1, 2} /\ (a \in Batched => b[1] # b[2])
  BY Pairs
<1>2. a \in Batched => WellFormed("set_clip_link_groups", SetLinkGroups(b))
  BY <1>1, EachTable DEF SetLinkGroups, Copies
<1>3. a \in Batched => WellFormed("set_clip_transforms", SetTransforms(b))
  BY <1>1, EachTable DEF SetTransforms, Copies
<1>4. a \in Batched => WellFormed("apply_color_preset", ApplyColor(b))
  BY SMTT(30), <1>1, ColorTable
<1> USE DEF WellFormed, StepTypeOK, TryOK, OrderOK, PartsOK, Plain, Handler, Select, Do, On, SetOne,
            SetEach, Calls, Adds, Makes, PutsBack, Readbacks, Parts, Whats, Copies, Title, Things,
            Properties, Tracks, Versions
<1>5. WellFormed("create_project", CreateProject)
  BY DEF CreateProject, ProjectNeeds
<1>6. WellFormed("import_media", ImportMedia)
  BY DEF ImportMedia, ImportNeeds
<1>7. WellFormed("create_timeline", CreateTimeline)
  BY DEF CreateTimeline
<1>8. WellFormed("ensure_timeline_tracks", EnsureTracks)
  BY DEF EnsureTracks, TrackNeeds
<1>9. WellFormed("duplicate_timeline", DuplicateTimeline)
  BY DEF DuplicateTimeline, DuplicateNeeds
<1>10. WellFormed("set_current_timeline", SetCurrent)
  BY DEF SetCurrent, CurrentNeeds
<1>11. WellFormed("append_clip", AppendClip)
  BY DEF AppendClip, AppendNeeds
<1>12. WellFormed("insert_title", InsertTitle)
  BY DEF InsertTitle, TitleNeeds
<1>13. WellFormed("insert_animation_template", InsertAnimation)
  BY DEF InsertAnimation, AnimationNeeds
<1>14. WellFormed("append_subtitle_file", AppendSubtitles)
  BY DEF AppendSubtitles, SubtitleFileNeeds
<1>15. WellFormed("insert_clip", InsertClip)
  BY DEF InsertClip, InsertClipNeeds
<1>16. WellFormed("insert_clips", InsertClips)
  BY DEF InsertClips, InsertClipsNeeds
<1>17. WellFormed("set_clip_enabled", SetEnabled)
  BY DEF SetEnabled, EnabledNeeds
<1>18. WellFormed("set_clips_linked", SetLinked)
  BY SMTT(30) DEF SetLinked, LinkNeeds
<1>19. WellFormed("set_clip_transform", SetTransform)
  BY DEF SetTransform, TransformNeeds
<1>20. WellFormed("delete_clip", DeleteClip)
  BY SMTT(60) DEF DeleteClip, DeleteNeeds
<1>21. WellFormed("add_marker", AddMarker)
  BY SMTT(30) DEF AddMarker
<1>22. WellFormed("create_subtitles_from_audio", CreateSubtitles)
  BY SMTT(30) DEF CreateSubtitles, CaptionNeeds
<1>23. WellFormed("prepare_render_job", PrepareRender)
  BY SMTT(60) DEF PrepareRender, RenderNeeds
<1> HIDE DEF WellFormed
<1> QED
  BY <1>1, <1>2, <1>3, <1>4, <1>5, <1>6, <1>7, <1>8, <1>9, <1>10, <1>11, <1>12, <1>13, <1>14,
     <1>15, <1>16, <1>17, <1>18, <1>19, <1>20, <1>21, <1>22, <1>23 DEF Handlers, Batched

-----------------------------------------------------------------------------
(* From one call to the next. *)

Onward ==
    /\ ~failing /\ at + 1 \in DOMAIN H.steps
    /\ phase' = "call" /\ at' = at + 1 /\ failing' = FALSE /\ outcome' = outcome

Succeeds ==
    /\ ~failing /\ at = Len(H.steps)
    /\ phase' = "idle" /\ at' = 0 /\ failing' = FALSE /\ outcome' = "ok"

Breaks ==
    /\ at \notin H.guarded
    /\ phase' = "idle" /\ at' = 0 /\ failing' = FALSE /\ outcome' = "failed"

Cleans ==
    /\ ~failing /\ at \in H.guarded
    /\ phase' = "call" /\ at' = H.finally /\ failing' = TRUE /\ outcome' = outcome

Moved == Onward \/ Succeeds \/ Breaks \/ Cleans

\* A call of an arbitrary action is under way.
Under == TypeOK /\ Control /\ phase = "call" /\ UNCHANGED request

LEMMA Shape ==
    ASSUME TypeOK, Control, phase # "idle"
    PROVE  WellFormed(action, H)
  BY Table DEF TypeOK, Control, H

\* The steps of an action are the same before and after.
LEMMA SameSteps ==
    ASSUME UNCHANGED request
    PROVE  H' = H
  BY DEF H, request

LEMMA Here ==
    ASSUME TypeOK, Control, phase = "call"
    PROVE  /\ at \in DOMAIN H.steps /\ DOMAIN H.steps = 1..Len(H.steps)
           /\ Len(H.steps) \in Nat /\ 1 <= Len(H.steps) /\ Len(H.steps) <= 9
           /\ Step = H.steps[at] /\ Step.call \in Calls /\ Step.part \in Parts
           /\ Step.value \in {1, 2}
<1>1. WellFormed(action, H) /\ at \in DOMAIN H.steps
  BY Shape DEF Control
<1>2. StepTypeOK(H.steps)
  BY <1>1 DEF WellFormed
<1>3. H.steps[at] \in [call : Calls, part : Parts, value : {1, 2}]
  BY <1>1, <1>2 DEF StepTypeOK
<1> QED
  BY <1>1, <1>2, <1>3 DEF StepTypeOK, Step

LEMMA Advances ==
    ASSUME TypeOK, Control, phase = "call", Advance
    PROVE  /\ Moved
           /\ ~Cleans
<1>1. TryOK(H)
  BY Shape DEF WellFormed
<1>2. failing => at \notin H.guarded
  BY <1>1 DEF TryOK, Control
<1>3. at \in 1..Len(H.steps) /\ Len(H.steps) \in Nat /\ DOMAIN H.steps = 1..Len(H.steps)
  BY Here
<1>4. CASE failing
  BY <1>2, <1>4 DEF Advance, Reply, Moved, Breaks, Cleans
<1>5. CASE ~failing /\ at = Len(H.steps)
  BY <1>5 DEF Advance, Reply, Moved, Succeeds, Cleans
<1>6. CASE ~failing /\ at # Len(H.steps)
  <2>1. at + 1 \in DOMAIN H.steps
    BY <1>3, <1>6
  <2> QED
    BY <1>3, <1>6, <2>1 DEF Advance, Moved, Onward, Cleans, TypeOK
<1> QED
  BY <1>4, <1>5, <1>6

LEMMA Fails ==
    ASSUME TypeOK, Control, phase = "call", Fail
    PROVE  Breaks \/ Cleans
<1>1. TryOK(H)
  BY Shape DEF WellFormed
<1>2. failing => at \notin H.guarded
  BY <1>1 DEF TryOK, Control
<1> QED
  BY <1>2 DEF Fail, Reply, Breaks, Cleans

\* Where the action is afterwards.
LEMMA ControlKeeps ==
    ASSUME Under, Moved
    PROVE  /\ Control'
           /\ phase' \in {"idle", "call"} /\ at' \in 0..9
           /\ failing' \in BOOLEAN /\ outcome' \in {"none", "ok", "failed"}
<1>1. TryOK(H)
  BY Shape DEF WellFormed, Under
<1>2. H' = H /\ action' = action /\ batch' = batch
  BY SameSteps DEF Under, request
<1>3. /\ at \in 1..Len(H.steps) /\ DOMAIN H.steps = 1..Len(H.steps)
      /\ Len(H.steps) \in Nat /\ Len(H.steps) <= 9
  BY Here DEF Under
<1>4. outcome = "none" /\ ValidBatch(action, batch) /\ ValidBatch(action, batch)'
  BY <1>2 DEF Under, Control, ValidBatch, IsInjective
<1>5. /\ Cleans => H.finally \in DOMAIN H.steps /\ H.finally \in 1..9
      /\ Onward => at + 1 \in 1..9
  <2>1. Cleans => H.finally \in DOMAIN H.steps
    BY <1>1 DEF Cleans, TryOK
  <2>2. Onward => at + 1 \in DOMAIN H.steps
    BY DEF Onward
  <2>3. \A i \in DOMAIN H.steps : i \in 1..9
    BY <1>3
  <2> QED
    BY <2>1, <2>2, <2>3
<1> USE DEF Moved, Onward, Succeeds, Breaks, Cleans
<1>6. at' \in 0..9 /\ (at' = 0 => phase' # "call") /\ (phase' # "call" => at' = 0)
  BY <1>5
<1>7. (phase = "call" => at \in DOMAIN H.steps)'
  BY <1>2, <1>3, <1>5
<1>8. (failing => phase = "call" /\ at = H.finally)'
  BY <1>2, <1>3, <1>5
<1>9. (phase # "idle" => outcome = "none" /\ ValidBatch(action, batch))'
  BY <1>2, <1>3, <1>4, <1>5
<1>10. phase' \in {"idle", "call"} /\ outcome' \in {"none", "ok", "failed"}
  BY <1>4
<1>11. failing' \in BOOLEAN
  BY Zenon
<1> QED
  BY <1>6, <1>7, <1>8, <1>9, <1>10, <1>11 DEF Control

\* What was read back stays so, unless a call changes the very part or place.
Undisturbed ==
    /\ \A part \in Properties :
          \/ places'["target"][part] = places["target"][part]
          \/ Step.call = "set" /\ part = Step.part
    /\ \A track \in Tracks :
          /\ {places["target"][track], places'["target"][track]} \subseteq Nat
          /\ places'["target"][track] >= places["target"][track]
    /\ \A part \in Things :
          /\ {places["queue"][part], places'["queue"][part]} \subseteq Nat
          /\ places'["queue"][part] >= places["queue"][part]
    /\ action \in Copies /\ at > 1 => places'["new"] = places["new"]

LEMMA ShownKeeps ==
    ASSUME Under, Undisturbed, NEW i \in DOMAIN H.steps, i < at, Shown(H.steps[i])
    PROVE  Shown(H.steps[i])'
<1>0. PICK step : step = H.steps[i]
  OBVIOUS
<1>1. WellFormed(action, H) /\ H' = H
  BY Shape, SameSteps DEF Under
<1>2. /\ at \in 1..Len(H.steps) /\ DOMAIN H.steps = 1..Len(H.steps) /\ Len(H.steps) \in Nat
      /\ at \in DOMAIN H.steps /\ Step = H.steps[at]
  BY Here DEF Under
<1>3. i \in Nat /\ at > 1 /\ i # Len(H.steps)
  BY <1>2
<1>4. step.call # "exact"
  BY <1>0, <1>1, <1>3 DEF WellFormed, OrderOK
<1>5. step.call = "present" =>
         step.part \in Properties /\ ~(Step.call = "set" /\ step.part = Step.part)
  BY <1>0, <1>1, <1>2 DEF WellFormed, PartsOK
<1>6. step.call = "track" => step.part \in Tracks
  BY <1>0, <1>1 DEF WellFormed, PartsOK
<1>7. step.call = "policy" => step.part \in Things
  BY <1>0, <1>1 DEF WellFormed, PartsOK
<1>8. step.call \in {"listed", "shown"} => action \in Copies
  BY <1>0, <1>1 DEF WellFormed
<1>9. H'.steps[i] = step
  BY <1>0, <1>1
<1>10. Shown(step)
  BY <1>0 DEF Shown
<1> SUFFICES Shown(step)'
  BY <1>9 DEF Shown
<1>11. Wanted \in Nat
  BY ActionsAssumption
<1>12. CASE step.call = "present"
  BY <1>5, <1>10, <1>12 DEF Undisturbed, Shown
<1>13. CASE step.call = "track"
  BY <1>6, <1>10, <1>11, <1>13 DEF Undisturbed, Shown
<1>14. CASE step.call = "policy"
  BY <1>7, <1>10, <1>14 DEF Undisturbed, Shown
<1>15. CASE step.call \in {"listed", "shown"}
  BY <1>3, <1>8, <1>10, <1>15 DEF Undisturbed, Shown
<1>16. CASE step.call \notin {"present", "exact", "track", "policy", "listed", "shown"}
  BY <1>16 DEF Shown
<1> QED
  BY <1>4, <1>12, <1>13, <1>14, <1>15, <1>16

LEMMA SeenKeeps ==
    ASSUME Under, Moved, SeenInv, Undisturbed,
           Onward \/ Succeeds => \A i \in DOMAIN H.steps : i = at => Shown(H.steps[i])',
           Succeeds /\ Step.call = "kept" => selected' = before'.selected
    PROVE  SeenInv'
<1>1. H' = H /\ action' = action /\ phase = "call" /\ outcome = "none"
  BY SameSteps DEF Under, Control, request
<1>2. /\ at \in 1..Len(H.steps) /\ DOMAIN H.steps = 1..Len(H.steps) /\ Len(H.steps) \in Nat
      /\ Step = H.steps[at]
  BY Here DEF Under
<1>3. ASSUME Onward \/ Succeeds, NEW i \in 1..at
      PROVE  Shown(H.steps[i])'
  <2>1. CASE i = at
    BY <1>2, <1>3, <2>1
  <2>2. CASE i < at
    <3>1. i \in 1..at - 1 /\ i \in DOMAIN H.steps
      BY <1>2, <2>2
    <3>2. Shown(H.steps[i])
      BY <1>1, <1>3, <3>1 DEF SeenInv, Onward, Succeeds
    <3> QED
      BY <2>2, <3>1, <3>2, ShownKeeps
  <2> QED
    BY <1>2, <2>1, <2>2
<1>4. CASE Onward
  <2>1. \A i \in 1..at' - 1 : i \in 1..at
    BY <1>2, <1>4 DEF Onward
  <2>2. (\A i \in 1..at - 1 : Shown(H.steps[i]))'
    BY <1>3, <1>4, <2>1
  <2> QED
    BY <1>1, <1>4, <2>2 DEF SeenInv, Onward
<1>5. CASE Succeeds
  <2>1. \A i \in DOMAIN H.steps : i \in 1..at
    BY <1>2, <1>5 DEF Succeeds
  <2>2. SuccessIsSeen'
    BY <1>1, <1>3, <1>5, <2>1 DEF SuccessIsSeen
  <2>3. action = "duplicate_timeline" => Step.call = "kept"
    BY <1>2, <1>5, Shape DEF Succeeds, Under, WellFormed
  <2> QED
    BY <1>1, <1>5, <2>2, <2>3 DEF SeenInv, Succeeds
<1>6. CASE Breaks \/ Cleans
  BY <1>1, <1>6 DEF SeenInv, Breaks, Cleans
<1> QED
  BY <1>4, <1>5, <1>6 DEF Moved

LEMMA NewKeeps ==
    ASSUME Under, Moved, NewInv, Step.call \notin Makes,
           action \in Copies => places'["new"] = places["new"]
    PROVE  NewInv'
<1>1. WellFormed(action, H) /\ H' = H /\ action' = action
  BY Shape, SameSteps DEF Under, request
<1>2. at \in Nat /\ at >= 1 /\ Step = H.steps[at]
  BY Here DEF Under
<1>3. action \in Copies => at >= 2
  BY <1>1, <1>2 DEF WellFormed
<1>4. Cleans => H.finally > at /\ H.finally \in Nat
  <2>1. Cleans => at < H.finally /\ H.finally \in DOMAIN H.steps
    BY <1>1 DEF WellFormed, TryOK, Cleans
  <2> QED
    BY <2>1, <1>2, Here DEF Under
<1>5. action \in Copies => at' \notin {1, 2} /\ phase' # "backup"
  BY <1>2, <1>3, <1>4 DEF Moved, Onward, Succeeds, Breaks, Cleans
<1> QED
  BY <1>1, <1>5 DEF NewInv

LEMMA QueueKeeps ==
    ASSUME Under, Moved, Step.call # "queue"
    PROVE  QueueInv'
<1>1. WellFormed(action, H) /\ H' = H
  BY Shape, SameSteps DEF Under
<1>2. at \in Nat /\ Step = H.steps[at] /\ at + 1 - 1 = at
  BY Here DEF Under
<1>3. Onward => H.steps[at + 1].call # "policy"
  BY <1>1, <1>2 DEF WellFormed, OrderOK, Onward
<1> QED
  BY <1>1, <1>3 DEF QueueInv, Step, Moved, Onward, Succeeds, Breaks, Cleans

LEMMA TrackKeeps ==
    ASSUME Under, Moved, TrackInv, Step.call \notin {"count", "track"},
           \A track \in Tracks : places'["target"][track] = places["target"][track]
    PROVE  TrackInv'
<1>1. WellFormed(action, H) /\ H' = H
  BY Shape, SameSteps DEF Under
<1>2. at \in Nat /\ Step = H.steps[at] /\ at + 1 - 1 = at
  BY Here DEF Under
<1>3. Onward => H.steps[at + 1].call # "track"
  BY <1>1, <1>2 DEF WellFormed, OrderOK, Onward
<1>4. Cleans => H.steps[H.finally].call # "track"
  BY <1>1 DEF WellFormed, TryOK, Cleans, PutsBack
<1> QED
  BY <1>1, <1>3, <1>4 DEF TrackInv, Step, Moved, Onward, Succeeds, Breaks, Cleans

LEMMA AheadKeeps ==
    ASSUME Under, Moved, Ahead'
    PROVE  Ahead /\ Step.call # "insert"
<1>1. WellFormed(action, H) /\ H' = H
  BY Shape, SameSteps DEF Under
<1>2. /\ at \in Nat /\ DOMAIN H.steps = 1..Len(H.steps) /\ phase = "call" /\ Step = H.steps[at]
      /\ at \in DOMAIN H.steps
  BY Here DEF Under
<1>3. Cleans => H.finally > at /\ H.finally \in Nat
  <2>1. Cleans => at < H.finally /\ H.finally \in DOMAIN H.steps
    BY <1>1 DEF WellFormed, TryOK, Cleans
  <2> QED
    BY <2>1, <1>2
<1>4. at' > at /\ at' \in Nat
  BY <1>2, <1>3 DEF Moved, Onward, Succeeds, Breaks, Cleans, Ahead
<1>5. PICK i \in DOMAIN H.steps : i >= at' /\ H.steps[i].call = "insert"
  BY <1>1 DEF Ahead
<1>6. i >= at /\ i # at
  BY <1>2, <1>4, <1>5
<1>7. H.steps[at].call # "insert"
  BY <1>1, <1>2, <1>5, <1>6 DEF WellFormed, OrderOK
<1> QED
  BY <1>2, <1>5, <1>6, <1>7 DEF Ahead

LEMMA TitleKeeps ==
    ASSUME Under, Moved, TitleInv,
           \A part \in {Title} \cup Versions : places'["target"][part] = places["target"][part]
    PROVE  TitleInv'
  BY AheadKeeps DEF TitleInv

LEMMA SelectKeeps ==
    ASSUME Under, Moved, SelectInv, Step.call # "select", UNCHANGED <<selected, strayed>>,
           strayed \/ places'["other"] = places["other"]
    PROVE  SelectInv'
<1>1. WellFormed(action, H) /\ H' = H
  BY Shape, SameSteps DEF Under
<1>2. at \in Nat /\ at >= 1 /\ Step = H.steps[at] /\ phase = "call"
  BY Here DEF Under
<1>3. phase' = "call" /\ H.steps[1].call = "select" => at > 1
  BY <1>1, <1>2 DEF WellFormed, TryOK, Moved, Onward, Succeeds, Breaks, Cleans
<1> QED
  BY <1>1, <1>2, <1>3 DEF SelectInv

LEMMA ViewKeeps ==
    ASSUME Under, Moved, ViewInv, Step.call \notin PutsBack \cup {"cued"},
           UNCHANGED <<playhead, page, stuck, exposed>>, before'.playhead = before.playhead
    PROVE  ViewInv'
<1>1. WellFormed(action, H) /\ H' = H
  BY Shape, SameSteps DEF Under
<1>2. Step = H.steps[at] /\ at \in DOMAIN H.steps
  BY Here DEF Under
<1>3. at # H.finally /\ phase = "call"
  BY <1>1, <1>2 DEF WellFormed, TryOK, Under
<1>4. ASSUME at \in H.guarded
      PROVE  phase' = "call" /\ at' \in H.guarded \cup {H.finally}
  <2>1. at + 1 \in H.guarded \cup {H.finally} /\ H.guarded \cup {H.finally} \subseteq DOMAIN H.steps
    BY <1>1, <1>4 DEF WellFormed, TryOK
  <2>2. at # Len(H.steps)
    <3>1. at + 1 \in 1..Len(H.steps) /\ Len(H.steps) \in Nat
      BY <2>1, Here DEF Under
    <3> QED
      BY <3>1
  <2> QED
    BY <1>3, <1>4, <2>1, <2>2 DEF Moved, Onward, Succeeds, Breaks, Cleans
<1>5. \A call : Inside(call) => Inside(call)'
  BY <1>1, <1>2, <1>3, <1>4 DEF Inside
<1>6. phase' # "backup"
  BY DEF Moved, Onward, Succeeds, Breaks, Cleans
<1> QED
  BY <1>3, <1>5, <1>6 DEF ViewInv

\* The places that are always there, and the parts of them.
LEMMA Bagged ==
    ASSUME TypeOK, PlacesInv
    PROVE  /\ \A p \in Places \ {"new", "renamed"} : places[p] \in Bags
           /\ places[selected] \in Bags
           /\ \A p \in Places : places[p] \in Bags => \A part \in Parts : places[p][part] \in Nat
           /\ Tracks \cup Things \cup Properties \cup Versions \subseteq Parts
           /\ {Title, Edit, Wrong} \subseteq Parts
  BY DEF TypeOK, PlacesInv, Bags, Places, Timelines, Tracks, Things, Properties, Versions, Title,
         Edit, Wrong, Parts, Whats

\* One part of a place that is there has a new value.
Put(p, part, v) == [places EXCEPT ![p][part] = v]

LEMMA Puts ==
    ASSUME places \in [Places -> Bags \cup {None}], NEW p \in Places, places[p] \in Bags,
           NEW part \in Parts, NEW v \in Nat, places' = Put(p, part, v)
    PROVE  /\ places' \in [Places -> Bags \cup {None}]
           /\ places'[p] \in Bags /\ places'[p][part] = v
           /\ \A q \in Parts : q # part => places'[p][q] = places[p][q]
           /\ \A r \in Places : r # p => places'[r] = places[r]
<1>1. places' = [places EXCEPT ![p] = [places[p] EXCEPT ![part] = v]]
  BY DEF Put
<1>2. [places[p] EXCEPT ![part] = v] \in Bags
  BY DEF Bags
<1>3. places'[p] = [places[p] EXCEPT ![part] = v]
  BY <1>1
<1> QED
  BY <1>1, <1>2, <1>3 DEF Bags

\* A call that is not a readback shows nothing.
LEMMA Silent ==
    ASSUME Under, Step.call \notin {"present", "exact", "track", "listed", "shown", "policy"}
    PROVE  \A i \in DOMAIN H.steps : i = at => Shown(H.steps[i])'
<1>1. H' = H /\ Step = H.steps[at]
  BY SameSteps, Here DEF Under
<1> QED
  BY <1>1 DEF Shown

\* What a call leaves of the types.
LEMMA CallTypes ==
    ASSUME Under, Moved, places' \in [Places -> Bags \cup {None}], selected' \in Timelines,
           playhead' \in {"user", "cued"}, page' \in {"edit", "deliver"},
           before' \in [selected : Timelines, playhead : {"user", "cued"}, bag : Bags],
           got' \in BOOLEAN, stuck' \in BOOLEAN, exposed' \in BOOLEAN, UNCHANGED <<tries, moves, strayed>>,
           Fault \/ NoFault
    PROVE  TypeOK'
<1>1. action' = action /\ batch' = batch /\ requested' = requested /\ TypeOK
  BY DEF Under, request
<1>2. faults' \in 0..MaxFaults
  BY <1>1, ActionsAssumption DEF TypeOK, Fault, NoFault
<1>3. {failing', got', strayed', stuck', exposed'} \subseteq BOOLEAN
  <2>1. failing' \in BOOLEAN /\ strayed' \in BOOLEAN
    BY <1>1, ControlKeeps DEF TypeOK
  <2> QED
    BY <2>1, Zenon
<1>4. phase' \in {"idle", "check", "backup", "call"} /\ at' \in 0..9
      /\ outcome' \in {"none", "ok", "refused", "failed"}
  BY ControlKeeps
<1> QED
  BY <1>1, <1>2, <1>3, <1>4 DEF TypeOK

\* A call that leaves every place and the selection alone.
LEMMA SteadyKeeps ==
    ASSUME IInv, Under, Moved, UNCHANGED <<places, selected, before, got, tries, moves, strayed>>,
           Step.call \notin Makes \cup {"queue", "count", "track", "select"},
           playhead' \in {"user", "cued"}, page' \in {"edit", "deliver"},
           stuck' \in BOOLEAN, exposed' \in BOOLEAN,
           Fault \/ NoFault, ViewInv',
           Onward \/ Succeeds => \A i \in DOMAIN H.steps : i = at => Shown(H.steps[i])',
           Succeeds /\ Step.call = "kept" => selected = before.selected
    PROVE  IInv'
<1> USE DEF IInv
<1>1. TypeOK'
  BY CallTypes DEF TypeOK
<1>2. Control' /\ PlacesInv'
  BY ControlKeeps DEF PlacesInv
<1>3. Undisturbed
  BY Bagged DEF Undisturbed, Places, Timelines
<1>4. SeenInv'
  BY <1>3, SeenKeeps
<1>5. NewInv' /\ QueueInv' /\ TrackInv' /\ TitleInv' /\ SelectInv'
  BY NewKeeps, QueueKeeps, TrackKeeps, TitleKeeps, SelectKeeps
<1> QED
  BY <1>1, <1>2, <1>4, <1>5

-----------------------------------------------------------------------------
(* The calls, one by one. *)

LEMMA SettingsKeeps ==
    ASSUME IInv, Settings
    PROVE  IInv'
<1>1. Under /\ Moved /\ Step.call \in {"settings", "save"}
  BY Advances, Fails DEF IInv, Under, Settings, Calling, Moved
<1>2. /\ UNCHANGED <<places, selected, playhead, page, before, got, tries, moves, strayed,
                     stuck, exposed>>
      /\ NoFault
  BY DEF Settings, ResolveKept, resolve, history, NoFault
<1>3. ViewInv'
  BY <1>1, <1>2, ViewKeeps DEF IInv, PutsBack
<1> QED
  BY <1>1, <1>2, <1>3, Silent, SteadyKeeps DEF Makes, IInv, TypeOK

\* After an error no step is behind the action.
LEMMA Behind ==
    ASSUME Under, Breaks \/ Cleans
    PROVE  ~Onward /\ ~Succeeds
  BY DEF Breaks, Cleans, Onward, Succeeds

LEMMA ReadBackKeeps ==
    ASSUME IInv, ReadBack
    PROVE  IInv'
<1>1. /\ Under /\ Moved /\ Step.call \in Readbacks
      /\ ~Seen => Breaks \/ Cleans
  BY Advances, Fails DEF IInv, Under, ReadBack, Moved
<1>2. /\ UNCHANGED <<places, selected, playhead, page, before, got, tries, moves, strayed,
                     stuck, exposed>>
      /\ NoFault
  BY DEF ReadBack, ResolveKept, resolve, history, NoFault
<1>3. ViewInv'
  BY <1>1, <1>2, ViewKeeps DEF IInv, PutsBack, Readbacks
<1>4. Onward \/ Succeeds => Seen
  BY <1>1, Behind
<1>5. ASSUME Seen
      PROVE  \A i \in DOMAIN H.steps : i = at => Shown(H.steps[i])'
  <2>1. Step = H.steps[at] /\ H' = H /\ at \in DOMAIN H.steps /\ Step.part \in Parts
    BY <1>1, SameSteps, Here DEF Under
  <2>2. Step.call \in {"listed", "shown"} => places["new"][Step.part] = 1
    <3>1. SUFFICES ASSUME Step.call \in {"listed", "shown"}
                   PROVE  places["new"][Step.part] = 1
      OBVIOUS
    <3>2. action \in Copies /\ at = 2 /\ Step.part = H.steps[1].part
      BY <1>1, <2>1, <3>1, Shape DEF Under, WellFormed, OrderOK
    <3>3. got
      BY <1>5, <3>1 DEF Seen
    <3>4. places["new"] = [Empty EXCEPT ![Step.part] = 1]
      BY <3>2, <3>3 DEF IInv, NewInv
    <3> QED
      BY <2>1, <3>4 DEF Empty
  <2>3. Step.call = "present" => places["target"][Step.part] = Step.value
    BY <1>5 DEF Seen
  <2>4. Step.call = "exact" => places["target"] = [before.bag EXCEPT ![Step.part] = @ + 1]
    BY <1>5 DEF Seen, Exact
  <2>5. ASSUME NEW i \in DOMAIN H.steps, i = at
        PROVE  /\ H'.steps[i] = Step /\ Step.call \notin {"track", "policy"}
    BY <1>1, <2>1, <2>5 DEF Readbacks
  <2> QED
    BY <1>2, <2>2, <2>3, <2>4, <2>5 DEF Shown
<1>6. Seen /\ Step.call = "kept" => selected = before.selected
  BY DEF Seen
<1> QED
  BY <1>1, <1>2, <1>3, <1>4, <1>5, <1>6, SteadyKeeps DEF Makes, Readbacks, IInv, TypeOK

\* The calls that change the view, and the ones that put it back.
LEMMA CueKeeps ==
    ASSUME IInv, Cue
    PROVE  IInv'
<1>1. Under /\ Moved /\ Step.call = "cue"
  BY Advances, Fails DEF IInv, Under, Cue, Calling, Moved
<1>2. /\ UNCHANGED <<places, selected, page, before, got, tries, moves, strayed, stuck>>
      /\ Fault \/ NoFault
      /\ playhead' \in {"user", "cued"} /\ page' \in {"edit", "deliver"}
      /\ stuck' \in BOOLEAN /\ exposed' \in BOOLEAN
  BY DEF Cue, IInv, TypeOK
<1>3. ViewInv'
  <2>1. TryOK(H) /\ H' = H /\ at \in DOMAIN H.steps /\ Step = H.steps[at]
    BY <1>1, Shape, SameSteps, Here DEF Under, WellFormed
  <2>2. /\ at + 1 \in DOMAIN H.steps /\ H.steps[H.finally].call = "uncue"
        /\ at + 1 \in H.guarded \/ H.steps[at + 1].call = "cued"
    BY <1>1, <2>1 DEF TryOK
  <2>3. CASE UNCHANGED <<playhead, exposed>>
    BY <1>1, <1>2, <2>3, ViewKeeps DEF IInv, PutsBack
  <2>4. CASE playhead' = "cued" /\ Advance /\ UNCHANGED exposed
    <3>1. ~failing
      BY <1>1, <2>1 DEF TryOK, IInv, Control, PutsBack
    <3>2. at # Len(H.steps)
      <4>1. at + 1 \in 1..Len(H.steps) /\ Len(H.steps) \in Nat
        BY <1>1, <2>1, <2>2, Here DEF Under, TryOK
      <4> QED
        BY <4>1
    <3>3. at' = at + 1 /\ phase' = phase
      BY <2>4, <3>1, <3>2 DEF Advance
    <3>4. Inside("uncue")' /\ (~stuck /\ ~exposed => page = "edit" /\ before.playhead = "user")
      <4>1. at # H.finally
        BY <1>1, <2>1 DEF TryOK, PutsBack
      <4> QED
        BY <1>1, <2>1, <2>2, <3>3 DEF Inside, IInv, ViewInv, Under
    <3> QED
      BY <1>2, <2>4, <3>4 DEF ViewInv
  <2>5. CASE exposed' = TRUE
    BY <2>5 DEF ViewInv
  <2> QED
    BY <2>3, <2>4, <2>5 DEF Cue
<1> QED
  BY <1>1, <1>2, <1>3, Silent, SteadyKeeps DEF Makes

LEMMA CuedKeeps ==
    ASSUME IInv, Cued
    PROVE  IInv'
<1>1. Under /\ Moved /\ Step.call = "cued"
  BY Advances, Fails DEF IInv, Under, Cued, Calling, Moved
<1>2. /\ UNCHANGED <<places, selected, page, before, got, tries, moves, strayed>>
      /\ Fault \/ NoFault
      /\ playhead' \in {"user", "cued"} /\ page' \in {"edit", "deliver"}
      /\ stuck' \in BOOLEAN /\ exposed' \in BOOLEAN
  BY DEF Cued, PutBack, LeaveMoved, IInv, TypeOK
<1>3. ViewInv'
  <2>1. TryOK(H) /\ H' = H /\ at \in DOMAIN H.steps /\ Step = H.steps[at]
    BY <1>1, Shape, SameSteps, Here DEF Under, WellFormed
  <2>2. /\ at + 1 \in H.guarded /\ at \notin H.guarded /\ at # H.finally
        /\ H.steps[H.finally].call = "uncue"
    BY <1>1, <2>1 DEF TryOK, PutsBack
  <2>3. ~stuck /\ ~exposed => page = "edit" /\ before.playhead = "user"
    BY <1>1, <2>2 DEF IInv, ViewInv, Inside, Under
  <2>4. CASE Advance /\ UNCHANGED <<playhead, stuck, exposed>>
    <3>1. ~failing
      BY <2>2 DEF IInv, Control
    <3>2. at # Len(H.steps)
      <4>1. at + 1 \in 1..Len(H.steps) /\ Len(H.steps) \in Nat
        BY <1>1, <2>1, <2>2, Here DEF Under, TryOK
      <4> QED
        BY <4>1
    <3>3. at' = at + 1 /\ phase' = phase
      BY <2>4, <3>1, <3>2 DEF Advance
    <3>4. Inside("uncue")'
      BY <1>1, <2>1, <2>2, <3>3 DEF Inside, Under
    <3> QED
      BY <1>1, <1>2, <2>3, <2>4, <3>3, <3>4 DEF ViewInv, Under
  <2>5. CASE Fail /\ playhead' = before.playhead /\ UNCHANGED <<stuck, exposed>>
    <3>1. phase' = "idle"
      BY <2>2, <2>5 DEF Fail, Reply
    <3> QED
      BY <1>2, <2>3, <2>5, <3>1 DEF ViewInv
  <2>6. CASE stuck' = TRUE \/ exposed' = TRUE
    BY <2>6 DEF ViewInv
  <2> QED
    BY <2>4, <2>5, <2>6 DEF Cued, PutBack, LeaveMoved
<1> QED
  BY <1>1, <1>2, <1>3, Silent, SteadyKeeps DEF Makes

LEMMA OpenKeeps ==
    ASSUME IInv, Open
    PROVE  IInv'
<1>1. Under /\ Moved /\ Step.call = "open"
  BY Advances, Fails DEF IInv, Under, Open, Calling, Moved
<1>2. /\ UNCHANGED <<places, selected, playhead, before, got, tries, moves, strayed, stuck>>
      /\ Fault \/ NoFault
      /\ playhead' \in {"user", "cued"} /\ page' \in {"edit", "deliver"}
      /\ stuck' \in BOOLEAN /\ exposed' \in BOOLEAN
  BY DEF Open, IInv, TypeOK
<1>3. ViewInv'
  <2>1. TryOK(H) /\ H' = H /\ at \in DOMAIN H.steps /\ Step = H.steps[at]
    BY <1>1, Shape, SameSteps, Here DEF Under, WellFormed
  <2>2. at + 1 \in H.guarded /\ H.steps[H.finally].call = "close"
    BY <1>1, <2>1 DEF TryOK
  <2>3. CASE UNCHANGED <<page, exposed>>
    BY <1>1, <1>2, <2>3, ViewKeeps DEF IInv, PutsBack
  <2>4. CASE page' = "deliver" /\ Advance /\ UNCHANGED exposed
    <3>1. ~failing
      BY <1>1, <2>1 DEF TryOK, IInv, Control, PutsBack
    <3>2. at # Len(H.steps)
      <4>1. at + 1 \in 1..Len(H.steps) /\ Len(H.steps) \in Nat
        BY <1>1, <2>1, <2>2, Here DEF Under, TryOK
      <4> QED
        BY <4>1
    <3>3. at' = at + 1 /\ phase' = phase
      BY <2>4, <3>1, <3>2 DEF Advance
    <3>4. Inside("close")' /\ (~stuck /\ ~exposed => playhead = "user" /\ before.playhead = "user")
      BY <1>1, <2>1, <2>2, <3>3 DEF Inside, IInv, ViewInv, Under
    <3> QED
      BY <1>2, <2>4, <3>4 DEF ViewInv
  <2>5. CASE exposed' = TRUE
    BY <2>5 DEF ViewInv
  <2> QED
    BY <2>3, <2>4, <2>5 DEF Open
<1> QED
  BY <1>1, <1>2, <1>3, Silent, SteadyKeeps DEF Makes

LEMMA UncueKeeps ==
    ASSUME IInv, Uncue
    PROVE  IInv'
<1>1. Under /\ Moved /\ Step.call = "uncue"
  BY Advances, Fails DEF IInv, Under, Uncue, Calling, Moved
<1>2. /\ UNCHANGED <<places, selected, page, before, got, tries, moves, strayed, exposed>>
      /\ Fault \/ NoFault
      /\ playhead' \in {"user", "cued"} /\ page' \in {"edit", "deliver"}
      /\ stuck' \in BOOLEAN /\ exposed' \in BOOLEAN
  BY DEF Uncue, PutBack, LeaveMoved, IInv, TypeOK
<1>3. ViewInv'
  <2>1. Step = H.steps[at] /\ at = H.finally /\ H.steps[H.finally].call = "uncue"
    BY <1>1, Shape, Here DEF Under, WellFormed, TryOK, PutsBack
  <2>2. CASE playhead' = before.playhead /\ UNCHANGED stuck
    <3>1. ~stuck /\ ~exposed => before.playhead = "user" /\ page = "edit"
      BY <1>1, <2>1 DEF IInv, ViewInv, Inside, Under
    <3> QED
      BY <1>2, <2>2, <3>1 DEF ViewInv
  <2>3. CASE stuck' = TRUE
    BY <2>3 DEF ViewInv
  <2> QED
    BY <2>2, <2>3 DEF Uncue, PutBack, LeaveMoved
<1> QED
  BY <1>1, <1>2, <1>3, Silent, SteadyKeeps DEF Makes

LEMMA CloseKeeps ==
    ASSUME IInv, Close
    PROVE  IInv'
<1>1. Under /\ Moved /\ Step.call = "close"
  BY Advances, Fails DEF IInv, Under, Close, Calling, Moved
<1>2. /\ UNCHANGED <<places, selected, playhead, before, got, tries, moves, strayed, exposed>>
      /\ Fault \/ NoFault
      /\ playhead' \in {"user", "cued"} /\ page' \in {"edit", "deliver"}
      /\ stuck' \in BOOLEAN /\ exposed' \in BOOLEAN
  BY DEF Close, IInv, TypeOK
<1>3. ViewInv'
  <2>1. Step = H.steps[at] /\ at = H.finally /\ H.steps[H.finally].call = "close"
    BY <1>1, Shape, Here DEF Under, WellFormed, TryOK, PutsBack
  <2>2. CASE page' = "edit" /\ UNCHANGED stuck
    <3>1. ~stuck /\ ~exposed => before.playhead = "user" /\ playhead = "user"
      BY <1>1, <2>1 DEF IInv, ViewInv, Inside, Under
    <3> QED
      BY <1>2, <2>2, <3>1 DEF ViewInv
  <2>3. CASE stuck' = TRUE
    BY <2>3 DEF ViewInv
  <2> QED
    BY <2>2, <2>3 DEF Close
<1> QED
  BY <1>1, <1>2, <1>3, Silent, SteadyKeeps DEF Makes

\* The calls that select a timeline.
LEMMA SelectTimelineKeeps ==
    ASSUME IInv, SelectTimeline
    PROVE  IInv'
<1> USE DEF IInv
<1>1. Under /\ Moved /\ Step.call = "select" /\ Step = H.steps[at] /\ TryOK(H) /\ at >= 1 /\ H' = H
      /\ at \in Nat
  BY Advances, Fails, Here, Shape, SameSteps
  DEF Under, SelectTimeline, Calling, Moved, WellFormed
<1>2. /\ UNCHANGED <<places, playhead, page, before, got, tries, moves, strayed, stuck,
                     exposed>> /\ NoFault
      /\ selected' \in {selected, "target"}
  BY DEF SelectTimeline, history, NoFault
<1>3. TypeOK'
  BY <1>1, <1>2, CallTypes DEF TypeOK, Timelines
<1>4. Control' /\ PlacesInv'
  BY <1>1, <1>2, ControlKeeps DEF PlacesInv, Places, Timelines
<1>5. SeenInv'
  <2>1. Undisturbed
    BY <1>2, Bagged DEF Undisturbed, Places, Timelines
  <2> QED
    BY <1>1, <2>1, Silent, SeenKeeps
<1>6. NewInv' /\ QueueInv' /\ TrackInv' /\ TitleInv' /\ ViewInv'
  BY <1>1, <1>2, NewKeeps, QueueKeeps, TrackKeeps, TitleKeeps, ViewKeeps DEF Makes, PutsBack
<1>7. SelectInv'
  <2>1. CASE selected' = "target"
    BY <1>2, <2>1 DEF SelectInv
  <2>2. CASE UNCHANGED selected /\ Fail
    <3>1. Breaks \/ Cleans
      BY <1>1, <2>2, Fails DEF Under
    <3>2. Cleans => at > 1
      BY <1>1 DEF TryOK, Cleans
    <3> QED
      BY <1>1, <1>2, <2>2, <3>1, <3>2 DEF SelectInv, Breaks, Cleans, Under
  <2> QED
    BY <2>1, <2>2 DEF SelectTimeline
<1> QED
  BY <1>3, <1>4, <1>5, <1>6, <1>7

LEMMA ReselectKeeps ==
    ASSUME IInv, Reselect
    PROVE  IInv'
<1> USE DEF IInv
<1>1. Under /\ Moved /\ Step.call = "reselect" /\ H' = H /\ H.steps[1].call # "select"
  <2>1. Under /\ Moved /\ Step.call = "reselect"
    BY Advances, Fails DEF Under, Reselect, Calling, Moved
  <2> QED
    BY <2>1, Here, Shape, SameSteps DEF Under, WellFormed, OrderOK
<1>2. /\ UNCHANGED <<places, playhead, page, before, got, tries, moves, strayed, stuck, exposed>> /\ NoFault
      /\ selected' \in {selected, before.selected}
  BY DEF Reselect, history, NoFault
<1>3. TypeOK'
  BY <1>1, <1>2, CallTypes DEF TypeOK
<1>4. Control' /\ PlacesInv'
  BY <1>1, <1>2, ControlKeeps DEF PlacesInv
<1>5. SeenInv'
  <2>1. Undisturbed
    BY <1>2, Bagged DEF Undisturbed, Places, Timelines
  <2> QED
    BY <1>1, <2>1, Silent, SeenKeeps
<1>6. NewInv' /\ QueueInv' /\ TrackInv' /\ TitleInv' /\ ViewInv'
  BY <1>1, <1>2, NewKeeps, QueueKeeps, TrackKeeps, TitleKeeps, ViewKeeps DEF Makes, PutsBack
<1>7. SelectInv'
  BY <1>1, <1>2 DEF SelectInv
<1> QED
  BY <1>3, <1>4, <1>5, <1>6, <1>7

\* The parts of different calls are different.
LEMMA Apart ==
    /\ Properties \cap (Tracks \cup Things \cup Versions \cup {Title, Edit, Wrong}) = {}
    /\ Things \cap (Tracks \cup Versions \cup {Title, Edit, Wrong}) = {}
    /\ Tracks \cap (Versions \cup {Title, Edit, Wrong}) = {}
    /\ Versions \cap {Title, Edit, Wrong} = {}
    /\ Title # Wrong /\ Title # Edit
  BY DEF Properties, Tracks, Things, Versions, Title, Edit, Wrong

\* A call that leaves the selection and the view alone.
LEMMA CallKeeps ==
    ASSUME IInv, Under, Moved,
           UNCHANGED <<selected, playhead, page, before, tries, moves, strayed, stuck, exposed>>,
           got' \in BOOLEAN, Fault \/ NoFault,
           Step.call \notin PutsBack \cup {"select", "kept", "cued"},
           places' \in [Places -> Bags \cup {None}],
           \A p \in Places : places[p] # None => places'[p] # None,
           strayed \/ places'["other"] = places["other"],
           Undisturbed, NewInv', QueueInv', TrackInv', TitleInv',
           Onward \/ Succeeds => \A i \in DOMAIN H.steps : i = at => Shown(H.steps[i])'
    PROVE  IInv'
<1> USE DEF IInv
<1>1. TypeOK'
  BY CallTypes DEF TypeOK
<1>2. Control'
  BY ControlKeeps
<1>3. PlacesInv'
  BY DEF PlacesInv, TypeOK, Places
<1>4. SeenInv'
  BY SeenKeeps
<1>5. SelectInv' /\ ViewInv'
  BY SelectKeeps, ViewKeeps
<1> QED
  BY <1>1, <1>2, <1>3, <1>4, <1>5

\* A property is set to a value, or stays as it was.
LEMMA SetKeeps ==
    ASSUME IInv, Set
    PROVE  IInv'
<1> USE DEF IInv
<1>1. /\ Under /\ Moved /\ Step.call = "set" /\ Step.part \in Parts /\ Step.value \in Nat
      /\ UNCHANGED <<selected, playhead, page, before, got, tries, moves, strayed, stuck, exposed>>
      /\ Fault \/ NoFault
  <2>1. Under /\ Moved /\ Step.call = "set"
    BY Advances, Fails DEF Under, Set, Calling, Moved
  <2> QED
    BY <2>1, Here DEF Under, Set
<1>2. Step.part \in Properties
  BY <1>1, Shape, Here DEF Under, WellFormed, PartsOK
<1>3. Place = "target"
  BY <1>1 DEF Place
<1>4. \/ places' = places
      \/ places' = Put("target", Step.part, Step.value)
  BY <1>3 DEF Set, With, Put
<1>5. /\ "target" \in Places /\ places["target"] \in Bags
      /\ places \in [Places -> Bags \cup {None}]
  BY Bagged DEF Places, Timelines, TypeOK
<1>6. /\ places' \in [Places -> Bags \cup {None}] /\ places'["target"] \in Bags
      /\ \A q \in Parts : q # Step.part => places'["target"][q] = places["target"][q]
      /\ \A r \in Places : r # "target" => places'[r] = places[r]
  <2>1. CASE places' = places
    BY <1>5, <2>1
  <2>2. CASE places' = Put("target", Step.part, Step.value)
    BY <1>1, <1>5, <2>2, Puts
  <2> QED
    BY <1>4, <2>1, <2>2
<1>7. /\ \A q \in Tracks \cup Versions \cup {Title} : places'["target"][q] = places["target"][q]
      /\ \A r \in {"new", "queue", "other"} : places'[r] = places[r]
  BY <1>2, <1>6, Apart, Bagged DEF Places, Timelines
<1>8. Undisturbed
  BY <1>1, <1>6, <1>7, Bagged DEF Undisturbed, Places, Timelines
<1>9. NewInv' /\ QueueInv' /\ TrackInv' /\ TitleInv'
  BY <1>1, <1>7, NewKeeps, QueueKeeps, TrackKeeps, TitleKeeps DEF Makes
<1>10. \A p \in Places : places[p] # None => places'[p] # None
  BY <1>6, NoneAssumption
<1> QED
  BY <1>1, <1>6, <1>7, <1>8, <1>9, <1>10, Silent, CallKeeps DEF PutsBack, TypeOK

\* A managed color version is added where it is missing.
LEMMA VersionKeeps ==
    ASSUME IInv, Version
    PROVE  IInv'
<1> USE DEF IInv
<1>1. /\ Under /\ Moved /\ Step.call = "version" /\ Step.part \in Parts
      /\ UNCHANGED <<selected, playhead, page, before, got, tries, moves, strayed, stuck, exposed>>
      /\ Fault \/ NoFault
  <2>1. Under /\ Moved /\ Step.call = "version"
    BY Advances, Fails DEF Under, Version, Calling, Moved
  <2> QED
    BY <2>1, Here DEF Under, Version
<1>2. Step.part \in Versions
  BY <1>1, Shape, Here DEF Under, WellFormed, PartsOK
<1>3. Place = "target"
  BY <1>1 DEF Place
<1>4. \/ places' = places
      \/ places["target"][Step.part] = 0 /\ places' = Put("target", Step.part, 1)
  BY <1>3 DEF Version, VersionMissing, WithOneMore, With, Put
<1>5. /\ "target" \in Places /\ places["target"] \in Bags
      /\ places \in [Places -> Bags \cup {None}]
  BY Bagged DEF Places, Timelines, TypeOK
<1>6. /\ places' \in [Places -> Bags \cup {None}] /\ places'["target"] \in Bags
      /\ \A q \in Parts : q # Step.part => places'["target"][q] = places["target"][q]
      /\ \A r \in Places : r # "target" => places'[r] = places[r]
      /\ places'["target"][Step.part] \in {places["target"][Step.part], 1}
  <2>1. CASE places' = places
    BY <1>5, <2>1
  <2>2. CASE places' = Put("target", Step.part, 1)
    BY <1>1, <1>5, <2>2, Puts
  <2> QED
    BY <1>4, <2>1, <2>2
<1>7. /\ \A q \in Tracks \cup Properties \cup {Title} : places'["target"][q] = places["target"][q]
      /\ \A r \in {"new", "queue", "other"} : places'[r] = places[r]
  BY <1>2, <1>6, Apart, Bagged DEF Places, Timelines
<1>8. Undisturbed
  BY <1>1, <1>7, Bagged DEF Undisturbed, Places, Timelines
<1>9. NewInv' /\ QueueInv' /\ TrackInv'
  BY <1>1, <1>7, NewKeeps, QueueKeeps, TrackKeeps DEF Makes
<1>10. TitleInv'
  <2>1. \A q \in Versions : places'["target"][q] <= 1
    BY <1>2, <1>6, Bagged DEF TitleInv
  <2>2. Title \notin Versions /\ places'["target"][Title] = places["target"][Title]
    BY <1>7 DEF Title, Versions
  <2> QED
    BY <1>1, <2>1, <2>2, AheadKeeps DEF TitleInv
<1>11. \A p \in Places : places[p] # None => places'[p] # None
  BY <1>6, NoneAssumption
<1> QED
  BY <1>1, <1>6, <1>7, <1>8, <1>9, <1>10, <1>11, Silent, CallKeeps DEF PutsBack, TypeOK

\* Where a call adds something.
LEMMA PlaceOfAdd ==
    ASSUME IInv, Under, Step.call \in Adds
    PROVE  /\ Place \in Places /\ places[Place] \in Bags
           /\ Place = "new" => action \notin Copies
           /\ Place = "other" => strayed
           /\ Step.call = "queue" => Place = "queue"
           /\ Step.call = "insert" => Place = "target"
<1> USE DEF IInv
<1>1. \/ Place = "pool" /\ Step.call = "import"
      \/ Place = "queue" /\ Step.call = "queue"
      \/ Place = selected /\ Step.call = "append"
      \/ Place = "target" /\ Step.call \in {"insert", "mark"}
  BY DEF Place, Adds
<1>2. selected \in Timelines /\ places[selected] \in Bags
      /\ \A p \in {"pool", "queue", "target"} : p \in Places /\ places[p] \in Bags
  BY Bagged DEF TypeOK, Places, Timelines
<1>3. Step.call = "append" => /\ at > 1 /\ H.steps[1].call = "select"
                              /\ action \notin Copies
  BY Shape, Here DEF Under, WellFormed, OrderOK, Makes
<1>4. Step.call = "append" /\ ~strayed => selected = "target"
  BY <1>3 DEF SelectInv, Under
<1> QED
  BY <1>1, <1>2, <1>3, <1>4 DEF Places

\* The part asked for is added, or a wrong one, or none.
LEMMA AddKeeps ==
    ASSUME IInv, Add
    PROVE  IInv'
<1> USE DEF IInv
<1>1. /\ Under /\ Moved /\ Step.call \in Adds /\ Step.part \in Parts
      /\ UNCHANGED <<selected, playhead, page, before, tries, moves, strayed, stuck, exposed>>
      /\ Fault \/ NoFault
  <2>1. Under /\ Moved /\ Step.call \in Adds
    BY Advances, Fails DEF Under, Add, Calling, Moved, Adds
  <2> QED
    BY <2>1, Here DEF Under, Add
<1>2. Step.part \in Things \cup {Title}
  BY <1>1, Shape, Here DEF Under, WellFormed, PartsOK
<1>3. /\ Place \in Places /\ places[Place] \in Bags
      /\ Place = "new" => action \notin Copies
      /\ Place = "other" => strayed
      /\ Step.call = "queue" => Place = "queue"
      /\ Step.call = "insert" => Place = "target"
      /\ places \in [Places -> Bags \cup {None}]
  BY <1>1, PlaceOfAdd DEF TypeOK
<1>4. PICK part \in {Step.part, Wrong} :
          places' = places \/ places' = Put(Place, part, places[Place][part] + 1)
  BY DEF Add, Added, WithOneMore, With, Put
<1>5. part \in Parts /\ Wrong \in Parts /\ places[Place][part] \in Nat
  BY <1>1, <1>3, <1>4, Bagged
<1>6. /\ places' \in [Places -> Bags \cup {None}]
      /\ places'[Place] \in Bags /\ \A r \in Places : r # Place => places'[r] = places[r]
      /\ \A q \in Parts : q # part => places'[Place][q] = places[Place][q]
      /\ places'[Place][part] \in {places[Place][part], places[Place][part] + 1}
  <2>1. CASE places' = places
    BY <1>3, <2>1
  <2>2. CASE places' = Put(Place, part, places[Place][part] + 1)
    BY <1>3, <1>5, <2>2, Puts
  <2> QED
    BY <1>4, <2>1, <2>2
<1>7. part \in Things \cup {Title, Wrong}
  BY <1>2, <1>4
<1>8. \A p \in Places, q \in Parts :
          /\ q # part => places'[p][q] = places[p][q]
          /\ places[p] \in Bags =>
                {places[p][q], places'[p][q]} \subseteq Nat /\ places'[p][q] >= places[p][q]
  <2>1. SUFFICES ASSUME NEW p \in Places, NEW q \in Parts
                 PROVE  /\ q # part => places'[p][q] = places[p][q]
                        /\ places[p] \in Bags =>
                              /\ {places[p][q], places'[p][q]} \subseteq Nat
                              /\ places'[p][q] >= places[p][q]
    OBVIOUS
  <2>2. CASE p # Place
    BY <1>6, <2>2 DEF Bags
  <2>3. CASE p = Place
    BY <1>3, <1>5, <1>6, <2>3 DEF Bags
  <2> QED
    BY <2>2, <2>3
<1>9. \A q \in Tracks \cup Properties \cup Versions :
          q \in Parts /\ q # part /\ places'["target"][q] = places["target"][q]
  BY <1>7, <1>8, Apart, Bagged DEF Places, Timelines
<1>10. action \in Copies => places'["new"] = places["new"]
  BY <1>3, <1>6 DEF Places, Timelines
<1>11. Undisturbed
  BY <1>8, <1>9, <1>10, Bagged DEF Undisturbed, Places, Timelines
<1>12. NewInv' /\ TrackInv'
  BY <1>1, <1>9, <1>10, NewKeeps, TrackKeeps DEF Makes, Adds
<1>13. TitleInv'
  <2>1. /\ Title \notin Versions /\ Title \in Parts /\ Title # Wrong
        /\ \A q \in Versions : places'["target"][q] <= 1
    BY <1>9, Apart, Bagged DEF Title, Versions, TitleInv
  <2>2. CASE Step.call = "insert"
    <3>1. places["target"][Title] = 0
      <4>1. Ahead
        BY <1>1, <2>2, Here DEF Under, Ahead
      <4> QED
        BY <4>1 DEF TitleInv
    <3>2. Place = "target" /\ places'["target"][Title] <= 1
      BY <1>3, <1>6, <2>1, <2>2, <3>1
    <3>3. ~Ahead'
      BY <1>1, <2>2, AheadKeeps
    <3> QED
      BY <2>1, <3>2, <3>3 DEF TitleInv
  <2>3. CASE Step.call # "insert"
    <3>1. Step.part # Title
      BY <1>1, <2>3, Shape, Here, Apart DEF Under, WellFormed, PartsOK, Things, Title
    <3>2. places'["target"][Title] = places["target"][Title]
      BY <1>4, <1>8, <2>1, <3>1 DEF Places, Timelines
    <3> QED
      BY <1>1, <1>9, <3>2, TitleKeeps
  <2> QED
    BY <2>2, <2>3
<1>14. QueueInv'
  <2>1. CASE Step.call # "queue"
    BY <1>1, <2>1, QueueKeeps
  <2>2. CASE Step.call = "queue" /\ Onward /\ Step'.call = "policy" /\ got'
    <3>1. Step'.part = Step.part
      <4>1. PICK next \in DOMAIN H.steps : next = at + 1
        BY <2>2 DEF Onward
      <4>2. next - 1 = at /\ Step' = H.steps[next] /\ Step = H.steps[at]
        <5>1. at \in Nat /\ H' = H /\ at' = next /\ Step = H.steps[at]
          BY <1>1, <2>2, <4>1, Here, SameSteps DEF Under, Onward
        <5> QED
          BY <4>1, <5>1 DEF Step
      <4>3. \A i \in DOMAIN H.steps :
                H.steps[i].call = "policy" => H.steps[i].part = H.steps[i - 1].part
        BY <1>1, Shape DEF Under, WellFormed, OrderOK
      <4> QED
        BY <2>2, <4>2, <4>3
    <3>2. Added = WithOneMore(Step.part)
      BY <2>2 DEF Added
    <3>3. ~(Breaks \/ Cleans) /\ ~Fail
      BY <1>1, <2>2, Behind, Fails DEF Under
    <3>4. places' = Put("queue", Step.part, places["queue"][Step.part] + 1)
      BY <1>3, <2>2, <3>2, <3>3 DEF Add, WithOneMore, With, Put
    <3>5. places'["queue"][Step.part] = places["queue"][Step.part] + 1
          /\ places["queue"][Step.part] \in Nat
      BY <1>1, <1>3, <2>2, <3>4, Puts, Bagged
    <3> QED
      BY <3>1, <3>5 DEF QueueInv
  <2>3. CASE ~(Onward /\ Step'.call = "policy" /\ got')
    BY <1>1, <2>3, SameSteps, Shape
    DEF QueueInv, Moved, Succeeds, Breaks, Cleans
  <2> QED
    BY <2>1, <2>2, <2>3
<1>15. strayed \/ places'["other"] = places["other"]
  BY <1>3, <1>6 DEF Places, Timelines
<1>16. /\ \A p \in Places : places[p] # None => places'[p] # None
       /\ got' \in BOOLEAN
  <2>1. \A p \in Places : places[p] # None => places'[p] # None
    BY <1>6, NoneAssumption
  <2>2. got' \in BOOLEAN
    BY Zenon DEF Add, TypeOK
  <2> QED
    BY <2>1, <2>2
<1> QED
  BY <1>1, <1>6, <1>11, <1>12, <1>13, <1>14, <1>15, <1>16, Silent, CallKeeps DEF PutsBack, Adds

\* A job that was asked for is there; only another one is deleted.
LEMMA PolicyKeeps ==
    ASSUME IInv, Policy
    PROVE  IInv'
<1> USE DEF IInv
<1>1. /\ Under /\ Moved /\ Step.call = "policy" /\ Step.part \in Parts
      /\ UNCHANGED <<selected, playhead, page, before, got, tries, moves, strayed, stuck, exposed>>
      /\ NoFault
  <2>1. Under /\ Moved /\ Step.call = "policy"
    BY Advances, Fails DEF Under, Policy, Calling, Moved
  <2> QED
    BY <2>1, Here DEF Under, Policy, history, NoFault
<1>2. Step.part \in Things /\ Wrong \in Parts /\ Wrong \notin Things
  BY <1>1, Shape, Here, Bagged, Apart DEF Under, WellFormed, PartsOK
<1>3. \/ places' = places
      \/ places["queue"][Wrong] > 0 /\ places' = Put("queue", Wrong, places["queue"][Wrong] - 1)
  BY DEF Policy, Put
<1>4. /\ "queue" \in Places /\ places["queue"] \in Bags /\ places["queue"][Wrong] \in Nat
      /\ places \in [Places -> Bags \cup {None}]
  BY <1>2, Bagged DEF Places, Timelines, TypeOK
<1>5. /\ places' \in [Places -> Bags \cup {None}] /\ places'["queue"] \in Bags
      /\ \A q \in Parts : q # Wrong => places'["queue"][q] = places["queue"][q]
      /\ \A r \in Places : r # "queue" => places'[r] = places[r]
  <2>1. CASE places' = places
    BY <1>4, <2>1
  <2>2. CASE places["queue"][Wrong] > 0 /\ places' = Put("queue", Wrong, places["queue"][Wrong] - 1)
    <3>1. places["queue"][Wrong] - 1 \in Nat
      BY <1>4, <2>2
    <3> QED
      BY <1>2, <1>4, <2>2, <3>1, Puts
  <2> QED
    BY <1>3, <2>1, <2>2
<1>6. \A r \in {"new", "target", "other"} : places'[r] = places[r]
  BY <1>5 DEF Places, Timelines
<1>7. Undisturbed
  BY <1>2, <1>5, <1>6, Bagged DEF Undisturbed, Places, Timelines
<1>8. NewInv' /\ QueueInv' /\ TrackInv' /\ TitleInv'
  BY <1>1, <1>6, NewKeeps, QueueKeeps, TrackKeeps, TitleKeeps DEF Makes
<1>9. \A p \in Places : places[p] # None => places'[p] # None
  BY <1>5, NoneAssumption
<1>10. ASSUME Onward \/ Succeeds
       PROVE  \A i \in DOMAIN H.steps : i = at => Shown(H.steps[i])'
  <2>1. got /\ ~failing /\ UNCHANGED places
    BY <1>1, <1>10, Behind, Fails DEF Policy, Under, Onward, Succeeds
  <2>2. places["queue"][Step.part] > 0
    BY <1>1, <2>1 DEF QueueInv, Under
  <2>3. H' = H /\ Step = H.steps[at]
    BY <1>1, SameSteps, Here DEF Under
  <2> QED
    BY <1>1, <2>1, <2>2, <2>3 DEF Shown
<1> QED
  BY <1>1, <1>5, <1>6, <1>7, <1>8, <1>9, <1>10, CallKeeps DEF PutsBack, TypeOK

\* The bridge knows the tracks it counted.
LEMMA CountKeeps ==
    ASSUME IInv, Count
    PROVE  IInv'
<1> USE DEF IInv
<1>1. /\ Under /\ Moved /\ Step.call = "count" /\ H' = H
      /\ UNCHANGED <<places, selected, playhead, page, got, tries, moves, strayed, stuck, exposed>>
      /\ NoFault
      /\ before' = [before EXCEPT !.bag = places["target"]]
  <2>1. Under /\ Moved /\ Step.call = "count"
    BY Advances DEF Under, Count, Calling
  <2> QED
    BY <2>1, SameSteps DEF Under, Count, ResolveKept, resolve, history, NoFault
<1>2. /\ before' \in [selected : Timelines, playhead : {"user", "cued"}, bag : Bags]
      /\ before'.selected = before.selected /\ before'.playhead = before.playhead
      /\ before'.bag = places["target"]
  BY <1>1, Bagged DEF TypeOK, Places, Timelines
<1>3. TypeOK' /\ Control' /\ PlacesInv'
  BY <1>1, <1>2, CallTypes, ControlKeeps DEF TypeOK, PlacesInv
<1>4. SeenInv'
  <2>1. Undisturbed
    BY <1>1, Bagged DEF Undisturbed, Places, Timelines
  <2> QED
    BY <1>1, <2>1, Silent, SeenKeeps
<1>5. NewInv' /\ QueueInv' /\ TitleInv' /\ SelectInv' /\ ViewInv'
  BY <1>1, <1>2, NewKeeps, QueueKeeps, TitleKeeps, SelectKeeps, ViewKeeps DEF Makes, PutsBack
<1>6. TrackInv'
  BY <1>1, <1>2 DEF TrackInv
<1> QED
  BY <1>3, <1>4, <1>5, <1>6

\* One track more, as long as the bridge knows of too few.
LEMMA TrackStepKeeps ==
    ASSUME IInv, Track
    PROVE  IInv'
<1> USE DEF IInv
<1> DEFINE known == before.bag[Step.part]
<1>1. /\ Under /\ Step.call = "track" /\ Step = H.steps[at] /\ H' = H /\ at \in DOMAIN H.steps
      /\ UNCHANGED <<selected, playhead, page, got, tries, moves, strayed, stuck, exposed>>
      /\ Fault \/ NoFault
  <2>1. Under /\ Step.call = "track"
    BY DEF Under, Track, Calling
  <2> QED
    BY <2>1, SameSteps, Here DEF Under, Track
<1>2. Step.part \in Tracks /\ Tracks \subseteq Parts
  BY <1>1, Shape, Bagged DEF Under, WellFormed, PartsOK
<1>3. /\ "target" \in Places /\ places["target"] \in Bags /\ Wanted \in Nat
      /\ places \in [Places -> Bags \cup {None}]
      /\ \A q \in Parts : places["target"][q] \in Nat
  BY Bagged, ActionsAssumption DEF Places, Timelines, TypeOK
<1>4. \A track \in Tracks :
          before.bag[track] = places["target"][track] /\ places["target"][track] <= Wanted
  BY <1>1 DEF TrackInv, Under
<1>5. Place = "target"
  BY <1>1 DEF Place
<1>6. known \in Nat /\ known = places["target"][Step.part]
  BY <1>2, <1>3, <1>4
<1>7. \/ places' = places
      \/ known < Wanted /\ places' = Put("target", Step.part, known + 1)
  BY <1>5, <1>6 DEF Track, WithOneMore, With, Put
<1> HIDE DEF known
<1>8. /\ places' \in [Places -> Bags \cup {None}] /\ places'["target"] \in Bags
      /\ \A q \in Parts : q # Step.part => places'["target"][q] = places["target"][q]
      /\ \A r \in Places : r # "target" => places'[r] = places[r]
      /\ places'["target"][Step.part] \in {known, known + 1}
      /\ places'["target"][Step.part] <= Wanted
  <2>1. CASE places' = places
    BY SMTT(30), <1>2, <1>3, <1>4, <1>6, <2>1
  <2>2. CASE known < Wanted /\ places' = Put("target", Step.part, known + 1)
    <3>1. known + 1 \in Nat /\ Step.part \in Parts
      BY <1>2, <1>6
    <3>2. /\ places' \in [Places -> Bags \cup {None}] /\ places'["target"] \in Bags
          /\ \A q \in Parts : q # Step.part => places'["target"][q] = places["target"][q]
          /\ \A r \in Places : r # "target" => places'[r] = places[r]
          /\ places'["target"][Step.part] = known + 1
      BY <1>3, <2>2, <3>1, Puts
    <3> QED
      BY <1>3, <1>6, <2>2, <3>2
  <2> QED
    BY <1>7, <2>1, <2>2
<1>9. /\ \A q \in Properties \cup Versions \cup {Title} : places'["target"][q] = places["target"][q]
      /\ \A r \in {"new", "queue", "other"} : places'[r] = places[r]
      /\ \A track \in Tracks : places'["target"][track] <= Wanted
  BY <1>2, <1>4, <1>8, Apart, Bagged DEF Places, Timelines
<1>10. Undisturbed
  <2>1. \A track \in Tracks :
            /\ {places["target"][track], places'["target"][track]} \subseteq Nat
            /\ places'["target"][track] >= places["target"][track]
    BY <1>2, <1>3, <1>6, <1>8
  <2> QED
    BY <1>9, <2>1, Bagged DEF Undisturbed, Places, Timelines
<1>11. \A p \in Places : places[p] # None => places'[p] # None
  BY <1>8, NoneAssumption
<1>12. CASE Moved /\ UNCHANGED before /\ (Onward \/ Succeeds => UNCHANGED places /\ known >= Wanted)
  <2>1. NewInv' /\ QueueInv' /\ TitleInv'
    BY <1>1, <1>9, <1>12, NewKeeps, QueueKeeps, TitleKeeps DEF Makes
  <2>2. TrackInv'
    <3>1. CASE Onward
      BY <1>1, <1>4, <1>12, <3>1 DEF TrackInv
    <3>2. CASE Succeeds \/ Breaks
      BY <1>9, <3>2 DEF TrackInv, Succeeds, Breaks
    <3>3. CASE Cleans
      <4>1. H.steps[H.finally].call # "track"
        BY <1>1, <3>3, Shape DEF Under, WellFormed, TryOK, Cleans, PutsBack
      <4> QED
        BY <1>1, <1>9, <3>3, <4>1 DEF TrackInv, Cleans, Step
    <3> QED
      BY <1>12, <3>1, <3>2, <3>3 DEF Moved
  <2>3. ASSUME Onward \/ Succeeds
        PROVE  \A i \in DOMAIN H.steps : i = at => Shown(H.steps[i])'
    BY <1>1, <1>6, <1>12, <2>3 DEF Shown
  <2> QED
    BY <1>1, <1>8, <1>9, <1>10, <1>11, <1>12, <2>1, <2>2, <2>3, CallKeeps DEF PutsBack, TypeOK
<1>13. CASE /\ places' = Put("target", Step.part, known + 1)
            /\ before' = [before EXCEPT !.bag[Step.part] = known + 1]
            /\ NoFault /\ UNCHANGED <<phase, at, failing, outcome>>
  <2>1. /\ before' \in [selected : Timelines, playhead : {"user", "cued"}, bag : Bags]
        /\ before'.selected = before.selected /\ before'.playhead = before.playhead
        /\ before'.bag = [before.bag EXCEPT ![Step.part] = known + 1]
    BY <1>2, <1>6, <1>13 DEF TypeOK, Bags
  <2>2. places'["target"][Step.part] = known + 1
    BY <1>2, <1>3, <1>6, <1>13, Puts
  <2>3. \A track \in Tracks : before'.bag[track] = places'["target"][track]
    BY SMTT(30), <1>2, <1>4, <1>8, <2>1, <2>2 DEF TypeOK, Bags
  <2>4. TypeOK'
    BY <1>1, <1>8, <1>13, <2>1 DEF TypeOK, Under, request, NoFault
  <2>5. Control' /\ UNCHANGED <<action, batch>>
    BY <1>1, <1>13 DEF Control, Under, request, ValidBatch, IsInjective
  <2>6. PlacesInv'
    BY <1>1, <1>11, <2>1 DEF PlacesInv, TypeOK, Places
  <2>7. SeenInv'
    <3>1. phase = "call" /\ outcome = "none"
      BY <1>1 DEF Under, Control
    <3>2. \A i \in 1..at - 1 : i \in DOMAIN H.steps /\ i < at
      BY SMTT(30), <1>1, Here DEF Under
    <3> QED
      BY <1>1, <1>10, <1>13, <3>1, <3>2, ShownKeeps DEF SeenInv
  <2>8. NewInv' /\ QueueInv' /\ TrackInv'
    <3>1. NewInv'
      BY <1>1, <1>9, <1>13, <2>5 DEF NewInv
    <3>2. QueueInv'
      BY <1>1, <1>9, <1>13 DEF QueueInv, Step
    <3>3. TrackInv'
      BY <1>9, <2>3 DEF TrackInv
    <3> QED
      BY <3>1, <3>2, <3>3
  <2>9. TitleInv' /\ SelectInv' /\ ViewInv'
    BY <1>1, <1>9, <1>13, <2>1 DEF TitleInv, Ahead, SelectInv, ViewInv, Inside
  <2> QED
    BY <2>4, <2>5, <2>6, <2>7, <2>8, <2>9
<1>14. CASE known >= Wanted /\ Advance /\ UNCHANGED <<places, before>>
  BY <1>1, <1>12, <1>14, Advances DEF Under
<1>15. CASE Fail /\ UNCHANGED before
  <2>1. (Breaks \/ Cleans) /\ Moved /\ ~Onward /\ ~Succeeds
    BY <1>1, <1>15, Fails, Behind DEF Under, Moved
  <2> QED
    BY <1>12, <1>15, <2>1
<1>16. \/ known >= Wanted /\ Advance /\ UNCHANGED <<places, before>>
       \/ Fail /\ UNCHANGED before
       \/ /\ places' = Put("target", Step.part, known + 1)
          /\ before' = [before EXCEPT !.bag[Step.part] = known + 1]
          /\ NoFault /\ UNCHANGED <<phase, at, failing, outcome>>
  BY <1>5, <1>6 DEF Track, known, WithOneMore, With, Put
<1> QED
  BY <1>13, <1>14, <1>15, <1>16

\* What is new is there once where there was nothing.
LEMMA Appearance ==
    ASSUME TypeOK, Step.part \in Parts, NEW name \in Made, Appears(name)
    PROVE  /\ places' \in [Places -> Bags \cup {None}] /\ places'[name] \in Bags
           /\ \A r \in Places : r # name => places'[r] = places[r]
           /\ places[name] = None => places'[name] = [Empty EXCEPT ![Step.part] = 1]
<1>1. name \in Places /\ places \in [Places -> Bags \cup {None}]
  BY DEF Made, Places, Timelines, TypeOK
<1> DEFINE old == IF places[name] = None THEN Empty ELSE places[name]
           more == [old EXCEPT ![Step.part] = old[Step.part] + 1]
<1>2. old \in Bags /\ Empty[Step.part] + 1 = 1
  BY <1>1 DEF Empty, Bags
<1>3. places' = [places EXCEPT ![name] = more]
  BY Zenon DEF Appears
<1>4. places[name] = None => more = [Empty EXCEPT ![Step.part] = 1]
  BY <1>2
<1> HIDE DEF old
<1>5. more \in Bags
  BY <1>2 DEF Bags
<1> HIDE DEF more
<1> QED
  BY <1>1, <1>3, <1>4, <1>5

\* A copy or a project is made where there is none; another new timeline need not be.
LEMMA MakeKeeps ==
    ASSUME IInv, Make
    PROVE  IInv'
<1> USE DEF IInv
<1>1. /\ Under /\ Moved /\ Step.call \in Makes /\ Step.part \in Parts /\ H' = H
      /\ at = 1 /\ Step = H.steps[1]
      /\ UNCHANGED <<playhead, page, before, tries, moves, strayed, stuck, exposed>>
      /\ Fault \/ NoFault
      /\ got' \in BOOLEAN
  <2>1. Under /\ Moved /\ Step.call \in Makes
    BY Advances, Fails DEF Under, Make, Calling, Moved, Makes
  <2>2. at = 1 /\ Step = H.steps[1]
    BY <2>1, Shape, Here DEF Under, WellFormed, OrderOK
  <2> QED
    BY <2>1, <2>2, SameSteps, Here DEF Under, Make
<1>2. \/ UNCHANGED <<places, selected>> /\ got' = FALSE
      \/ \E name \in Made :
            Appears(name) /\ selected' \in {selected, name} /\ (got' => name = "new")
  BY DEF Make, Made
<1>3. ASSUME NEW name \in Made, Appears(name)
      PROVE  /\ places' \in [Places -> Bags \cup {None}] /\ places'[name] \in Bags
             /\ \A r \in Places : r # name => places'[r] = places[r]
             /\ places[name] = None => places'[name] = [Empty EXCEPT ![Step.part] = 1]
  BY <1>1, <1>3, Appearance
<1>4. /\ places' \in [Places -> Bags \cup {None}] /\ selected' \in Timelines
      /\ places'[selected'] # None
      /\ \A r \in Places \ Made : places'[r] = places[r]
      /\ \A p \in Places : places[p] # None => places'[p] # None
  <2>1. /\ Made \subseteq Places /\ Made \subseteq Timelines /\ Timelines \subseteq Places
        /\ selected \in Timelines /\ places[selected] # None
        /\ places \in [Places -> Bags \cup {None}]
    BY DEF Made, Places, Timelines, TypeOK, PlacesInv
  <2>2. CASE UNCHANGED <<places, selected>>
    BY <2>1, <2>2
  <2>3. ASSUME NEW name \in Made, Appears(name), selected' \in {selected, name}
        PROVE  <1>4!1 /\ <1>4!2 /\ <1>4!3 /\ <1>4!4
    BY <1>3, <2>1, <2>3, NoneAssumption
  <2> QED
    BY <1>2, <2>2, <2>3
<1>5. /\ places["new"] = None =>
            places'["new"] \in {None, [Empty EXCEPT ![Step.part] = 1]}
      /\ got' => places'["new"] # None
  <2>1. CASE UNCHANGED places /\ got' = FALSE
    BY <2>1
  <2>2. ASSUME NEW name \in Made, Appears(name), got' => name = "new"
        PROVE  <1>5!1 /\ <1>5!2
    <3>1. "new" \in Places
      BY DEF Places, Timelines
    <3> QED
      BY <1>3, <2>2, <3>1, NoneAssumption
  <2> QED
    BY <1>2, <2>1, <2>2
<1>6. \A r \in {"target", "queue", "other"} : places'[r] = places[r]
  BY <1>4 DEF Places, Timelines, Made
<1>7. TypeOK'
  BY <1>1, <1>4, CallTypes DEF TypeOK
<1>8. Control'
  BY <1>1, ControlKeeps
<1>9. PlacesInv'
  BY <1>1, <1>4 DEF PlacesInv, TypeOK, Places
<1>10. SeenInv'
  <2>1. Undisturbed
    BY <1>1, <1>6, Bagged DEF Undisturbed, Places, Timelines
  <2> QED
    BY <1>1, <2>1, Silent, SeenKeeps DEF Makes
<1>11. NewInv'
  <2>1. phase' # "backup" /\ at' # 1
    BY <1>1, Shape DEF Under, WellFormed, TryOK, Moved, Onward, Succeeds, Breaks, Cleans
  <2>2. action \in Copies => places["new"] = None
    BY <1>1 DEF NewInv
  <2> QED
    BY <1>1, <1>5, <2>1, <2>2 DEF NewInv, Under, request
<1>12. QueueInv' /\ TrackInv' /\ TitleInv'
  BY <1>1, <1>6, QueueKeeps, TrackKeeps, TitleKeeps DEF Makes
<1>13. SelectInv' /\ ViewInv'
  <2>1. ViewInv'
    BY <1>1, ViewKeeps DEF Makes, PutsBack
  <2>2. H.steps[1].call # "select"
    BY <1>1 DEF Makes
  <2> QED
    BY <1>1, <1>6, <2>1, <2>2 DEF SelectInv
<1> QED
  BY <1>7, <1>8, <1>9, <1>10, <1>11, <1>12, <1>13

-----------------------------------------------------------------------------
(* Before the first call, and the user. *)

\* Nothing of Resolve changes before the first call.
LEMMA SendKeeps ==
    ASSUME IInv, Send
    PROVE  IInv'
<1> USE DEF IInv
<1>1. /\ UNCHANGED <<action, batch, requested, places, selected, playhead, page, before, got>>
      /\ UNCHANGED <<faults, moves, strayed, stuck, exposed>> /\ phase = "idle" /\ H' = H
  BY SameSteps DEF Send, ResolveKept, resolve, history, request
<1>2. at = 0 /\ ~failing
  BY <1>1 DEF Control
<1>3. /\ phase' \in {"idle", "check"} /\ outcome' \in {"none", "refused"} /\ at' = 0
      /\ phase' = "check" => outcome' = "none" /\ ValidBatch(action, batch)
  BY <1>2 DEF Send, Reply
<1>4. ~failing' /\ failing' \in BOOLEAN
  BY <1>2, Zenon DEF Send, Reply, TypeOK
<1>5. tries' \in 0..MaxTries
  BY ActionsAssumption DEF Send, TypeOK
<1>6. TypeOK'
  <2>1. {failing', got', strayed', stuck', exposed'} \subseteq BOOLEAN
    BY <1>1, <1>4, Zenon DEF TypeOK
  <2> QED
    BY <1>1, <1>3, <1>5, <2>1 DEF TypeOK
<1>7. Control'
  BY <1>1, <1>3, <1>4 DEF Control, ValidBatch, IsInjective
<1>8. PlacesInv' /\ SeenInv' /\ NewInv' /\ QueueInv' /\ TrackInv'
  BY <1>1, <1>3 DEF PlacesInv, SeenInv, NewInv, QueueInv, TrackInv
<1>9. TitleInv' /\ SelectInv' /\ ViewInv'
  BY <1>1, <1>3 DEF TitleInv, Ahead, SelectInv, ViewInv, Inside
<1> QED
  BY <1>6, <1>7, <1>8, <1>9

LEMMA RefuseKeeps ==
    ASSUME IInv, Refuse
    PROVE  IInv'
<1> USE DEF IInv
<1>1. /\ UNCHANGED <<action, batch, requested, places, selected, playhead, page, before, got>>
      /\ UNCHANGED <<tries, faults, moves, strayed, stuck, exposed>> /\ H' = H
      /\ phase \in {"check", "backup"}
      /\ phase' = "idle" /\ at' = 0 /\ outcome' = "refused" /\ failing' = FALSE
  BY SameSteps DEF Refuse, Reply, ResolveKept, resolve, history, request
<1>2. TypeOK'
  <2>1. {failing', got', strayed', stuck', exposed'} \subseteq BOOLEAN
    BY <1>1, Zenon DEF TypeOK
  <2> QED
    BY <1>1, <2>1 DEF TypeOK
<1>3. Control'
  BY <1>1 DEF Control
<1>4. PlacesInv' /\ SeenInv' /\ NewInv' /\ QueueInv' /\ TrackInv'
  BY <1>1 DEF PlacesInv, SeenInv, NewInv, QueueInv, TrackInv
<1>5. TitleInv' /\ SelectInv' /\ ViewInv'
  BY <1>1 DEF TitleInv, Ahead, SelectInv, ViewInv, Inside
<1> QED
  BY <1>2, <1>3, <1>4, <1>5

\* What the bridge requires of the project, it has from here to the backup.
LEMMA CheckKeeps ==
    ASSUME IInv, Check
    PROVE  IInv'
<1> USE DEF IInv
<1>1. /\ UNCHANGED <<action, batch, requested, places, selected, playhead, page, got>>
      /\ UNCHANGED <<tries, faults, moves, strayed, stuck, exposed, at, failing, outcome>>
      /\ phase = "check" /\ phase' = "backup" /\ H' = H
      /\ before' = [selected |-> selected, playhead |-> playhead, bag |-> places["target"]]
      /\ \A need \in H.needs : Holds(need)
  BY SameSteps DEF Check, ResolveKept, resolve, history, request
<1>2. /\ before' \in [selected : Timelines, playhead : {"user", "cued"}, bag : Bags]
      /\ before'.selected = selected /\ before'.playhead = playhead
  BY <1>1, Bagged DEF TypeOK, Places, Timelines
<1>3. TypeOK'
  BY <1>1, <1>2 DEF TypeOK
<1>4. Control' /\ outcome = "none" /\ at = 0
  BY <1>1 DEF Control, ValidBatch, IsInjective
<1>5. PlacesInv' /\ SeenInv' /\ QueueInv' /\ TrackInv' /\ SelectInv'
  BY <1>1, <1>2, <1>4 DEF PlacesInv, SeenInv, QueueInv, TrackInv, SelectInv
<1>6. WellFormed(action, H)
  BY <1>1, Shape
<1>7. NewInv'
  <2>1. action \in Copies => places["new"] = None
    BY <1>1, <1>6 DEF WellFormed, Holds
  <2> QED
    BY <1>1, <1>4, <2>1 DEF NewInv
<1>8. TitleInv'
  <2>1. ASSUME Ahead'
        PROVE  places["target"][Title] = 0
    <3>1. PICK need \in H.needs : need \in {"at_or_after_the_end", "at_the_end"}
      BY <1>1, <1>6, <2>1 DEF Ahead, WellFormed, OrderOK
    <3>2. requested >= End /\ requested \in Nat
      <4>1. requested \in Nat
        BY DEF TypeOK
      <4> QED
        BY <1>1, <3>1, <4>1 DEF Holds
    <3>3. places["target"][Title] \in Nat
      BY Bagged DEF Places, Timelines
    <3> QED
      BY <3>2, <3>3 DEF End, Title
  <2> QED
    BY <1>1, <2>1 DEF TitleInv
<1>9. ViewInv'
  BY <1>1, <1>2 DEF ViewInv, Inside
<1> QED
  BY <1>3, <1>4, <1>5, <1>7, <1>8, <1>9

LEMMA BackUpKeeps ==
    ASSUME IInv, BackUp
    PROVE  IInv'
<1> USE DEF IInv
<1>1. /\ UNCHANGED <<action, batch, requested, places, selected, playhead, page, before, got>>
      /\ UNCHANGED <<tries, faults, moves, strayed, stuck, exposed, failing, outcome>>
      /\ phase = "backup" /\ phase' = "call" /\ at' = 1 /\ H' = H
  BY SameSteps DEF BackUp, ResolveKept, resolve, history, request
<1>2. WellFormed(action, H) /\ 1 \in DOMAIN H.steps /\ DOMAIN H.steps = 1..Len(H.steps)
      /\ Len(H.steps) \in Nat
  BY <1>1, Shape DEF WellFormed, StepTypeOK
<1>3. TypeOK'
  BY <1>1 DEF TypeOK
<1>4. Control' /\ ~failing /\ outcome = "none" /\ at = 0
  BY <1>1, <1>2 DEF Control, ValidBatch, IsInjective
<1>5. H.steps[1].call \notin {"track", "policy"}
  BY <1>2 DEF WellFormed, OrderOK
<1>6. PlacesInv' /\ SeenInv' /\ NewInv' /\ QueueInv' /\ TrackInv' /\ SelectInv'
  BY <1>1, <1>4, <1>5 DEF PlacesInv, SeenInv, NewInv, QueueInv, TrackInv, SelectInv, Step
<1>7. TitleInv'
  BY <1>1, <1>2, <1>4 DEF TitleInv, Ahead
<1>8. ViewInv'
  BY <1>1 DEF ViewInv, Inside
<1> QED
  BY <1>3, <1>4, <1>6, <1>7, <1>8

\* The user edits the timeline, selects another one, or moves the playhead.
LEMMA UserMovesKeeps ==
    ASSUME IInv, UserMoves
    PROVE  IInv'
<1> USE DEF IInv
<1>1. /\ UNCHANGED <<action, batch, requested, page, phase, at, before, failing, got, outcome>>
      /\ UNCHANGED <<tries, faults, stuck, exposed>> /\ H' = H /\ phase # "idle" /\ moves' \in 0..MaxMoves
  BY SameSteps, ActionsAssumption DEF UserMoves, request, TypeOK
<1>2. \/ /\ UNCHANGED <<places, playhead>> /\ strayed' = TRUE
         /\ selected' \in Timelines /\ places[selected'] # None
      \/ /\ UNCHANGED <<selected, strayed, playhead>>
         /\ places' = Put("target", Edit, places["target"][Edit] + 1)
      \/ UNCHANGED <<places, selected, strayed>> /\ playhead' = "user"
  BY DEF UserMoves, Put
<1>3. /\ "target" \in Places /\ places["target"] \in Bags /\ Edit \in Parts
      /\ places["target"][Edit] + 1 \in Nat /\ places \in [Places -> Bags \cup {None}]
  BY Bagged DEF Places, Timelines, TypeOK
<1>4. /\ places' \in [Places -> Bags \cup {None}] /\ places'["target"] \in Bags
      /\ \A q \in Parts : q # Edit => places'["target"][q] = places["target"][q]
      /\ \A r \in Places : r # "target" => places'[r] = places[r]
  <2>1. CASE places' = places
    BY <1>3, <2>1
  <2>2. CASE places' = Put("target", Edit, places["target"][Edit] + 1)
    BY <1>3, <2>2, Puts
  <2> QED
    BY <1>2, <2>1, <2>2
<1>5. /\ \A q \in Tracks \cup Properties \cup Versions \cup {Title} :
             places'["target"][q] = places["target"][q]
      /\ \A r \in {"new", "queue", "other"} : places'[r] = places[r]
      /\ \A p \in Places : places[p] # None => places'[p] # None
  BY <1>4, Apart, Bagged, NoneAssumption DEF Places, Timelines
<1>6. TypeOK'
  <2>1. {failing', got', strayed', stuck', exposed'} \subseteq BOOLEAN
    BY <1>1, <1>2, Zenon DEF TypeOK
  <2> QED
    BY <1>1, <1>2, <1>4, <2>1 DEF TypeOK
<1>7. Control' /\ outcome = "none"
  BY <1>1 DEF Control, ValidBatch, IsInjective
<1>8. PlacesInv'
  BY <1>1, <1>2, <1>5 DEF PlacesInv, TypeOK, Places
<1>9. SeenInv'
  <2>1. CASE phase = "call"
    <3>1. Under
      BY <1>1, <2>1 DEF Under, request
    <3>2. Undisturbed
      BY <1>5, Bagged DEF Undisturbed, Places, Timelines
    <3>3. \A i \in 1..at - 1 : i \in DOMAIN H.steps /\ i < at
      BY <2>1, Here
    <3> QED
      BY <1>1, <1>7, <2>1, <3>1, <3>2, <3>3, ShownKeeps DEF SeenInv
  <2>2. CASE phase # "call"
    BY <1>1, <1>7, <2>2 DEF SeenInv
  <2> QED
    BY <2>1, <2>2
<1>10. NewInv' /\ QueueInv' /\ TrackInv'
  BY <1>1, <1>5 DEF NewInv, QueueInv, TrackInv, Step
<1>11. TitleInv' /\ SelectInv'
  BY <1>1, <1>2, <1>5 DEF TitleInv, Ahead, SelectInv
<1>12. ViewInv'
  BY <1>1, <1>2 DEF ViewInv, Inside
<1> QED
  BY <1>6, <1>7, <1>8, <1>9, <1>10, <1>11, <1>12

-----------------------------------------------------------------------------
(* The theorems. *)

LEMMA InitHolds ==
    ASSUME Init
    PROVE  IInv
<1>1. /\ Empty \in Bags /\ Empty # None /\ \A part \in Parts : Empty[part] = 0
      /\ Title \in Parts /\ Tracks \subseteq Parts /\ Versions \subseteq Parts
  BY NoneAssumption DEF Empty, Bags, Title, Tracks, Versions, Parts, Whats
<1>2. /\ places \in [Places -> Bags \cup {None}]
      /\ \A p \in Places : places[p] = IF p \in Made THEN None ELSE Empty
      /\ places["target"] = Empty /\ places["other"] = Empty /\ places["new"] = None
  BY <1>1 DEF Init, Places, Timelines, Made
<1>3. TypeOK
  <2>1. before \in [selected : Timelines, playhead : {"user", "cued"}, bag : Bags]
    BY <1>1 DEF Init, Timelines
  <2>2. {failing, got, strayed, stuck, exposed} \subseteq BOOLEAN
    BY Zenon DEF Init
  <2>3. /\ requested \in 0..1 /\ tries \in 0..MaxTries
        /\ faults \in 0..MaxFaults /\ moves \in 0..MaxMoves
    BY ActionsAssumption DEF Init
  <2> QED
    BY <1>2, <2>1, <2>2, <2>3 DEF Init, TypeOK, Timelines
<1>4. Control
  BY DEF Init, Control
<1>5. PlacesInv
  BY <1>1, <1>2 DEF Init, PlacesInv, Places, Timelines, Made
<1>6. SeenInv /\ QueueInv /\ SelectInv /\ ViewInv
  BY <1>2 DEF Init, SeenInv, QueueInv, SelectInv, ViewInv
<1>7. NewInv
  BY <1>2 DEF Init, NewInv
<1>8. TrackInv /\ TitleInv
  BY <1>1, <1>2, ActionsAssumption DEF Init, TrackInv, TitleInv, Ahead
<1> QED
  BY <1>3, <1>4, <1>5, <1>6, <1>7, <1>8 DEF IInv

LEMMA NextKeeps ==
    ASSUME IInv, [Next]_vars
    PROVE  IInv'
<1>1. CASE UNCHANGED vars
  <2>1. /\ UNCHANGED <<action, batch, requested, places, selected, playhead, page, phase, at>>
        /\ UNCHANGED <<before, failing, got, outcome, tries, faults, moves, strayed, stuck,
                       exposed>>
        /\ H' = H
    BY <1>1, SameSteps DEF vars, request, resolve, history
  <2>2. TypeOK' /\ Control' /\ PlacesInv'
    BY <2>1 DEF IInv, TypeOK, Control, PlacesInv, ValidBatch, IsInjective
  <2>3. SeenInv' /\ NewInv' /\ QueueInv' /\ TrackInv'
    BY <2>1 DEF IInv, SeenInv, SuccessIsSeen, Shown, NewInv, QueueInv, TrackInv, Step
  <2>4. TitleInv' /\ SelectInv' /\ ViewInv'
    BY <2>1 DEF IInv, TitleInv, Ahead, SelectInv, ViewInv, Inside
  <2> QED
    BY <2>2, <2>3, <2>4 DEF IInv
<1>2. CASE Send \/ Check \/ Refuse \/ BackUp \/ UserMoves
  BY <1>2, SendKeeps, CheckKeeps, RefuseKeeps, BackUpKeeps, UserMovesKeeps
<1>3. CASE Add \/ Set \/ Version \/ Count \/ Track \/ Make
  BY <1>3, AddKeeps, SetKeeps, VersionKeeps, CountKeeps, TrackStepKeeps, MakeKeeps
<1>4. CASE SelectTimeline \/ Reselect \/ Cue \/ Cued \/ Uncue \/ Open \/ Close \/ Settings
  BY <1>4, SelectTimelineKeeps, ReselectKeeps, CueKeeps, UncueKeeps, OpenKeeps, CloseKeeps,
     CuedKeeps, SettingsKeeps
<1>5. CASE ReadBack \/ Policy
  BY <1>5, ReadBackKeeps, PolicyKeeps
<1> QED
  BY <1>1, <1>2, <1>3, <1>4, <1>5 DEF Next

\* Between two calls of any action of _execute_write_command, what was read back so
\* far still holds, nothing is there a second time, and the finally clause is yet to
\* come where it is needed.
THEOREM ActionsInvariant == Spec => []IInv
<1>1. Init => IInv
  BY InitHolds
<1>2. IInv /\ [Next]_vars => IInv'
  BY NextKeeps
<1> QED
  BY <1>1, <1>2, PTL DEF Spec

\* The bridge is always at one of its steps, and remembers a timeline, a playhead and
\* the items of a timeline as they were before the action.
THEOREM TypeOKHolds == Spec => []TypeOK
<1>1. IInv => TypeOK
  BY DEF IInv
<1> QED
  BY <1>1, ActionsInvariant, PTL

\* _execute_write_command answers "success" for an action that reads its work back
\* only when every element of it is in the named timeline, whatever the interface of
\* Resolve claimed and whatever an earlier attempt left behind.
THEOREM SuccessIsSeenHolds == Spec => []SuccessIsSeen
<1>1. IInv => SuccessIsSeen
  BY DEF IInv, SeenInv, SuccessIsSeen
<1> QED
  BY <1>1, ActionsInvariant, PTL

\* Another timeline is touched only if the user selects it while an action runs; and
\* the playhead and the page are put back on every way out of the title, animation and
\* render actions, unless the call that does so fails, or the error comes before the
\* try block, from the call that moved them or the readback of the playhead.
THEOREM NothingElseChangesHolds == Spec => []NothingElseChanges
<1>1. IInv => NothingElseChanges
  BY DEF IInv, SeenInv, SelectInv, ViewInv, Inside, NothingElseChanges
<1> QED
  BY <1>1, ActionsInvariant, PTL

\* A write that failed in the middle leaves no receipt and runs again under its key;
\* however often it does, the checks before its calls keep it from adding a second
\* title, color version, copy or project of the name asked for, or a track too many.
THEOREM RepeatAddsNothingHolds == Spec => []RepeatAddsNothing
<1>1. ASSUME IInv
      PROVE  RepeatAddsNothing
  <2>1. /\ \A part \in Unrepeatable : places["target"][part] <= 1
        /\ \A type \in {"video", "audio"} : places["target"][<<type, 1>>] <= Wanted
    BY <1>1 DEF IInv, TitleInv, TrackInv, Unrepeatable, Title, Versions, Tracks
  <2>2. ASSUME action \in Copies, places["new"] # None
        PROVE  \E part \in Parts : places["new"] = [Empty EXCEPT ![part] = 1]
    <3>1. ValidBatch(action, batch)
      BY <2>2 DEF ValidBatch, Batched, Copies
    <3>2. WellFormed(action, H)
      BY <1>1, <3>1, Table DEF IInv, TypeOK, H
    <3>3. H.steps[1].part \in Parts
      BY <3>2 DEF WellFormed, StepTypeOK
    <3> QED
      BY <1>1, <2>2, <3>3 DEF IInv, NewInv
  <2> QED
    BY <2>1, <2>2 DEF RepeatAddsNothing, Copies
<1> QED
  BY <1>1, ActionsInvariant, PTL
=============================================================================
