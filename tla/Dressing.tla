------------------------------ MODULE Dressing ------------------------------
(***************************************************************************)
(* What a finished film is dressed with: B-roll over its picture           *)
(* (broll), a packaged animation at its end (animation_workflow), one      *)
(* color treatment for all its media (color_workflow).  Each is a stage    *)
(* that works on a duplicate of the timeline before it: preview, review,   *)
(* preview again and compare, duplicate, change the duplicate, read it     *)
(* back.                                                                   *)
(*                                                                         *)
(* What a preview does not see, and what happens between the second        *)
(* preview and the last readback, is the matter here: the user edits any   *)
(* of the timelines or replaces the B-roll file, a call is interrupted and *)
(* made again, Resolve grades some items and fails.  The bridge replays a  *)
(* command under its key (BridgeQueue), so a call that is interrupted is   *)
(* one that goes through its steps again; two calls at once and the tracks *)
(* that are added for B-roll are TimelineWorkflows' matter.                *)
(***************************************************************************)
EXTENDS FrameArithmetic, FiniteSets, Sequences, FiniteSetsExt

CONSTANTS
    FinalItems,     \* items of the baseline, from the beginning of the first one
    Leads,          \* frames that a baseline may have before its first item
    FilmRate,       \* rate of the timelines
    Assets,         \* what the B-roll file may be: [frames, rate]
    Wishes,         \* the B-roll a caller may ask for
    MaxTrims,       \* bound on what the user edits and replaces
    Nothing         \* no plan

Stages == {"cover", "title", "grade"}
Before == [cover |-> "baseline", title |-> "cover", grade |-> "title"]

\* An item: its video track, its bounds, the first frame of its source.
Item(id, track, from, to, source, media) ==
    [id |-> id, track |-> track, from |-> from, to |-> to, source |-> source, media |-> media]

\* Of the baseline, B-roll, or an animation.
Kinds == {item.id[1] : item \in FinalItems} \cup {"broll", "animation"}
Clips == [id: Kinds \X Nat, track: Nat, from: Int, to: Int, source: Nat, media: BOOLEAN]

ASSUME DressAssumption ==
    /\ FinalItems \subseteq Clips /\ IsFiniteSet(FinalItems)
    /\ \A item \in FinalItems : item.from >= 0
    /\ \E item \in FinalItems : item.from = 0
    /\ \A x, y \in FinalItems : x.id = y.id => x = y
    /\ \A item \in FinalItems : item.id[1] \notin {"broll", "animation"}
    /\ Assets \subseteq [frames: Nat, rate: Nat \ {0}]
    /\ Wishes \subseteq Seq([start: Nat, end: Nat, at: Nat, track: Nat])
    /\ \A wish \in Wishes : wish # <<>> /\ \A i \in DOMAIN wish : wish[i].start < wish[i].end
    /\ FilmRate \in Nat \ {0} /\ MaxTrims \in Nat /\ Leads \subseteq Nat

VARIABLES
    lead,           \* what there is before the first item of the baseline
    asset,          \* the B-roll file
    copies,         \* the timelines: sets of items, empty until they are made
    agreed,         \* the reviewed plan of a stage
    dressing,       \* how far the call of a stage is
    mapped,         \* the items that the call of a treatment is to grade
    replies,        \* what the bridge inserted or graded under the key of a stage
    graded,         \* items that have the version of the treatment
    accepted,       \* what the applied receipt of a stage has read back
    trims, touched  \* how often the user came, and which stages he came in between

dressVars == <<lead, asset, copies, agreed, dressing, mapped, replies, graded, accepted,
               trims, touched>>

-----------------------------------------------------------------------------
(* Timelines *)

Ids(items) == {item.id : item \in items}
Media(items) == {item \in items : item.media}
Start(items) == Min({item.from : item \in items})
End(items) == Max({item.to : item \in items})
Moved(item, by) == [item EXCEPT !.from = @ + by, !.to = @ + by]
Baseline == {Moved(item, lead) : item \in FinalItems}

\* _overlap
Overlap(from, to, item) == from < item.to /\ item.from < to

\* Where an item is, which does not say what of its source it shows.
Place(item) == [id |-> item.id, track |-> item.track, from |-> item.from, to |-> item.to]
Places(items) == {Place(item) : item \in items}

-----------------------------------------------------------------------------
(* The plans that a preview may give now, one for each input of a caller *)

\* _normalize_placements: the frames that a placement is taken to fill.
Fills(p) == Max({1, Refit(p.end - p.start + 1, asset.rate, FilmRate)})

\* _normalize_placements: no two of them are in each other's way.
FreeAmongThemselves(wish, items) ==
    \A i, j \in DOMAIN wish :
        i < j /\ wish[i].track = wish[j].track =>
            ~Overlap(wish[i].at, wish[i].at + Fills(wish[i]),
                     [from |-> wish[j].at, to |-> wish[j].at + Fills(wish[j])])

\* _reject_collisions: nor in that of an item, which is counted from the first
\* item on.
Free(wish, items) ==
    /\ FreeAmongThemselves(wish, items)
    /\ \A i \in DOMAIN wish : \A item \in items :
          item.track = wish[i].track =>
              ~Overlap(wish[i].at, wish[i].at + Fills(wish[i]), Moved(item, -Start(items)))

Placeable(wish, items) ==
    /\ \A i \in DOMAIN wish : /\ wish[i].end < asset.frames
                              /\ wish[i].at + Fills(wish[i]) <= End(items) - Start(items)
    /\ Free(wish, items)

\* BaselineEditWorkflow.status: its items are where its receipts have them.
BaselineComplete == Places(Baseline) \subseteq Places(copies["baseline"])

CoverPlans ==
    {[wish |-> wish, asset |-> asset,
      from |-> Start(copies["baseline"]), to |-> End(copies["baseline"])] :
         wish \in {w \in Wishes : BaselineComplete /\ Placeable(w, copies["baseline"])}}

\* BrollWorkflow.status: what was inserted is where it was.
CoverStands == accepted["cover"] \subseteq copies["cover"]

\* _source_snapshot, and the timecode that the caller gives.
TitlePlans ==
    {[snapshot |-> Places(copies["cover"]), at |-> End(copies["cover"]) - early] :
         early \in {frames \in 0..1 : CoverStands}}

\* Seeded fault in TitleStands: only the animation is looked at.
AnimationStands == \E item \in copies["title"] : item.id = <<"animation", 1>>

\* _verify_live_receipt: the timeline is as the receipt of the animation has it.
TitleStands == copies["title"] = accepted["title"]

\* _verify_environment: there is something to grade.
GradePlans == {items \in {Media(copies["title"])} : items # {} /\ TitleStands}

Plans(stage) ==
    CASE stage = "cover" -> CoverPlans
      [] stage = "title" /\ accepted["cover"] # {} -> TitlePlans
      [] stage = "grade" /\ accepted["title"] # {} -> GradePlans
      [] OTHER -> {}

-----------------------------------------------------------------------------

\* The baseline is complete.
DressInit ==
    /\ lead \in Leads /\ asset \in Assets
    /\ copies = [t \in Stages \cup {"baseline"} |-> IF t = "baseline" THEN Baseline ELSE {}]
    /\ agreed = [stage \in Stages |-> Nothing]
    /\ dressing = [stage \in Stages |-> "idle"]
    /\ mapped = {} /\ graded = {}
    /\ replies = [stage \in Stages |-> {}]
    /\ accepted = [stage \in Stages |-> {}]
    /\ trims = 0 /\ touched = {}

Becomes(stage, label) == dressing' = [dressing EXCEPT ![stage] = label]
Replies(stage, items) == replies' = [replies EXCEPT ![stage] = items]
WorldKept == UNCHANGED <<lead, asset, trims, touched>>

\* preview, and the review of what it says, until a timeline is made.
Agree(stage) ==
    /\ dressing[stage] = "idle" /\ copies[stage] = {}
    /\ \E reviewed \in Plans(stage) : agreed' = [agreed EXCEPT ![stage] = reviewed]
    /\ UNCHANGED <<copies, dressing, mapped, replies, graded, accepted>> /\ WorldKept

\* Seeded fault in StillAgreed: the reviewed plan is not compared.
AgreedOnce(stage) == agreed[stage] # Nothing

\* The plan of the same inputs is still the reviewed one.
StillAgreed(stage) == agreed[stage] # Nothing /\ agreed[stage] \in Plans(stage)

\* apply, until its first command.
Dress(stage) ==
    /\ dressing[stage] = "idle" /\ accepted[stage] = {}
    /\ StillAgreed(stage) /\ Becomes(stage, "checked")
    /\ UNCHANGED <<copies, agreed, mapped, replies, graded, accepted>> /\ WorldKept

\* duplicate_timeline, now or before.
Copy(stage) ==
    /\ dressing[stage] = "checked" /\ Becomes(stage, "copied")
    /\ copies' = IF copies[stage] # {} THEN copies
                 ELSE [copies EXCEPT ![stage] = copies[Before[stage]]]
    /\ UNCHANGED <<agreed, mapped, replies, graded, accepted>> /\ WorldKept

\* Resolve puts a source range on a timeline: without its last frame, and the
\* frame that is not filled to the end may be there or not.
Lengths(p) ==
    LET frames == (p.end - p.start) * FilmRate IN
    {frames \div asset.rate, (frames + asset.rate - 1) \div asset.rate}

\* The items of a plan, counted from the start of the timeline.
Inserted(wish, lengths) ==
    {Item(<<"broll", i>>, wish[i].track, wish[i].at, wish[i].at + lengths[i],
          wish[i].start, TRUE) : i \in DOMAIN wish}

\* insert_clips: one call, for all items or for none.
InsertCover ==
    /\ dressing["cover"] = "copied" /\ Becomes("cover", "changed")
    /\ IF replies["cover"] # {} THEN UNCHANGED <<copies, replies>>
       ELSE LET wish == agreed["cover"].wish IN
            \E lengths \in [DOMAIN wish -> UNION {Lengths(wish[i]) : i \in DOMAIN wish}] :
                /\ \A i \in DOMAIN wish : lengths[i] \in Lengths(wish[i])
                /\ copies' = [copies EXCEPT !["cover"] = @ \cup Inserted(wish, lengths)]
                /\ Replies("cover", Inserted(wish, lengths))
    /\ UNCHANGED <<agreed, mapped, graded, accepted>> /\ WorldKept

\* insert_animation_template: only at the end of the timeline as it is now.
InsertTitle ==
    /\ dressing["title"] = "copied"
    /\ IF replies["title"] # {}
       THEN Becomes("title", "changed") /\ UNCHANGED <<copies, replies>>
       ELSE IF agreed["title"].at # End(copies["title"])
       THEN Becomes("title", "idle") /\ UNCHANGED <<copies, replies>>
       ELSE LET at == agreed["title"].at
                item == Item(<<"animation", 1>>, 1, at, at + 2, 0, FALSE)
            IN  /\ Becomes("title", "changed")
                /\ copies' = [copies EXCEPT !["title"] = @ \cup {item}]
                /\ Replies("title", {item})
    /\ UNCHANGED <<agreed, mapped, graded, accepted>> /\ WorldKept

\* _duplicate_identity: an item of the plan as the duplicate has it, where items
\* have ids of their own.
Shown(item) ==
    [track |-> item.track, from |-> item.from, to |-> item.to, source |-> item.source]
Twins(item) == {twin \in Media(copies["grade"]) : Shown(twin) = Shown(item)}

\* Seeded fault in Mappable: an item that is no longer there is left out.
MappableLoose == TRUE

Mappable == \A item \in agreed["grade"] : \E one \in Media(copies["grade"]) : Twins(item) = {one}

\* _map_duplicate_target_ids
MapTargets ==
    /\ dressing["grade"] = "copied"
    /\ IF Mappable
       THEN /\ mapped' = Ids(UNION {Twins(item) : item \in agreed["grade"]})
            /\ Becomes("grade", "mapped")
       ELSE Becomes("grade", "idle") /\ UNCHANGED mapped
    /\ UNCHANGED <<copies, agreed, replies, graded, accepted>> /\ WorldKept

\* apply_color_preset: all media and nothing else, one item after the other; it
\* may fail at any of them, and is rejected if an item came or went.
Grade ==
    /\ dressing["grade"] = "mapped"
    /\ IF replies["grade"] # {}
       THEN Becomes("grade", "changed") /\ UNCHANGED <<graded, replies>>
       ELSE IF mapped # Ids(Media(copies["grade"]))
       THEN Becomes("grade", "idle") /\ UNCHANGED <<graded, replies>>
       ELSE \/ Becomes("grade", "changed") /\ graded' = mapped /\ Replies("grade", mapped)
            \/ /\ Becomes("grade", "idle") /\ UNCHANGED replies
               /\ \E some \in SUBSET mapped : some # mapped /\ graded' = graded \cup some
    /\ UNCHANGED <<copies, agreed, mapped, accepted>> /\ WorldKept

\* _verify_insert_result and _verify_readback of B-roll: what was inserted is there.
CoverReadBack == replies["cover"] \subseteq copies["cover"]

\* _inserted_item and _verify_readback of an animation.
TitleReadBack == replies["title"] \subseteq copies["title"]

\* _verify_apply_result and _verify_applied_readback: what was named was graded,
\* and is all the media there are.
GradeReadBack ==
    /\ replies["grade"] = mapped
    /\ mapped = Ids(Media(copies["grade"])) /\ mapped \subseteq graded

ReadBackHolds(stage) ==
    CASE stage = "cover" -> CoverReadBack
      [] stage = "title" -> TitleReadBack
      [] stage = "grade" -> GradeReadBack

\* The receipt of B-roll is asked for what was inserted, that of an animation
\* for all that was read back.
Accept(stage) ==
    /\ dressing[stage] = "changed" /\ Becomes(stage, "idle")
    /\ accepted' = IF ~ReadBackHolds(stage) THEN accepted
                   ELSE [accepted EXCEPT ![stage] =
                            IF stage = "title" THEN copies["title"] ELSE replies[stage]]
    /\ UNCHANGED <<copies, agreed, mapped, replies, graded>> /\ WorldKept

\* A call is given up; what the bridge did stays.
GiveUpDressing(stage) ==
    /\ dressing[stage] # "idle" /\ Becomes(stage, "idle")
    /\ UNCHANGED <<copies, agreed, mapped, replies, graded, accepted>> /\ WorldKept

-----------------------------------------------------------------------------
(* The user *)

\* The stages whose reviewed plan or accepted readback is no longer what an edit
\* of a timeline leaves: one that works on it, or is about to duplicate it.  A
\* treatment looks at the duplicate once more before it names the items to grade.
Disturbed(t) ==
    {stage \in {"cover", "title"} :
        \/ stage = t
        \/ Before[stage] = t /\ dressing[stage] # "idle" /\ copies[stage] = {}}
    \cup {stage \in {"grade"} :
        stage = t /\ (dressing[stage] \in {"mapped", "changed"} \/ accepted[stage] # {})}

\* An item is moved, shows another part of its source, or is removed.
TrimItem(t) ==
    /\ trims < MaxTrims /\ trims' = trims + 1 /\ copies[t] # {}
    /\ \E item \in copies[t] :
          LET others == copies[t] \ {item} IN
          \/ copies' = [copies EXCEPT ![t] = others \cup {Moved(item, 1)}]
          \/ copies' = [copies EXCEPT ![t] = others \cup {[item EXCEPT !.source = @ + 1]}]
          \/ others # {} /\ copies' = [copies EXCEPT ![t] = others]
    /\ touched' = touched \cup Disturbed(t)
    /\ UNCHANGED <<lead, asset, agreed, dressing, mapped, replies, graded, accepted>>

ReplaceAsset ==
    /\ trims < MaxTrims /\ trims' = trims + 1
    /\ \E a \in Assets \ {asset} : asset' = a
    /\ touched' = IF dressing["cover"] # "idle" \/ replies["cover"] # {}
                  THEN touched \cup {"cover"} ELSE touched
    /\ UNCHANGED <<lead, copies, agreed, dressing, mapped, replies, graded, accepted>>

DressNext ==
    \/ \E stage \in Stages :
          Agree(stage) \/ Dress(stage) \/ Copy(stage) \/ Accept(stage) \/ GiveUpDressing(stage)
    \/ InsertCover \/ InsertTitle \/ MapTargets \/ Grade
    \/ \E t \in DOMAIN copies : TrimItem(t)
    \/ ReplaceAsset

-----------------------------------------------------------------------------
(* What is to hold *)

DressTypeOK ==
    /\ lead \in Leads /\ asset \in Assets
    /\ \A t \in DOMAIN copies : copies[t] \subseteq Clips
    /\ \A stage \in Stages :
          /\ dressing[stage] \in {"idle", "checked", "copied", "mapped", "changed"}
          /\ dressing[stage] \in {"copied", "mapped", "changed"} => copies[stage] # {}
          /\ replies[stage] # {} => copies[stage] # {}
          /\ accepted[stage] # {} => replies[stage] # {}
    /\ trims \in 0..MaxTrims /\ touched \subseteq Stages

\* CoverIsAgreed: an accepted cover has the items of the baseline and the B-roll
\* that was reviewed, each once and at its position from the beginning of the
\* timeline; where the timeline begins with its first item, and has at least half
\* the rate of the file, none of it lies on another item.
CoverIsAgreed ==
    accepted["cover"] # {} /\ "cover" \notin touched =>
        LET items == copies["cover"]
            wish == agreed["cover"].wish
            broll == {item \in items : item.id[1] = "broll"}
        IN  /\ Places(Baseline) \subseteq Places(items)
            /\ Cardinality(broll) = Len(wish)
            /\ \A i \in DOMAIN wish : \E item \in broll :
                  /\ item.id = <<"broll", i>> /\ item.track = wish[i].track
                  /\ item.from = wish[i].at /\ item.source = wish[i].start
            /\ lead = 0 /\ asset.rate <= 2 * FilmRate =>
                  \A b \in broll : \A item \in items \ {b} :
                     item.track = b.track => ~Overlap(b.from, b.to, item)

\* TitleIsAgreed: an accepted animation is after all the items that were there when
\* it was reviewed, and these are where they were.
TitleIsAgreed ==
    accepted["title"] # {} /\ "title" \notin touched =>
        LET animations == {item \in copies["title"] : item.id = <<"animation", 1>>} IN
        /\ Places(copies["title"] \ animations) = agreed["title"].snapshot
        /\ \E one \in animations : \A item \in copies["title"] \ {one} : item.to <= one.from

\* GradeIsWhole: an accepted treatment is on every media item, and these show what
\* those show that the animation was accepted with, even if the user edited that
\* timeline while it was being duplicated.
GradeIsWhole ==
    accepted["grade"] # {} /\ "grade" \notin touched =>
        /\ {Shown(item) : item \in Media(copies["grade"])} =
              {Shown(item) : item \in Media(accepted["title"])}
        /\ Ids(Media(copies["grade"])) \subseteq graded

DressedAsAgreed == CoverIsAgreed /\ TitleIsAgreed /\ GradeIsWhole

\* No B-roll is asked for beyond the end of its file, unless the user replaced
\* the file after the last look at it.
CoverFramesExist ==
    replies["cover"] # {} /\ "cover" \notin touched =>
        \A i \in DOMAIN agreed["cover"].wish : agreed["cover"].wish[i].end < asset.frames
=============================================================================
