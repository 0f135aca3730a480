------------------------------- MODULE Delivery -------------------------------
(***************************************************************************)
(* From a finalized timeline to a video file.  The sound of the timeline   *)
(* is rendered to a WAV file (finalized_audio_extraction), cleaned         *)
(* (audio_workflow) and put back (finalized_audio_integration); subtitles  *)
(* are added (subtitles); a baseline run binds the receipts of all that,   *)
(* inspects the live timeline and renders it through a prepared and an     *)
(* executed job (baseline_edit, finalized_render,                          *)
(* finalized_render_execution).                                            *)
(*                                                                         *)
(* One timeline, Talk, goes all the way.  Another one has its sound        *)
(* rendered under the same file name, which nothing forbids.  Preparing    *)
(* and starting are replayed by the bridge under their keys (BridgeQueue), *)
(* so a call that is interrupted is one that did not store its result; the *)
(* steps of an integration are TimelineWorkflows' matter.                  *)
(***************************************************************************)
EXTENDS Naturals, FiniteSets

CONSTANTS
    Talk,           \* the timeline that is delivered
    Others,         \* timelines whose sound is rendered to the same file
    BaselineRuns,   \* the baseline runs: subsets of {"captions"}
    MaxMeddling,    \* bound on the user's edits and removals of files
    NoFile          \* there is no such file, no such receipt

ASSUME DeliveryAssumption ==
    /\ Talk \notin Others /\ NoFile \notin Others \cup {Talk}
    /\ BaselineRuns \subseteq SUBSET {"captions"} /\ MaxMeddling \in Nat

VARIABLES
    cut,            \* the timeline: its items, the voice on A2, its subtitles
    jobs,           \* the render queue of Resolve, by the receipt of a job
    outputs,        \* the files in the managed directories
    extractions,    \* M46 receipts of extraction
    starting,       \* extractions whose start is past its preflight
    reports,        \* what was cleaned; an audio report is about each
    integration,    \* the M46 receipt of integration
    captioned,      \* the M47 receipt
    preparations, executions,   \* M44 and M45 receipts
    runs,           \* M50 receipts
    cutEdits, removals,         \* how often the user did so
    raced,          \* two extractions were past their preflights at one time
    disturbed       \* runs between whose inspection and render the user edited

receipts == <<extractions, starting, reports, integration, captioned,
              preparations, executions, runs>>
userVars == <<cutEdits, removals, raced, disturbed>>
deliveryVars == <<cut, jobs, outputs, receipts, userVars>>

-----------------------------------------------------------------------------
(* Jobs and their files *)

Timelines == Others \cup {Talk}

\* Seeded fault in RenderName: the name that the caller gave.
PlainName(run) == <<"film", {}>>

\* _render_name: the stem the caller gave and the id of the run.
RenderName(run) == <<"film", run>>

\* M44 receipts.
Preparations == {RenderName(run) : run \in BaselineRuns}
Jobs == [kind: {"audio"}, of: Timelines] \cup [kind: {"video"}, of: Preparations]
SoundJob(t) == [kind |-> "audio", of |-> t]
FilmJob(p) == [kind |-> "video", of |-> p]

Output(job) == IF job.kind = "audio" THEN <<"voice", {}>> ELSE job.of
Outputs == {Output(job) : job \in Jobs}

\* What the file of a job is: whose sound, or which state of the film.
Content(job) ==
    IF job.kind = "audio" THEN [of |-> job.of, cut |-> NoFile] ELSE [of |-> Talk, cut |-> cut]
Partial == [of |-> NoFile, cut |-> NoFile]

Busy == \E job \in Jobs : jobs[job].state = "Rendering"

\* Seeded fault in Startable: a file that is already there does not matter.
StartableAnyway(job) == jobs[job].state = "Ready" /\ ~Busy

\* The preflight of a start: the live job is the one of the receipt, is Ready,
\* nothing renders, and its file is not there.
Startable(job) == jobs[job].state = "Ready" /\ ~Busy /\ outputs[Output(job)] = NoFile

\* verify_render_output, verify_pcm_wav_render_output: the live job is complete
\* and its file is there.  Whose render the file is cannot be seen in it.
Passes(job) == jobs[job].state = "Complete" /\ outputs[Output(job)] # NoFile

\* start_render_job of the bridge: started under the same key before, or now.
Refused(job) == jobs[job].state = "Ready" /\ Busy
BridgeStarts(job) ==
    /\ ~Refused(job)
    /\ IF jobs[job].state = "Ready"
       THEN /\ jobs' = [jobs EXCEPT ![job] = [state |-> "Rendering", shows |-> Content(job)]]
            /\ outputs' = [outputs EXCEPT ![Output(job)] = Partial]
       ELSE UNCHANGED <<jobs, outputs>>

BridgePrepares(job) ==
    jobs' = IF jobs[job].state = "none" THEN [jobs EXCEPT ![job].state = "Ready"] ELSE jobs

NoJob == [state |-> "none", shows |-> Partial]

\* States of the timeline, files that a render may leave.
Cuts == [items: {"final", "moved"}, voice: Timelines \cup {NoFile}, captions: BOOLEAN]
Files == [of: Timelines \cup {NoFile}, cut: Cuts \cup {NoFile}]
JobStates == {"none", "Ready", "Rendering", "Complete", "Failed"}

Integrations == [voice: Timelines \cup {NoFile}, items: {"final", "moved"}]

ASSUME NoFileAssumption == NoFile \notin Files \cup Integrations

DeliveryTypeOK ==
    /\ cut \in Cuts
    /\ jobs \in [Jobs -> [state: JobStates, shows: Files]]
    /\ \A i, j \in Jobs : jobs[i].state = "Rendering" /\ jobs[j].state = "Rendering" => i = j
    /\ outputs \in [Outputs -> Files \cup {NoFile}]
    /\ extractions \in [Timelines -> {"none", "prepared", "started"}]
    /\ starting \subseteq {t \in Timelines : extractions[t] = "prepared"}
    /\ reports \subseteq Files
    /\ integration \in Integrations \cup {NoFile}
    /\ preparations \in [Preparations -> {"none", "applied"}]
    /\ executions \in [Preparations -> {"none", "in_progress", "started"}]
    /\ \A p \in Preparations : executions[p] # "none" => preparations[p] = "applied"
    /\ runs \in [BaselineRuns -> {"none", "in_progress", "started"}]
    /\ cutEdits \in Nat /\ removals \in Nat /\ cutEdits + removals <= MaxMeddling
    /\ captioned \in BOOLEAN /\ raced \in BOOLEAN /\ disturbed \subseteq BaselineRuns

\* The finalization of Talk is applied, the sound of the others prepared.
DeliveryInit ==
    /\ cut = [items |-> "final", voice |-> NoFile, captions |-> FALSE]
    /\ jobs = [job \in Jobs |-> IF \E t \in Others : job = SoundJob(t)
                                THEN [NoJob EXCEPT !.state = "Ready"] ELSE NoJob]
    /\ outputs = [file \in Outputs |-> NoFile]
    /\ extractions = [t \in Timelines |-> IF t \in Others THEN "prepared" ELSE "none"]
    /\ starting = {}
    /\ reports = {} /\ integration = NoFile /\ captioned = FALSE
    /\ preparations = [p \in Preparations |-> "none"]
    /\ executions = [p \in Preparations |-> "none"]
    /\ runs = [run \in BaselineRuns |-> "none"]
    /\ cutEdits = 0 /\ removals = 0 /\ raced = FALSE /\ disturbed = {}

-----------------------------------------------------------------------------
(* The sound *)

SoundKept == UNCHANGED <<extractions, starting, reports, integration>>
FilmKept == UNCHANGED <<preparations, executions, runs>>

\* FinalizedAudioExtractor.prepare, which may be interrupted before it stores
\* the job.
PrepareExtraction(t) ==
    /\ extractions[t] = "none"
    /\ \E status \in {"none", "prepared"} : extractions' = [extractions EXCEPT ![t] = status]
    /\ BridgePrepares(SoundJob(t))
    /\ UNCHANGED <<cut, outputs, starting, reports, integration, captioned, userVars>> /\ FilmKept

\* start: the preflight, and the command after it.
CheckExtraction(t) ==
    /\ extractions[t] = "prepared" /\ t \notin starting /\ Startable(SoundJob(t))
    /\ starting' = starting \cup {t}
    /\ raced' = (raced \/ starting # {})
    /\ UNCHANGED <<cut, jobs, outputs, extractions, reports, integration, captioned,
                   cutEdits, removals, disturbed>>
    /\ FilmKept

StartExtraction(t) ==
    /\ t \in starting /\ starting' = starting \ {t}
    /\ \/ /\ BridgeStarts(SoundJob(t))
          /\ \E status \in {"prepared", "started"} :
                extractions' = [extractions EXCEPT ![t] = status]
       \/ Refused(SoundJob(t)) /\ UNCHANGED <<jobs, outputs, extractions>>
    /\ UNCHANGED <<cut, reports, integration, captioned, userVars>> /\ FilmKept

\* DialogueAudioWorkflow.process: whatever the file contains now; a report is
\* found again by the file's path and fingerprint.
Clean ==
    /\ outputs[<<"voice", {}>>] # NoFile
    /\ reports' = reports \cup {outputs[<<"voice", {}>>]}
    /\ UNCHANGED <<cut, jobs, outputs, extractions, starting, integration, captioned, userVars>>
    /\ FilmKept

\* _validated_target: the report is about a file at the extraction's path that
\* is as long as the extraction; the file's fingerprint is not compared.
ReportFits(report) == report # Partial

\* FinalizedAudioIntegrator.apply.  Its receipt keeps the items read back.
Integrate ==
    /\ integration = NoFile
    /\ extractions[Talk] = "started" /\ Passes(SoundJob(Talk))
    /\ \E report \in {r \in reports : ReportFits(r)} :
          /\ cut' = [cut EXCEPT !.voice = report.of]
          /\ integration' = [voice |-> report.of, items |-> cut.items]
    /\ UNCHANGED <<jobs, outputs, extractions, starting, reports, captioned, userVars>> /\ FilmKept

\* SubtitleGenerator.generate
Caption ==
    /\ ~captioned /\ captioned' = TRUE
    /\ cut' = [cut EXCEPT !.captions = TRUE]
    /\ UNCHANGED <<jobs, outputs, userVars>> /\ SoundKept /\ FilmKept

-----------------------------------------------------------------------------
(* The film *)

\* _live_checks: the finalized items and those of the integration are where
\* their receipts have them, the subtitles are still there.
LiveChecks(run) ==
    /\ cut.items = "final"
    /\ cut.items = integration.items /\ cut.voice = integration.voice
    /\ "captions" \in run => cut.captions

\* BaselineEditWorkflow.preview
Ready(run) ==
    /\ integration # NoFile
    /\ "captions" \in run => captioned
    /\ LiveChecks(run)

\* start, the first time: inspected, then kept.
BeginRun(run) ==
    /\ runs[run] = "none" /\ Ready(run)
    /\ runs' = [runs EXCEPT ![run] = "in_progress"]
    /\ UNCHANGED <<cut, jobs, outputs, captioned, preparations, executions, userVars>> /\ SoundKept

\* A run's name becomes known with its receipt, and is not inspected again.
Known(p) == \E run \in BaselineRuns : RenderName(run) = p /\ runs[run] # "none"

\* FinalizedRenderPreparer.prepare
PrepareFilm(p) ==
    /\ Known(p) /\ preparations[p] = "none"
    /\ \E status \in {"none", "applied"} : preparations' = [preparations EXCEPT ![p] = status]
    /\ BridgePrepares(FilmJob(p))
    /\ UNCHANGED <<cut, outputs, captioned, executions, runs, userVars>> /\ SoundKept

\* FinalizedRenderExecutor.start: a preflight for the first call only.
BeginFilm(p) ==
    /\ executions[p] = "none" /\ preparations[p] = "applied" /\ Startable(FilmJob(p))
    /\ executions' = [executions EXCEPT ![p] = "in_progress"]
    /\ UNCHANGED <<cut, jobs, outputs, captioned, preparations, runs, userVars>> /\ SoundKept

StartFilm(p) ==
    /\ executions[p] = "in_progress"
    /\ BridgeStarts(FilmJob(p))
    /\ \E status \in {"in_progress", "started"} : executions' = [executions EXCEPT ![p] = status]
    /\ UNCHANGED <<cut, captioned, preparations, runs, userVars>> /\ SoundKept

FinishRun(run) ==
    /\ runs[run] = "in_progress" /\ executions[RenderName(run)] = "started"
    /\ runs' = [runs EXCEPT ![run] = "started"]
    /\ UNCHANGED <<cut, jobs, outputs, captioned, preparations, executions, userVars>> /\ SoundKept

\* BaselineEditWorkflow.status answers "complete".
Complete(run) ==
    runs[run] = "started" /\ Ready(run) /\ Passes(FilmJob(RenderName(run)))

-----------------------------------------------------------------------------
(* Resolve and the user *)

\* A render ends; the file of one that failed stays as it is.
EndRender(job) ==
    /\ jobs[job].state = "Rendering"
    /\ \/ /\ jobs' = [jobs EXCEPT ![job].state = "Complete"]
          /\ outputs' = [outputs EXCEPT ![Output(job)] = jobs[job].shows]
       \/ jobs' = [jobs EXCEPT ![job].state = "Failed"] /\ UNCHANGED outputs
    /\ UNCHANGED <<cut, receipts, userVars>>

\* The user moves items and moves them back, or takes the voice or the
\* subtitles away, while nothing renders.
EditCut ==
    /\ cutEdits + removals < MaxMeddling /\ cutEdits' = cutEdits + 1 /\ ~Busy
    /\ \/ cut' = [cut EXCEPT !.items = IF @ = "final" THEN "moved" ELSE "final"]
       \/ cut.voice # NoFile /\ cut' = [cut EXCEPT !.voice = NoFile]
       \/ cut.captions /\ cut' = [cut EXCEPT !.captions = FALSE]
    /\ disturbed' = disturbed \cup
          {run \in BaselineRuns : /\ runs[run] # "none"
                                  /\ jobs[FilmJob(RenderName(run))].state \in {"none", "Ready"}}
    /\ UNCHANGED <<jobs, outputs, receipts, removals, raced>>

RemoveFile ==
    /\ cutEdits + removals < MaxMeddling /\ removals' = removals + 1 /\ ~Busy
    /\ \E file \in {f \in Outputs : outputs[f] # NoFile} :
          outputs' = [outputs EXCEPT ![file] = NoFile]
    /\ UNCHANGED <<cut, jobs, receipts, cutEdits, raced, disturbed>>

DeliveryNext ==
    \/ \E t \in Timelines : PrepareExtraction(t) \/ CheckExtraction(t) \/ StartExtraction(t)
    \/ Clean \/ Integrate \/ Caption
    \/ \E run \in BaselineRuns : BeginRun(run) \/ FinishRun(run)
    \/ \E p \in Preparations : PrepareFilm(p) \/ BeginFilm(p) \/ StartFilm(p)
    \/ \E job \in Jobs : EndRender(job)
    \/ EditCut \/ RemoveFile

-----------------------------------------------------------------------------
(* What is to hold *)

\* VoiceIsItsOwn: the voice that is put on a timeline is that timeline's, though
\* another one is rendered under the same file name, unless both were started at
\* the same time or the user removed the file of one.
VoiceIsItsOwn ==
    integration # NoFile /\ ~raced /\ removals = 0 => integration.voice = Talk

\* CompleteWasInspected: the file of a run that is reported complete shows the
\* finalized items, the voice and the subtitles of the run's receipts, unless
\* the user edited the timeline after the run had inspected it.
CompleteWasInspected ==
    \A run \in BaselineRuns :
        Complete(run) /\ run \notin disturbed =>
            LET film == outputs[Output(FilmJob(RenderName(run)))] IN
            /\ film.of = Talk /\ film.cut.items = "final"
            /\ film.cut.voice = integration.voice
            /\ "captions" \in run => film.cut.captions
===============================================================================
