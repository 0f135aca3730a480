-------------------------- MODULE Editorial_proofs --------------------------
(***************************************************************************)
(* That what is shown was approved, that the frames it needs exist, and    *)
(* that what is delivered was inspected: for any recordings, cuts, takes,  *)
(* files, placements and rates, any number of reviewers and runs, of edits *)
(* and interruptions.  One desk works at a time, so the invariant is one   *)
(* of each desk, and there is one lemma per action.                        *)
(*                                                                         *)
(* The arithmetic of frames comes first.  Then the delivery: its invariant *)
(* follows the sound from the preflight of its start to its integration,   *)
(* and every film from the inspection of its run to its file.              *)
(*                                                                         *)
(* Then the color treatment.  It duplicates a timeline that the user may   *)
(* be editing, so its invariant does not say what the duplicate is.  It    *)
(* says that the plan is what the animation was accepted with, that the    *)
(* items of a timeline have ids of their own, so that a target that was    *)
(* named by its id is the one that was found by its place, and that        *)
(* nothing moved since without the user being in between.                  *)
(*                                                                         *)
(* The cut: what an approved plan leaves between its cuts, whatever was    *)
(* relinked since.  The takes: a binding lists the sequence, which is      *)
(* never written again.  The dressing: what a plan was compared with, from *)
(* the comparison on.  The arguments by induction on a list or on a finite *)
(* set are made with a least element (Least, Minimal, Greatest).           *)
(***************************************************************************)
EXTENDS Editorial, WellFoundedInduction, FiniteSetTheorems, SequenceTheorems, TLAPS

-----------------------------------------------------------------------------
(* What the conversions of FrameArithmetic keep, for every time, every     *)
(* number of frames and every rate.                                        *)

\* Division rounds down.
LEMMA Quotient ==
    ASSUME NEW a \in Int, NEW b \in Nat \ {0}
    PROVE  a \div b \in Int /\ b * (a \div b) <= a /\ a < b * (a \div b) + b
  BY SMT

\* Products are ordered as their factors are.
LEMMA TimesMonotone ==
    ASSUME NEW a \in Int, NEW b \in Int, NEW c \in Nat, a <= b
    PROVE  c * a <= c * b
  BY SMT

\* And a product that is smaller has the smaller factor.
LEMMA TimesStrict ==
    ASSUME NEW a \in Int, NEW b \in Int, NEW c \in Nat \ {0}, c * a < c * b
    PROVE  a < b
  BY SMT

\* Products of integers are integers.
LEMMA TimesInt ==
    ASSUME NEW a \in Int, NEW b \in Int
    PROVE  a * b \in Int
  BY SMT

\* The place of a time among the frames: at most half a frame away.
LEMMA FramesBound ==
    ASSUME NEW t \in Int, NEW fps \in Int
    PROVE  /\ ToFrames(t, fps) \in Int
           /\ 2 * Second * ToFrames(t, fps) <= 2 * (t * fps) + Second
           /\ 2 * (t * fps) + Second < 2 * Second * ToFrames(t, fps) + 2 * Second
<1> DEFINE a == 2 * t * fps + Second
           b == 2 * Second
<1>1. Second \in Nat \ {0}
  BY SecondAssumption
<1>2. t * fps \in Int /\ 2 * t * fps = 2 * (t * fps)
  BY TimesInt, SMT
<1>3. a \in Int /\ b \in Nat \ {0}
  BY <1>1, <1>2
<1>4. ToFrames(t, fps) = a \div b
  BY DEF ToFrames
<1> HIDE DEF a, b
<1>5. a \div b \in Int /\ b * (a \div b) <= a /\ a < b * (a \div b) + b
  BY <1>3, Quotient
<1>6. a = 2 * (t * fps) + Second /\ b = 2 * Second
  BY <1>2 DEF a, b
<1> QED
  BY <1>1, <1>4, <1>5, <1>6

\* The time of a frame is the nearest tick, a half counting up.
LEMMA TicksBound ==
    ASSUME NEW f \in Int, NEW fps \in Nat \ {0}
    PROVE  /\ ToTicks(f, fps) \in Int
           /\ 2 * fps * ToTicks(f, fps) <= 2 * (f * Second) + fps
           /\ 2 * (f * Second) + fps < 2 * fps * ToTicks(f, fps) + 2 * fps
<1> DEFINE a == 2 * f * Second + fps
           b == 2 * fps
<1>1. Second \in Nat \ {0}
  BY SecondAssumption
<1>2. f * Second \in Int /\ 2 * f * Second = 2 * (f * Second)
  BY <1>1, TimesInt, SMT
<1>3. a \in Int /\ b \in Nat \ {0}
  BY <1>1, <1>2
<1>4. ToTicks(f, fps) = a \div b
  BY DEF ToTicks
<1> HIDE DEF a, b
<1>5. a \div b \in Int /\ b * (a \div b) <= a /\ a < b * (a \div b) + b
  BY <1>3, Quotient
<1>6. a = 2 * (f * Second) + fps /\ b = 2 * fps
  BY <1>2 DEF a, b
<1> QED
  BY <1>4, <1>5, <1>6

\* What multiples tell of their factors.
LEMMA Pinned ==
    ASSUME NEW c \in Nat \ {0}, NEW a \in Int, NEW b \in Int,
           c * a < c * b + c, c * b < c * a + c
    PROVE  a = b
<1>1. c * (b + 1) = c * b + c /\ c * (a + 1) = c * a + c
  BY SMT
<1>2. a < b + 1 /\ b < a + 1
  BY <1>1, TimesStrict
<1> QED
  BY <1>2

\* A frame that is written down as a time and read again is the same frame, at
\* every rate of at most a frame a tick: the positions that a receipt keeps in
\* milliseconds (pause_compaction.py) are exact.
THEOREM RoundTrip ==
    ASSUME NEW f \in Int, NEW fps \in 1 .. Second
    PROVE  ToFrames(ToTicks(f, fps), fps) = f
<1> DEFINE t == ToTicks(f, fps)
<1>1. Second \in Nat \ {0} /\ fps \in Nat \ {0} /\ fps \in Int /\ fps <= Second
  BY SecondAssumption
<1>2. /\ t \in Int
      /\ 2 * fps * t <= 2 * (f * Second) + fps
      /\ 2 * (f * Second) + fps < 2 * fps * t + 2 * fps
  BY <1>1, TicksBound
<1> HIDE DEF t
<1> DEFINE g == ToFrames(t, fps)
<1>3. /\ g \in Int
      /\ 2 * Second * g <= 2 * (t * fps) + Second
      /\ 2 * (t * fps) + Second < 2 * Second * g + 2 * Second
  BY <1>1, <1>2, FramesBound
<1> HIDE DEF g
<1>4. /\ t * fps \in Int /\ Second * g \in Int /\ Second * f \in Int /\ f * Second = Second * f
      /\ 2 * fps * t = 2 * (t * fps) /\ 2 * Second * g = 2 * (Second * g)
  BY <1>1, <1>2, <1>3, TimesInt, SMT
<1>5. g = f
  <2>1. CASE fps < Second
    <3>1. Second * g < Second * f + Second /\ Second * f < Second * g + Second
      BY <1>1, <1>2, <1>3, <1>4, <2>1
    <3> QED
      BY <1>1, <1>3, <3>1, Pinned
  <2>2. CASE fps = Second
    <3>1. t * fps = Second * t
      BY <1>1, <1>2, <2>2, SMT
    <3>2. Second * t < Second * f + Second /\ Second * f < Second * t + Second
      BY <1>1, <1>2, <1>4, <2>2, <3>1
    <3>3. t = f
      BY <1>1, <1>2, <3>2, Pinned
    <3>4. Second * g < Second * f + Second /\ Second * f < Second * g + Second
      BY <1>1, <1>3, <1>4, <3>1, <3>3
    <3> QED
      BY <1>1, <1>3, <3>4, Pinned
  <2> QED
    BY <1>1, <2>1, <2>2
<1> QED
  BY <1>5 DEF t, g

\* A later time is not an earlier frame, so pieces that follow one another in
\* time never overlap on a timeline (pause_compaction.py, take_sequence_*.py).
THEOREM FramesInOrder ==
    ASSUME NEW t \in Int, NEW u \in Int, t <= u, NEW fps \in Nat
    PROVE  ToFrames(t, fps) <= ToFrames(u, fps)
<1> DEFINE f == ToFrames(t, fps)
           g == ToFrames(u, fps)
<1>1. Second \in Nat \ {0} /\ fps \in Int
  BY SecondAssumption
<1>2. f \in Int /\ 2 * Second * f <= 2 * (t * fps) + Second
  BY <1>1, FramesBound
<1>3. g \in Int /\ 2 * (u * fps) + Second < 2 * Second * g + 2 * Second
  BY <1>1, FramesBound
<1> HIDE DEF f, g
<1>4. /\ t * fps \in Int /\ u * fps \in Int /\ t * fps <= u * fps
      /\ Second * f \in Int /\ Second * g \in Int
      /\ 2 * Second * f = 2 * (Second * f) /\ 2 * Second * g = 2 * (Second * g)
  <2>1. fps * t <= fps * u /\ fps * t = t * fps /\ fps * u = u * fps
    BY TimesMonotone, SMT
  <2> QED
    BY <1>1, <1>2, <1>3, <2>1, TimesInt, SMT
<1>5. Second * f < Second * (g + 1)
  <2>1. Second * (g + 1) = Second * g + Second
    BY <1>1, <1>3, SMT
  <2> QED
    BY <1>1, <1>2, <1>3, <1>4, <2>1
<1>6. f < g + 1
  BY <1>1, <1>2, <1>3, <1>5, TimesStrict
<1> QED
  BY <1>2, <1>3, <1>6 DEF f, g

\* A time within a recording is a frame that the recording has, its end
\* included: the plans ask for no frame beyond the last (FramesExist).
THEOREM LastFrameExists ==
    ASSUME NEW frames \in Nat, NEW fps \in 1 .. Second,
           NEW t \in Int, t <= ToTicks(frames, fps)
    PROVE  ToFrames(t, fps) <= frames
<1>1. fps \in Nat \ {0} /\ fps \in Nat /\ frames \in Int
  BY SecondAssumption
<1>2. ToTicks(frames, fps) \in Int
  BY <1>1, TicksBound
<1>3. ToFrames(t, fps) <= ToFrames(ToTicks(frames, fps), fps)
  BY <1>1, <1>2, FramesInOrder
<1>4. ToFrames(ToTicks(frames, fps), fps) = frames
  BY <1>1, RoundTrip
<1> QED
  BY <1>3, <1>4

\* Cutting a time in two and placing the pieces after one another moves the end
\* by at most one frame, so that picture and sound that are cut at the same
\* times stay within a frame of each other per cut (StaysInStep).
THEOREM DriftOfACut ==
    ASSUME NEW t \in Int, NEW u \in Int, NEW fps \in Nat
    PROVE  LET apart == ToFrames(t, fps) + ToFrames(u, fps)
               together == ToFrames(t + u, fps)
           IN  apart - 1 <= together /\ together <= apart + 1
<1> DEFINE f == ToFrames(t, fps)
           g == ToFrames(u, fps)
           h == ToFrames(t + u, fps)
<1>1. Second \in Nat \ {0} /\ fps \in Int /\ t + u \in Int
  BY SecondAssumption
<1>2. /\ f \in Int /\ 2 * Second * f <= 2 * (t * fps) + Second
      /\ 2 * (t * fps) + Second < 2 * Second * f + 2 * Second
  BY <1>1, FramesBound
<1>3. /\ g \in Int /\ 2 * Second * g <= 2 * (u * fps) + Second
      /\ 2 * (u * fps) + Second < 2 * Second * g + 2 * Second
  BY <1>1, FramesBound
<1>4. /\ h \in Int /\ 2 * Second * h <= 2 * ((t + u) * fps) + Second
      /\ 2 * ((t + u) * fps) + Second < 2 * Second * h + 2 * Second
  BY <1>1, FramesBound
<1> HIDE DEF f, g, h
<1>5. /\ t * fps \in Int /\ u * fps \in Int /\ (t + u) * fps = t * fps + u * fps
      /\ Second * f \in Int /\ Second * g \in Int /\ Second * h \in Int
      /\ 2 * Second * f = 2 * (Second * f) /\ 2 * Second * g = 2 * (Second * g)
      /\ 2 * Second * h = 2 * (Second * h)
  BY <1>1, <1>2, <1>3, <1>4, TimesInt, SMT
<1>6. /\ Second * (f + g + 2) = Second * f + Second * g + 2 * Second
      /\ Second * (h + 2) = Second * h + 2 * Second
      /\ Second * (f + g) = Second * f + Second * g
  BY <1>1, <1>2, <1>3, <1>4, SMT
<1>7. Second * h < Second * (f + g + 2)
  BY <1>1, <1>2, <1>3, <1>4, <1>5, <1>6
<1>8. Second * (f + g) < Second * (h + 2)
  BY <1>1, <1>2, <1>3, <1>4, <1>5, <1>6
<1>9. h < f + g + 2 /\ f + g < h + 2
  <2>1. f + g + 2 \in Int /\ f + g \in Int /\ h + 2 \in Int
    BY <1>2, <1>3, <1>4
  <2> QED
    BY <1>1, <1>4, <1>7, <1>8, <2>1, TimesStrict
<1> QED
  BY <1>2, <1>3, <1>4, <1>9 DEF f, g, h

\* Frames of a source are as many frames of a timeline of the same rate
\* (take_sequence_timeline_mapping.py).
THEOREM RefitSame ==
    ASSUME NEW f \in Int, NEW fps \in Nat \ {0}
    PROVE  Refit(f, fps, fps) = f
<1> DEFINE a == 2 * f * fps + fps
           b == 2 * fps
           q == Refit(f, fps, fps)
<1>1. f * fps \in Int /\ 2 * f * fps = 2 * (f * fps) /\ fps * f = f * fps
  BY TimesInt, SMT
<1>2. a \in Int /\ b \in Nat \ {0}
  BY <1>1
<1>3. q = a \div b
  BY DEF Refit
<1> HIDE DEF a, b, q
<1>4. q \in Int /\ b * q <= a /\ a < b * q + b
  BY <1>2, <1>3, Quotient
<1>5. fps * q \in Int /\ b * q = 2 * (fps * q) /\ a = 2 * (fps * f) + fps /\ b = 2 * fps
  BY <1>1, <1>4, TimesInt, SMT DEF a, b
<1>6. fps * q < fps * f + fps /\ fps * f < fps * q + fps
  BY <1>1, <1>4, <1>5
<1> QED
  BY <1>4, <1>6, Pinned DEF q

\* What a placement is taken to fill, its last source frame included, is enough
\* for what Resolve fills without that frame, a frame that is filled in part
\* included: for every file of at most twice the rate of the timeline (broll.py).
THEOREM RoomIsEnough ==
    ASSUME NEW frames \in Nat, NEW source \in Nat \ {0}, NEW into \in Nat \ {0},
           source <= 2 * into
    PROVE  (frames * into + source - 1) \div source <= Refit(frames + 1, source, into)
<1> DEFINE c == frames * into + source - 1
           a == 2 * (frames + 1) * into + source
           b == 2 * source
           q == c \div source
           g == Refit(frames + 1, source, into)
<1>1. /\ frames * into \in Int
      /\ 2 * (frames + 1) * into = 2 * (frames * into) + 2 * into
  <2>1. (frames + 1) * into = frames * into + into
    BY SMT
  <2> QED
    BY <2>1, TimesInt, SMT
<1>2. c \in Int /\ a \in Int /\ b \in Nat \ {0}
  BY <1>1
<1>3. g = a \div b
  BY DEF Refit
<1> HIDE DEF a, b, c, g
<1>4. q \in Int /\ source * q <= c
  BY <1>2, Quotient
<1>5. g \in Int /\ a < b * g + b
  BY <1>2, <1>3, Quotient
<1> HIDE DEF q
<1>6. /\ source * q \in Int /\ source * g \in Int /\ b * g = 2 * (source * g)
      /\ source * (g + 1) = source * g + source
  BY <1>4, <1>5, TimesInt, SMT DEF b
<1>7. source * q < source * (g + 1)
  BY <1>1, <1>4, <1>5, <1>6 DEF a, b, c
<1>8. q < g + 1
  BY <1>4, <1>5, <1>7, TimesStrict
<1>9. q <= g
  BY <1>4, <1>5, <1>8
<1> QED
  BY <1>9 DEF q, g, c

-----------------------------------------------------------------------------
(* What is delivered. *)

Voice == outputs[<<"voice", {}>>]
Sound(t) == [of |-> t, cut |-> NoFile]
Begun(job) == jobs[job].state \notin {"none", "Ready"}

\* Unless two extractions raced or the user removed a file, the first sound that
\* begins keeps the name: nobody who comes later passes the preflight.
SoundInv ==
    ~raced /\ removals = 0 =>
        /\ \A s, t \in starting : s = t
        /\ starting # {} => Voice = NoFile
        /\ Voice = NoFile => reports = {}
        /\ Voice = NoFile <=> \A t \in Timelines : ~Begun(SoundJob(t))
        /\ \A s, t \in Timelines : Begun(SoundJob(s)) /\ Begun(SoundJob(t)) => s = t
        /\ \A t \in Timelines : Begun(SoundJob(t)) =>
              /\ jobs[SoundJob(t)].shows = Sound(t)
              /\ Voice \in {Partial, Sound(t)} /\ reports \subseteq {Partial, Sound(t)}
        /\ integration # NoFile => integration.voice = Talk

\* What a run has inspected: the timeline now, and later what its job shows.
Matches(run, shown) ==
    /\ shown.items = "final" /\ shown.voice = integration.voice
    /\ "captions" \in run => shown.captions

Film(run) == FilmJob(RenderName(run))

FilmFits(run) ==
    /\ Begun(Film(run)) =>
          Matches(run, jobs[Film(run)].shows.cut) /\ jobs[Film(run)].shows.of = Talk
    /\ ~Begun(Film(run)) => Matches(run, cut)
    /\ jobs[Film(run)].state = "Complete" =>
          outputs[RenderName(run)] \in {NoFile, jobs[Film(run)].shows}

FilmInv ==
    \A run \in BaselineRuns :
        /\ jobs[Film(run)].state # "none" => runs[run] # "none"
        /\ runs[run] # "none" => integration # NoFile
        /\ runs[run] # "none" /\ run \notin disturbed => FilmFits(run)

DInv == DeliveryTypeOK /\ SoundInv /\ FilmInv

-----------------------------------------------------------------------------
(* Jobs and their files *)

\* Sounds share one file, every film has its own.
LEMMA Names ==
    /\ \A t \in Timelines : SoundJob(t) \in Jobs /\ Output(SoundJob(t)) = <<"voice", {}>>
    /\ \A s, t \in Timelines : SoundJob(s) = SoundJob(t) => s = t
    /\ \A p \in Preparations : FilmJob(p) \in Jobs /\ Output(FilmJob(p)) = p
    /\ \A run \in BaselineRuns : RenderName(run) \in Preparations
    /\ \A run \in BaselineRuns : Film(run) \in Jobs /\ Output(Film(run)) = RenderName(run)
    /\ \A q, r \in BaselineRuns :
          RenderName(q) = RenderName(r) \/ Film(q) = Film(r) => q = r
    /\ \A t \in Timelines, run \in BaselineRuns : SoundJob(t) # Film(run)
    /\ <<"voice", {}>> \notin Preparations
    /\ \A job \in Jobs : Output(job) \in Outputs
    /\ \A job \in Jobs :
          (\E t \in Timelines : job = SoundJob(t)) \/ (\E run \in BaselineRuns : job = Film(run))
    /\ Talk \in Timelines /\ NoFile \notin Timelines
    /\ Partial \in Files /\ NoFile \notin Files
    /\ \A t \in Timelines : Sound(t) \in Files /\ Sound(t) # Partial /\ Sound(t).of = t
    /\ \A t \in Timelines : Content(SoundJob(t)) = Sound(t)
    /\ <<"voice", {}>> \in Outputs /\ \A p \in Preparations : p \in Outputs
    /\ \A run \in BaselineRuns : Content(Film(run)) = [of |-> Talk, cut |-> cut]
    /\ cut \in Cuts => \A job \in Jobs : Content(job) \in Files
<1>1. /\ \A t \in Timelines : SoundJob(t) \in Jobs /\ Output(SoundJob(t)) = <<"voice", {}>>
      /\ \A s, t \in Timelines : SoundJob(s) = SoundJob(t) => s = t
      /\ \A p \in Preparations : FilmJob(p) \in Jobs /\ Output(FilmJob(p)) = p
      /\ \A job \in Jobs : Output(job) \in Outputs
  BY DEF SoundJob, FilmJob, Jobs, Output, Outputs
<1>2. /\ \A run \in BaselineRuns : RenderName(run) \in Preparations
      /\ \A q, r \in BaselineRuns : RenderName(q) = RenderName(r) => q = r
      /\ <<"voice", {}>> \notin Preparations
  BY DEF Preparations, RenderName
<1>3. /\ \A q, r \in BaselineRuns : Film(q) = Film(r) => q = r
      /\ \A t \in Timelines, run \in BaselineRuns : SoundJob(t) # Film(run)
      /\ \A run \in BaselineRuns : Film(run) \in Jobs /\ Output(Film(run)) = RenderName(run)
  BY <1>1, <1>2 DEF Film, FilmJob, SoundJob
<1>4. \A job \in Jobs :
          (\E t \in Timelines : job = SoundJob(t)) \/ (\E run \in BaselineRuns : job = Film(run))
  BY DEF Jobs, SoundJob, Film, FilmJob, Preparations
<1>5. Talk \in Timelines /\ NoFile \notin Timelines /\ NoFile \notin Files
  BY DeliveryAssumption, NoFileAssumption DEF Timelines
<1>6. Partial \in Files
  BY DEF Partial, Files
<1>7. \A t \in Timelines :
          /\ Sound(t) \in Files /\ Sound(t) # Partial /\ Sound(t).of = t
          /\ Content(SoundJob(t)) = Sound(t)
  BY <1>5 DEF Sound, Content, SoundJob, Partial, Files
<1>8. \A run \in BaselineRuns : Content(Film(run)) = [of |-> Talk, cut |-> cut]
  BY DEF Content, Film, FilmJob
<1>9. cut \in Cuts => \A job \in Jobs : Content(job) \in Files
  BY <1>5 DEF Content, Files, Jobs
<1>10. <<"voice", {}>> \in Outputs /\ \A p \in Preparations : p \in Outputs
  <2>1. \A t \in Timelines : Output(SoundJob(t)) \in Outputs
    BY <1>1
  <2>2. \A p \in Preparations : Output(FilmJob(p)) \in Outputs
    BY <1>1
  <2> QED
    BY <2>1, <2>2, <1>1, <1>5
<1> QED
  BY <1>1, <1>2, <1>3, <1>4, <1>5, <1>6, <1>7, <1>8, <1>9, <1>10

JobsOK ==
    /\ jobs \in [Jobs -> [state: JobStates, shows: Files]]
    /\ \A i, j \in Jobs : jobs[i].state = "Rendering" /\ jobs[j].state = "Rendering" => i = j
    /\ outputs \in [Outputs -> Files \cup {NoFile}]

\* What is left of the type when jobs and files have theirs.
OthersOK ==
    /\ cut \in Cuts
    /\ extractions \in [Timelines -> {"none", "prepared", "started"}]
    /\ starting \subseteq {t \in Timelines : extractions[t] = "prepared"}
    /\ reports \subseteq Files
    /\ integration \in Integrations \cup {NoFile}
    /\ preparations \in [Preparations -> {"none", "applied"}]
    /\ executions \in [Preparations -> {"none", "in_progress", "started"}]
    /\ \A p \in Preparations : executions[p] # "none" => preparations[p] = "applied"
    /\ runs \in [BaselineRuns -> {"none", "in_progress", "started"}]
    /\ cutEdits \in Nat /\ removals \in Nat /\ cutEdits + removals <= MaxMeddling
    /\ captioned \in BOOLEAN /\ raced \in BOOLEAN /\ disturbed \subseteq BaselineRuns

\* The two halves of the type.
LEMMA Halves == DeliveryTypeOK <=> JobsOK /\ OthersOK
  BY DEF DeliveryTypeOK, JobsOK, OthersOK

\* Only the job that is prepared becomes Ready.
LEMMA Prepared ==
    ASSUME DeliveryTypeOK, NEW job \in Jobs, BridgePrepares(job)
    PROVE  /\ jobs' \in [Jobs -> [state: JobStates, shows: Files]]
           /\ \A j \in Jobs \ {job} : jobs'[j] = jobs[j]
           /\ jobs[job].state # "none" => jobs'[job] = jobs[job]
           /\ jobs[job].state = "none" => jobs'[job].state = "Ready"
           /\ \A i, j \in Jobs : jobs'[i].state = "Rendering" /\ jobs'[j].state = "Rendering" => i = j
  BY DEF DeliveryTypeOK, BridgePrepares, JobStates

\* What a start does to the queue and to the files.
LEMMA Started ==
    ASSUME DeliveryTypeOK, NEW job \in Jobs, BridgeStarts(job)
    PROVE  /\ JobsOK'
           /\ \A j \in Jobs \ {job} : jobs'[j] = jobs[j]
           /\ \A file \in Outputs \ {Output(job)} : outputs'[file] = outputs[file]
           /\ \/ /\ jobs[job].state = "Ready" /\ jobs'[job].state = "Rendering"
                 /\ jobs'[job].shows = Content(job) /\ outputs'[Output(job)] = Partial
              \/ jobs[job].state # "Ready" /\ jobs' = jobs /\ outputs' = outputs
<1>1. CASE jobs[job].state = "Ready"
  <2>1. /\ jobs' = [jobs EXCEPT ![job] = [state |-> "Rendering", shows |-> Content(job)]]
        /\ outputs' = [outputs EXCEPT ![Output(job)] = Partial]
        /\ \A j \in Jobs : jobs[j].state # "Rendering"
    BY <1>1 DEF BridgeStarts, Refused, Busy
  <2>2. Content(job) \in Files /\ Partial \in Files /\ Output(job) \in Outputs
    BY Names DEF DeliveryTypeOK
  <2>3. [state |-> "Rendering", shows |-> Content(job)] \in [state: JobStates, shows: Files]
    BY <2>2 DEF JobStates
  <2>4. jobs \in [Jobs -> [state: JobStates, shows: Files]] /\ outputs \in [Outputs -> Files \cup {NoFile}]
    BY DEF DeliveryTypeOK
  <2>5. JobsOK'
    BY <2>1, <2>2, <2>3, <2>4 DEF JobsOK
  <2> QED
    BY <1>1, <2>1, <2>2, <2>4, <2>5
<1>2. CASE jobs[job].state # "Ready"
  BY <1>2 DEF BridgeStarts, DeliveryTypeOK, JobsOK
<1> QED
  BY <1>1, <1>2

\* A render that ends: its file is what it shows, or is left.
LEMMA Ended ==
    ASSUME DeliveryTypeOK, NEW job \in Jobs, EndRender(job)
    PROVE  /\ JobsOK'
           /\ \A j \in Jobs \ {job} : jobs'[j] = jobs[j]
           /\ \A file \in Outputs \ {Output(job)} : outputs'[file] = outputs[file]
           /\ jobs[job].state = "Rendering" /\ jobs'[job].shows = jobs[job].shows
           /\ \/ jobs'[job].state = "Complete" /\ outputs'[Output(job)] = jobs[job].shows
              \/ jobs'[job].state = "Failed" /\ outputs' = outputs
<1>1. jobs \in [Jobs -> [state: JobStates, shows: Files]] /\ outputs \in [Outputs -> Files \cup {NoFile}]
  BY DEF DeliveryTypeOK
<1>2. jobs[job].shows \in Files /\ Output(job) \in Outputs
  BY <1>1, Names
<1>3. /\ \A j \in Jobs \ {job} : jobs'[j] = jobs[j]
      /\ \A file \in Outputs \ {Output(job)} : outputs'[file] = outputs[file]
      /\ jobs[job].state = "Rendering" /\ jobs'[job].shows = jobs[job].shows
      /\ \/ jobs'[job].state = "Complete" /\ outputs'[Output(job)] = jobs[job].shows
         \/ jobs'[job].state = "Failed" /\ outputs' = outputs
  BY <1>1, <1>2 DEF EndRender
<1>4. jobs' \in [Jobs -> [state: JobStates, shows: Files]]
  BY <1>1 DEF EndRender, JobStates
<1>5. outputs' \in [Outputs -> Files \cup {NoFile}]
  BY <1>1, <1>2 DEF EndRender
<1>6. \A i, j \in Jobs : jobs'[i].state = "Rendering" /\ jobs'[j].state = "Rendering" => i = j
  BY <1>3 DEF DeliveryTypeOK
<1> QED
  BY <1>3, <1>4, <1>5, <1>6 DEF JobsOK

\* The sound is only about its own jobs, its file and its receipts.
LEMMA SameSound ==
    ASSUME SoundInv, \A t \in Timelines : jobs'[SoundJob(t)].state \in {"none", "Ready"} <=>
                                          jobs[SoundJob(t)].state \in {"none", "Ready"},
           \A t \in Timelines : Begun(SoundJob(t)) => jobs'[SoundJob(t)].shows = jobs[SoundJob(t)].shows,
           Voice' = Voice, UNCHANGED <<raced, removals, starting, reports, integration>>
    PROVE  SoundInv'
  BY DEF SoundInv, Begun, Voice, Sound

-----------------------------------------------------------------------------
(* Every action keeps the invariant *)

\* A prepared job has not begun.
LEMMA PrepareExtractionKeeps ==
    ASSUME DInv, NEW t \in Timelines, PrepareExtraction(t)
    PROVE  DInv'
<1>0. DeliveryTypeOK /\ SoundInv /\ FilmInv
  BY DEF DInv
<1>1. DeliveryTypeOK'
  <2>1. JobsOK'
    BY <1>0, Names, Prepared DEF PrepareExtraction, JobsOK, DeliveryTypeOK
  <2>2. OthersOK'
    BY <1>0 DEF PrepareExtraction, DeliveryTypeOK, OthersOK, SoundKept, FilmKept, userVars
  <2> QED
    BY <2>1, <2>2 DEF DeliveryTypeOK, JobsOK, OthersOK
<1>2. SoundInv'
  <2>1. SoundJob(t) \in Jobs
    BY Names
  <2>2. \A s \in Timelines : jobs'[SoundJob(s)].state \in {"none", "Ready"} <=>
                            jobs[SoundJob(s)].state \in {"none", "Ready"}
    BY <1>0, <2>1, Names, Prepared DEF PrepareExtraction
  <2>3. \A s \in Timelines : Begun(SoundJob(s)) => jobs'[SoundJob(s)].shows = jobs[SoundJob(s)].shows
    BY <1>0, <2>1, Names, Prepared DEF PrepareExtraction, Begun
  <2> QED
    BY <1>0, <2>2, <2>3, SameSound DEF PrepareExtraction, userVars, Voice
<1>3. FilmInv'
  BY <1>0, Names DEF PrepareExtraction, FilmKept, userVars, BridgePrepares,
      receipts, Ready, LiveChecks, FilmInv, FilmFits, Matches, Film, DeliveryTypeOK,
      SoundInv, Begun, Voice, Sound
<1> QED
  BY <1>1, <1>2, <1>3 DEF DInv

\* Who is past the preflight alone has seen no file.
LEMMA CheckExtractionKeeps ==
    ASSUME DInv, NEW t \in Timelines, CheckExtraction(t)
    PROVE  DInv'
<1>0. DeliveryTypeOK /\ SoundInv /\ FilmInv
  BY DEF DInv
<1>1. DeliveryTypeOK'
  BY <1>0 DEF CheckExtraction, FilmKept, Startable, Busy, Ready, LiveChecks,
      DeliveryTypeOK, Cuts, Files, JobStates
<1>2. SoundInv'
  BY <1>0, Names DEF CheckExtraction, FilmKept, Startable, Busy, Ready, LiveChecks,
      SoundInv, Begun, Voice, Sound
<1>3. FilmInv'
  BY <1>0, Names DEF CheckExtraction, FilmKept, Startable, Busy, Ready, LiveChecks,
      FilmInv, FilmFits, Matches, Film, DeliveryTypeOK, SoundInv, Begun, Voice, Sound
<1> QED
  BY <1>1, <1>2, <1>3 DEF DInv

\* The sound that begins is the first to have the name.
LEMMA StartExtractionKeeps ==
    ASSUME DInv, NEW t \in Timelines, StartExtraction(t)
    PROVE  DInv'
<1>0. DeliveryTypeOK /\ SoundInv /\ FilmInv
  BY DEF DInv
<1>1. DeliveryTypeOK'
  <2>1. JobsOK'
    BY <1>0, Names, Started DEF StartExtraction, DeliveryTypeOK, JobsOK
  <2>2. OthersOK'
    BY <1>0 DEF StartExtraction, DeliveryTypeOK, OthersOK, FilmKept, userVars
  <2> QED
    BY <2>1, <2>2 DEF DeliveryTypeOK, JobsOK, OthersOK
<1>2. SoundInv'
  <2>1. SoundJob(t) \in Jobs /\ Output(SoundJob(t)) = <<"voice", {}>>
    BY Names
  <2>2. CASE jobs' = jobs /\ outputs' = outputs
    BY <1>0, <2>2 DEF StartExtraction, userVars, SoundInv, Begun, Voice, Sound
  <2>3. CASE /\ jobs[SoundJob(t)].state = "Ready" /\ jobs'[SoundJob(t)].state = "Rendering"
             /\ jobs'[SoundJob(t)].shows = Sound(t) /\ Voice' = Partial
             /\ \A s \in Timelines \ {t} : jobs'[SoundJob(s)] = jobs[SoundJob(s)]
    <3> SUFFICES ASSUME ~raced, removals = 0, ~raced', removals' = 0
                 PROVE  SoundInv'
      BY DEF SoundInv, StartExtraction, userVars
    <3>1. t \in starting /\ starting' = starting \ {t} /\ reports' = reports /\ integration' = integration
      BY DEF StartExtraction, userVars
    <3>2. Voice = NoFile /\ starting' = {} /\ reports' = {}
      BY <1>0, <3>1 DEF SoundInv
    <3>3. \A s \in Timelines : Begun(SoundJob(s))' <=> s = t
      BY <1>0, <2>3, <3>2 DEF SoundInv, Begun
    <3>4. Partial # NoFile
      BY Names
    <3>5. integration' # NoFile => integration'.voice = Talk
      BY <1>0, <3>1 DEF SoundInv
    <3> QED
      BY <2>3, <3>2, <3>3, <3>4, <3>5 DEF SoundInv, Sound
  <2>4. Content(SoundJob(t)) = Sound(t) /\ \A s \in Timelines \ {t} : SoundJob(s) \in Jobs \ {SoundJob(t)}
    BY Names
  <2>5. CASE Refused(SoundJob(t)) /\ UNCHANGED <<jobs, outputs, extractions>>
    BY <2>2, <2>5
  <2>6. CASE BridgeStarts(SoundJob(t))
    BY <1>0, <2>1, <2>2, <2>3, <2>4, <2>6, Started DEF Voice
  <2> QED
    BY <2>5, <2>6 DEF StartExtraction
<1>3. FilmInv'
  <2>1. \A run \in BaselineRuns :
          jobs'[Film(run)] = jobs[Film(run)] /\ outputs'[RenderName(run)] = outputs[RenderName(run)]
    <3>1. CASE BridgeStarts(SoundJob(t))
      <4>1. /\ SoundJob(t) \in Jobs /\ Output(SoundJob(t)) = <<"voice", {}>>
            /\ \A run \in BaselineRuns :
                  Film(run) \in Jobs \ {SoundJob(t)}
                  /\ RenderName(run) \in Outputs \ {<<"voice", {}>>}
        BY Names
      <4>2. /\ \A j \in Jobs \ {SoundJob(t)} : jobs'[j] = jobs[j]
            /\ \A file \in Outputs \ {Output(SoundJob(t))} : outputs'[file] = outputs[file]
        BY <1>0, <3>1, <4>1, Started
      <4> QED
        BY <4>1, <4>2
    <3>2. CASE UNCHANGED <<jobs, outputs>>
      BY <3>2
    <3> QED
      BY <3>1, <3>2 DEF StartExtraction
  <2> QED
    BY <1>0, <2>1, Names DEF StartExtraction, FilmKept, userVars, FilmInv, FilmFits, Matches, Begun
<1> QED
  BY <1>1, <1>2, <1>3 DEF DInv

\* A report is about the sound that is there.
LEMMA CleanKeeps ==
    ASSUME DInv, Clean
    PROVE  DInv'
<1>0. DeliveryTypeOK /\ SoundInv /\ FilmInv
  BY DEF DInv
<1>1. DeliveryTypeOK'
  <2>1. reports' \subseteq Files
    BY <1>0, Names DEF Clean, DeliveryTypeOK
  <2> QED
    BY <1>0, <2>1 DEF Clean, DeliveryTypeOK, userVars, FilmKept
<1>2. SoundInv'
  <2>1. Voice # NoFile /\ reports' = reports \cup {Voice}
    BY DEF Clean, Voice
  <2> QED
    BY <1>0, <2>1 DEF Clean, userVars, SoundInv, Voice, Begun, Sound
<1>3. FilmInv'
  BY <1>0, Names DEF Clean, FilmKept, userVars, receipts, FilmInv, FilmFits, Matches,
      Film, DeliveryTypeOK, SoundInv, Begun, Voice, Sound
<1> QED
  BY <1>1, <1>2, <1>3 DEF DInv

\* The only sound that was cleaned is the one that was started.
LEMMA IntegrateKeeps ==
    ASSUME DInv, Integrate
    PROVE  DInv'
<1>0. DeliveryTypeOK /\ SoundInv /\ FilmInv
  BY DEF DInv
<1>1. DeliveryTypeOK'
  BY <1>0 DEF Integrate, FilmKept, userVars, Passes, ReportFits, receipts, Partial,
      DeliveryTypeOK, Cuts, Files, Integrations, JobStates
<1>2. SoundInv'
  <2> SUFFICES ASSUME ~raced, removals = 0, ~raced', removals' = 0
               PROVE  SoundInv'
    BY DEF SoundInv, Integrate, userVars
  <2>1. PICK cleaned \in reports : cleaned # Partial /\ integration' = [voice |-> cleaned.of, items |-> cut.items]
    BY DEF Integrate, ReportFits
  <2>2. Begun(SoundJob(Talk))
    BY DEF Integrate, Passes, Begun
  <2>3. cleaned = Sound(Talk)
    BY <1>0, <2>1, <2>2, Names DEF SoundInv
  <2>4. integration'.voice = Talk
    BY <2>1, <2>3, Names
  <2> QED
    BY <1>0, <2>4 DEF Integrate, userVars, SoundInv, Voice, Begun, Sound
<1>3. FilmInv'
  BY <1>0 DEF Integrate, FilmKept, userVars, Passes, ReportFits, receipts, Partial,
      FilmInv, FilmFits, Matches, Film
<1> QED
  BY <1>1, <1>2, <1>3 DEF DInv

\* More subtitles do no harm.
LEMMA CaptionKeeps ==
    ASSUME DInv, Caption
    PROVE  DInv'
<1>0. DeliveryTypeOK /\ SoundInv /\ FilmInv
  BY DEF DInv
<1>1. DeliveryTypeOK'
  BY <1>0 DEF Caption, SoundKept, FilmKept, userVars, receipts, DeliveryTypeOK,
      Cuts, Files, JobStates
<1>2. SoundInv'
  BY <1>0, SameSound DEF Caption, receipts, userVars, FilmKept, SoundKept, Voice
<1>3. FilmInv'
  BY <1>0, Names DEF Caption, SoundKept, FilmKept, userVars, receipts, FilmInv,
      FilmFits, Matches, Film, DeliveryTypeOK, SoundInv, Begun, Voice, Sound
<1> QED
  BY <1>1, <1>2, <1>3 DEF DInv

\* The run has seen its receipts fit the timeline.
LEMMA BeginRunKeeps ==
    ASSUME DInv, NEW run \in BaselineRuns, BeginRun(run)
    PROVE  DInv'
<1>0. DeliveryTypeOK /\ SoundInv /\ FilmInv
  BY DEF DInv
<1>1. DeliveryTypeOK'
  BY <1>0 DEF BeginRun, SoundKept, userVars, Ready, receipts, LiveChecks,
      DeliveryTypeOK, Cuts, Files, JobStates
<1>2. SoundInv'
  BY <1>0, SameSound DEF BeginRun, receipts, userVars, FilmKept, SoundKept, Voice
<1>3. FilmInv'
  BY <1>0, Names DEF BeginRun, SoundKept, userVars, Ready, receipts, LiveChecks,
      FilmInv, FilmFits, Matches, Film, DeliveryTypeOK, SoundInv, Begun, Voice, Sound
<1> QED
  BY <1>1, <1>2, <1>3 DEF DInv

\* A run goes on with what it inspected.
LEMMA FinishRunKeeps ==
    ASSUME DInv, NEW run \in BaselineRuns, FinishRun(run)
    PROVE  DInv'
<1>0. DeliveryTypeOK /\ SoundInv /\ FilmInv
  BY DEF DInv
<1>1. DeliveryTypeOK'
  BY <1>0 DEF FinishRun, SoundKept, userVars, receipts, DeliveryTypeOK, Cuts,
      Files, JobStates
<1>2. SoundInv'
  BY <1>0, SameSound DEF FinishRun, receipts, userVars, FilmKept, SoundKept, Voice
<1>3. FilmInv'
  BY <1>0, Names DEF FinishRun, SoundKept, userVars, receipts, FilmInv, FilmFits,
      Matches, Film, DeliveryTypeOK, SoundInv, Begun, Voice, Sound
<1> QED
  BY <1>1, <1>2, <1>3 DEF DInv

\* Only a run that was inspected has its job prepared.
LEMMA PrepareFilmKeeps ==
    ASSUME DInv, NEW p \in Preparations, PrepareFilm(p)
    PROVE  DInv'
<1>0. DeliveryTypeOK /\ SoundInv /\ FilmInv
  BY DEF DInv
<1>1. DeliveryTypeOK'
  <2>1. JobsOK'
    BY <1>0, Names, Prepared DEF PrepareFilm, Known, JobsOK, DeliveryTypeOK
  <2>2. OthersOK'
    BY <1>0 DEF PrepareFilm, DeliveryTypeOK, OthersOK, SoundKept, FilmKept, userVars
  <2> QED
    BY <2>1, <2>2 DEF DeliveryTypeOK, JobsOK, OthersOK
<1>2. SoundInv'
  <2>1. FilmJob(p) \in Jobs /\ \A t \in Timelines : SoundJob(t) # FilmJob(p)
    BY Names DEF SoundJob, FilmJob
  <2>2. \A t \in Timelines : jobs'[SoundJob(t)] = jobs[SoundJob(t)]
    BY <1>0, <2>1, Names, Prepared DEF PrepareFilm
  <2> QED
    BY <1>0, <2>2, SameSound DEF PrepareFilm, userVars, SoundKept, Voice
<1>3. FilmInv'
  BY <1>0, Names DEF PrepareFilm, SoundKept, userVars, BridgePrepares, Known,
      receipts, Ready, LiveChecks, FilmInv, FilmFits, Matches, Film, DeliveryTypeOK,
      SoundInv, Begun, Voice, Sound
<1> QED
  BY <1>1, <1>2, <1>3 DEF DInv

\* The preflight changes no file.
LEMMA BeginFilmKeeps ==
    ASSUME DInv, NEW p \in Preparations, BeginFilm(p)
    PROVE  DInv'
<1>0. DeliveryTypeOK /\ SoundInv /\ FilmInv
  BY DEF DInv
<1>1. DeliveryTypeOK'
  BY <1>0 DEF BeginFilm, SoundKept, userVars, Startable, receipts, Busy, Ready,
      LiveChecks, DeliveryTypeOK, Cuts, Files, JobStates
<1>2. SoundInv'
  BY <1>0, SameSound DEF BeginFilm, receipts, userVars, FilmKept, SoundKept, Voice
<1>3. FilmInv'
  BY <1>0, Names DEF BeginFilm, SoundKept, userVars, Startable, receipts, Busy,
      Ready, LiveChecks, FilmInv, FilmFits, Matches, Film, DeliveryTypeOK, SoundInv,
      Begun, Voice, Sound
<1> QED
  BY <1>1, <1>2, <1>3 DEF DInv

\* The film shows the timeline as it is now, in a file of its own.
LEMMA StartFilmKeeps ==
    ASSUME DInv, NEW p \in Preparations, StartFilm(p)
    PROVE  DInv'
<1>0. DeliveryTypeOK /\ SoundInv /\ FilmInv
  BY DEF DInv
<1>1. DeliveryTypeOK'
  <2>1. JobsOK'
    BY <1>0, Names, Started DEF StartFilm
  <2>2. OthersOK'
    BY <1>0 DEF StartFilm, DeliveryTypeOK, OthersOK, SoundKept, userVars
  <2> QED
    BY <2>1, <2>2 DEF DeliveryTypeOK, JobsOK, OthersOK
<1>2. SoundInv'
  <2>1. FilmJob(p) \in Jobs /\ \A t \in Timelines : SoundJob(t) # FilmJob(p)
    BY Names DEF SoundJob, FilmJob
  <2>2. \A t \in Timelines : jobs'[SoundJob(t)] = jobs[SoundJob(t)]
    BY <1>0, <2>1, Names, Started DEF StartFilm
  <2>3. Voice' = Voice
    BY <1>0, <2>1, Names, Started DEF StartFilm, Voice
  <2> QED
    BY <1>0, <2>2, <2>3, SameSound DEF StartFilm, userVars, SoundKept
<1>3. FilmInv'
  BY <1>0, Names DEF StartFilm, SoundKept, userVars, BridgeStarts, receipts,
      Refused, Content, Partial, Ready, Busy, LiveChecks, FilmInv, FilmFits, Matches,
      Film, DeliveryTypeOK, SoundInv, Begun, Voice, Sound
<1> QED
  BY <1>1, <1>2, <1>3 DEF DInv

\* The file becomes what its job shows.
LEMMA EndRenderKeeps ==
    ASSUME DInv, NEW job \in Jobs, EndRender(job)
    PROVE  DInv'
<1>0. DeliveryTypeOK /\ SoundInv /\ FilmInv
  BY DEF DInv
<1>1. DeliveryTypeOK'
  <2>1. OthersOK'
    BY <1>0 DEF EndRender, DeliveryTypeOK, OthersOK, receipts, userVars
  <2> QED
    BY <1>0, <2>1, Ended DEF DeliveryTypeOK, JobsOK, OthersOK
<1>2. SoundInv'
  <2>1. CASE \E run \in BaselineRuns : job = Film(run)
    <3>1. \A t \in Timelines : jobs'[SoundJob(t)] = jobs[SoundJob(t)]
      BY <1>0, <2>1, Names, Ended
    <3>2. Voice' = Voice
      BY <1>0, <2>1, Names, Ended DEF Voice
    <3> QED
      BY <1>0, <3>1, <3>2, SameSound DEF EndRender, receipts, userVars
  <2>2. CASE \E t \in Timelines : job = SoundJob(t)
    <3> SUFFICES ASSUME ~raced, removals = 0, ~raced', removals' = 0
                 PROVE  SoundInv'
      BY DEF SoundInv, EndRender, userVars
    <3>1. PICK t \in Timelines : job = SoundJob(t)
      BY <2>2
    <3>2. /\ \A s \in Timelines \ {t} : jobs'[SoundJob(s)] = jobs[SoundJob(s)]
          /\ jobs[SoundJob(t)].state = "Rendering" /\ jobs'[SoundJob(t)].shows = jobs[SoundJob(t)].shows
          /\ jobs'[SoundJob(t)].state \in {"Complete", "Failed"}
          /\ Voice' = Voice \/ Voice' = jobs[SoundJob(t)].shows
      BY <1>0, <3>1, Names, Ended DEF Voice
    <3>3. \A s \in Timelines : Begun(SoundJob(s))' <=> Begun(SoundJob(s))
      BY <3>2 DEF Begun
    <3>4. Begun(SoundJob(t)) /\ jobs[SoundJob(t)].shows = Sound(t) /\ Voice \in {Partial, Sound(t)}
      BY <1>0, <3>2 DEF Begun, SoundInv
    <3>5. UNCHANGED <<starting, reports, integration>>
      BY DEF EndRender, receipts
    <3>6. Voice' # NoFile /\ Voice # NoFile /\ Voice' \in {Partial, Sound(t)}
      BY <3>2, <3>4, Names
    <3> QED
      BY <1>0, <3>2, <3>3, <3>4, <3>5, <3>6 DEF SoundInv, Sound
  <2> QED
    BY <2>1, <2>2, Names
<1>3. FilmInv'
  <2> SUFFICES ASSUME NEW run \in BaselineRuns
               PROVE  /\ jobs'[Film(run)].state # "none" => runs'[run] # "none"
                      /\ runs'[run] # "none" => integration' # NoFile
                      /\ runs'[run] # "none" /\ run \notin disturbed' => FilmFits(run)'
    BY DEF FilmInv, Film
  <2>1. /\ jobs'[Film(run)].state \in {"none", "Ready"} <=> jobs[Film(run)].state \in {"none", "Ready"}
        /\ jobs'[Film(run)].state # "none" => jobs[Film(run)].state # "none"
        /\ jobs'[Film(run)].shows = jobs[Film(run)].shows
    BY <1>0, Names, Ended
  <2>2. \/ jobs'[Film(run)].state # "Complete"
        \/ outputs'[RenderName(run)] = jobs[Film(run)].shows
        \/ jobs'[Film(run)] = jobs[Film(run)] /\ outputs'[RenderName(run)] = outputs[RenderName(run)]
    <3>1. CASE job = Film(run)
      BY <1>0, <3>1, Names, Ended
    <3>2. CASE job # Film(run)
      <4>1. Film(run) \in Jobs \ {job} /\ RenderName(run) \in Outputs \ {Output(job)}
        <5>1. Film(run) \in Jobs /\ RenderName(run) \in Outputs
          BY Names
        <5>2. Output(job) # RenderName(run)
          <6>1. CASE \E t \in Timelines : job = SoundJob(t)
            <7>1. PICK t \in Timelines : job = SoundJob(t)
              BY <6>1
            <7>2. Output(job) = <<"voice", {}>> /\ <<"voice", {}>> \notin Preparations
              BY <7>1, Names
            <7>3. RenderName(run) \in Preparations
              BY Names
            <7> QED
              BY <7>2, <7>3
          <6>2. CASE \E q \in BaselineRuns : job = Film(q)
            BY <3>2, <6>2, Names
          <6> QED
            BY <6>1, <6>2, Names
        <5> QED
          BY <3>2, <5>1, <5>2
      <4> QED
        BY <1>0, <4>1, Ended
    <3> QED
      BY <3>1, <3>2
  <2> QED
    BY <1>0, <2>1, <2>2 DEF EndRender, receipts, userVars, FilmInv, FilmFits, Matches, Begun, Film
<1> QED
  BY <1>1, <1>2, <1>3 DEF DInv

\* A run whose film has not begun is disturbed.
LEMMA EditCutKeeps ==
    ASSUME DInv, EditCut
    PROVE  DInv'
<1>0. DeliveryTypeOK /\ SoundInv /\ FilmInv
  BY DEF DInv
<1>1. DeliveryTypeOK'
  <2>1. cut' \in Cuts
    <3>1. cut \in Cuts
      BY <1>0 DEF DeliveryTypeOK
    <3>2. CASE cut' = [cut EXCEPT !.items = IF @ = "final" THEN "moved" ELSE "final"]
      BY <3>1, <3>2 DEF Cuts
    <3>3. CASE cut' = [cut EXCEPT !.voice = NoFile]
      BY <3>1, <3>3 DEF Cuts
    <3>4. CASE cut' = [cut EXCEPT !.captions = FALSE]
      BY <3>1, <3>4 DEF Cuts
    <3> QED
      BY <3>2, <3>3, <3>4 DEF EditCut
  <2>2. JobsOK'
    BY <1>0 DEF EditCut, DeliveryTypeOK, JobsOK
  <2>3. cutEdits' \in Nat /\ removals' \in Nat /\ cutEdits' + removals' <= MaxMeddling
    BY <1>0, DeliveryAssumption DEF EditCut, DeliveryTypeOK
  <2>4. disturbed' \subseteq BaselineRuns
    BY <1>0 DEF EditCut, DeliveryTypeOK
  <2>5. OthersOK'
    BY <1>0, <2>1, <2>3, <2>4 DEF EditCut, DeliveryTypeOK, OthersOK, receipts
  <2> QED
    BY <2>2, <2>5 DEF DeliveryTypeOK, JobsOK, OthersOK
<1>2. SoundInv'
  BY <1>0, SameSound DEF EditCut, receipts, userVars, FilmKept, SoundKept, Voice
<1>3. FilmInv'
  BY <1>0, Names DEF EditCut, receipts, Busy, Ready, userVars, LiveChecks, FilmInv,
      FilmFits, Matches, Film, DeliveryTypeOK, SoundInv, Begun, Voice, Sound
<1> QED
  BY <1>1, <1>2, <1>3 DEF DInv

\* A removed file is no other film.
LEMMA RemoveFileKeeps ==
    ASSUME DInv, RemoveFile
    PROVE  DInv'
<1>0. DeliveryTypeOK /\ SoundInv /\ FilmInv
  BY DEF DInv
<1>1. DeliveryTypeOK'
  <2>1. JobsOK'
    BY <1>0 DEF RemoveFile, DeliveryTypeOK, JobsOK
  <2>2. cutEdits' \in Nat /\ removals' \in Nat /\ cutEdits' + removals' <= MaxMeddling
    BY <1>0, DeliveryAssumption DEF RemoveFile, DeliveryTypeOK
  <2>3. OthersOK'
    BY <1>0, <2>2 DEF RemoveFile, DeliveryTypeOK, OthersOK, receipts
  <2> QED
    BY <2>1, <2>3 DEF DeliveryTypeOK, JobsOK, OthersOK
<1>2. SoundInv'
  <2>1. removals' # 0
    BY <1>0 DEF RemoveFile, DeliveryTypeOK
  <2> QED
    BY <2>1 DEF SoundInv
<1>3. FilmInv'
  BY <1>0, Names DEF RemoveFile, receipts, Busy, userVars, FilmInv, FilmFits, Matches,
      Film, DeliveryTypeOK, SoundInv, Begun, Voice, Sound
<1> QED
  BY <1>1, <1>2, <1>3 DEF DInv

-----------------------------------------------------------------------------
(* The invariant and what follows from it *)

\* Nothing has begun.
LEMMA DeliveryInitEstablishes ==
    ASSUME DeliveryInit
    PROVE  DInv
<1>1. \A job \in Jobs : jobs[job].state \in {"none", "Ready"} /\ jobs[job].shows = Partial
  BY DEF DeliveryInit, NoJob
<1>2. \A job \in Jobs : outputs[Output(job)] = NoFile
  BY Names DEF DeliveryInit
<1>3. DeliveryTypeOK
  <2>1. jobs \in [Jobs -> [state: JobStates, shows: Files]]
    BY Names DEF DeliveryInit, NoJob, JobStates
  <2>2. outputs \in [Outputs -> Files \cup {NoFile}]
    BY DEF DeliveryInit
  <2>3. JobsOK
    BY <1>1, <2>1, <2>2 DEF JobsOK
  <2>4. OthersOK
    <3>1. cut \in Cuts
      BY DEF DeliveryInit, Cuts
    <3>2. extractions \in [Timelines -> {"none", "prepared", "started"}]
      BY DEF DeliveryInit
    <3>3. cutEdits \in Nat /\ removals \in Nat /\ cutEdits + removals <= MaxMeddling
      BY DeliveryAssumption DEF DeliveryInit
    <3>4. /\ starting = {} /\ reports = {} /\ integration = NoFile /\ disturbed = {}
          /\ captioned \in BOOLEAN /\ raced \in BOOLEAN
      BY DEF DeliveryInit
    <3>5. /\ preparations \in [Preparations -> {"none", "applied"}]
          /\ executions \in [Preparations -> {"none", "in_progress", "started"}]
          /\ \A p \in Preparations : executions[p] = "none"
          /\ runs \in [BaselineRuns -> {"none", "in_progress", "started"}]
      BY DEF DeliveryInit
    <3> QED
      BY <3>1, <3>2, <3>3, <3>4, <3>5 DEF OthersOK
  <2> QED
    BY <2>3, <2>4 DEF DeliveryTypeOK, JobsOK, OthersOK
<1>4. SoundInv
  BY <1>1, <1>2, Names DEF DeliveryInit, SoundInv, Begun, Voice
<1>5. FilmInv
  <2> SUFFICES ASSUME NEW run \in BaselineRuns
               PROVE  jobs[Film(run)].state = "none" /\ runs[run] = "none"
    BY DEF FilmInv
  <2>1. Film(run) \in Jobs
    BY Names
  <2>2. \A t \in Others : Film(run) # SoundJob(t)
    BY Names DEF Timelines
  <2> QED
    BY <2>1, <2>2 DEF DeliveryInit, NoJob
<1> QED
  BY <1>3, <1>4, <1>5 DEF DInv

\* Every step, of whichever call, keeps the invariant.
LEMMA DeliveryNextKeeps ==
    ASSUME DInv, [DeliveryNext]_deliveryVars
    PROVE  DInv'
<1>1. CASE UNCHANGED deliveryVars
  BY <1>1 DEF deliveryVars, receipts, userVars, DInv, DeliveryTypeOK, SoundInv, FilmInv,
      FilmFits, Matches, Begun, Voice
<1>2. CASE DeliveryNext
  BY <1>2, PrepareExtractionKeeps, CheckExtractionKeeps, StartExtractionKeeps, CleanKeeps,
      IntegrateKeeps, CaptionKeeps, BeginRunKeeps, FinishRunKeeps, PrepareFilmKeeps,
      BeginFilmKeeps, StartFilmKeeps, EndRenderKeeps, EditCutKeeps, RemoveFileKeeps
  DEF DeliveryNext
<1> QED
  BY <1>1, <1>2

\* Whatever else is rendered under the same names, and however often calls are
\* interrupted: the voice on the timeline is its own, and a run reports the film
\* of what it inspected (baseline_edit.py, finalized_audio_integration.py).
THEOREM DeliveredWasInspectedHolds == Spec => []DeliveredWasInspected
<1>1. Init => DInv
  BY DeliveryInitEstablishes DEF Init
<1>2. DInv /\ [Next]_vars => DInv'
  BY DeliveryNextKeeps DEF Next, vars
<1>3. DInv => DeliveredWasInspected
  <2> SUFFICES ASSUME DInv PROVE VoiceIsItsOwn /\ CompleteWasInspected
    BY DEF DeliveredWasInspected
  <2>0. DeliveryTypeOK /\ SoundInv /\ FilmInv
    BY DEF DInv
  <2>1. VoiceIsItsOwn
    BY <2>0 DEF VoiceIsItsOwn, SoundInv
  <2>2. CompleteWasInspected
    <3> SUFFICES ASSUME NEW run \in BaselineRuns, Complete(run), run \notin disturbed
                 PROVE  LET film == outputs[RenderName(run)] IN
                        /\ film.of = Talk /\ film.cut.items = "final"
                        /\ film.cut.voice = integration.voice
                        /\ "captions" \in run => film.cut.captions
      BY Names DEF CompleteWasInspected, Film
    <3>1. runs[run] # "none" /\ jobs[Film(run)].state = "Complete"
          /\ outputs[RenderName(run)] # NoFile
      BY Names DEF Complete, Passes, Film
    <3>2. FilmFits(run)
      BY <2>0, <3>1 DEF FilmInv
    <3> QED
      BY <3>1, <3>2 DEF FilmFits, Matches, Begun
  <2> QED
    BY <2>1, <2>2
<1> QED
  BY <1>1, <1>2, <1>3, PTL DEF Spec

-----------------------------------------------------------------------------
(* The dressing of the film *)

TimelineNames == Stages \cup {"baseline"}

\* An item has the fields of an item, and an id of its own among the media.
Shaped(item) ==
    item = Item(item.id, item.track, item.from, item.to, item.source, item.media)
OwnIds(items) == \A x, y \in Media(items) : x.id = y.id => x = y
NoBroll(items) == \A x \in Media(items) : x.id[1] # "broll"

CopiesInv ==
    /\ DOMAIN copies = TimelineNames
    /\ \A t \in TimelineNames : OwnIds(copies[t]) /\ \A x \in copies[t] : Shaped(x)
    /\ NoBroll(copies["baseline"])
    /\ replies["cover"] = {} => NoBroll(copies["cover"])
    /\ replies["cover"] # {} => copies["cover"] # {}

\* A plan stays the reviewed one while a call is at work on it; that of a treatment
\* is the media that the animation was accepted with.
PlanInv ==
    /\ agreed["cover"] # Nothing => agreed["cover"].wish \in Wishes
    /\ dressing["cover"] # "idle" => agreed["cover"] # Nothing
    /\ accepted["title"] # {} => dressing["title"] = "idle"
    /\ agreed["grade"] # Nothing =>
          accepted["title"] # {} /\ agreed["grade"] = Media(accepted["title"])
    /\ dressing["grade"] # "idle" => agreed["grade"] # Nothing /\ accepted["grade"] = {}
    /\ accepted["grade"] # {} => accepted["title"] # {}

\* What a call named is what it found, and all of it.
Found ==
    /\ \A item \in agreed["grade"] : \E twin \in Media(copies["grade"]) :
          Shown(twin) = Shown(item)
    /\ \A id \in mapped : \E item \in agreed["grade"] : \E twin \in Media(copies["grade"]) :
          Shown(twin) = Shown(item) /\ twin.id = id

\* GradeIsWhole, item by item.
WholeFilm ==
    /\ \A x \in Media(copies["grade"]) :
          x.id \in graded /\ \E y \in Media(accepted["title"]) : Shown(x) = Shown(y)
    /\ \A y \in Media(accepted["title"]) : \E x \in Media(copies["grade"]) :
          Shown(x) = Shown(y)

GradeInv ==
    "grade" \notin touched =>
        /\ dressing["grade"] \in {"mapped", "changed"} => Found
        /\ accepted["grade"] # {} => WholeFilm

ShapeInv ==
    /\ DOMAIN agreed = Stages /\ DOMAIN dressing = Stages
    /\ DOMAIN replies = Stages /\ DOMAIN accepted = Stages

GInv == ShapeInv /\ CopiesInv /\ PlanInv /\ GradeInv

-----------------------------------------------------------------------------
(* Items *)

\* Moving an item, or what it shows, leaves its id and its kind.
LEMMA SameItem ==
    ASSUME NEW x, Shaped(x), NEW by, NEW y,
           y \in {Moved(x, by), [x EXCEPT !.source = @ + 1]}
    PROVE  Shaped(y) /\ y.id = x.id /\ y.media = x.media
  BY DEF Shaped, Moved, Item

\* An edit of one timeline.
LEMMA Trimmed ==
    ASSUME NEW items, OwnIds(items), \A x \in items : Shaped(x),
           NEW item \in items, NEW y,
           y \in {Moved(item, 1), [item EXCEPT !.source = @ + 1]},
           NEW after, after \in {(items \ {item}) \cup {y}, items \ {item}}
    PROVE  /\ OwnIds(after) /\ \A x \in after : Shaped(x)
           /\ NoBroll(items) => NoBroll(after)
<1>1. Shaped(y) /\ y.id = item.id /\ y.media = item.media
  BY SameItem
<1> QED
  BY <1>1 DEF OwnIds, NoBroll, Media

\* What B-roll inserts.
LEMMA InsertedItems ==
    ASSUME NEW wish, wish # <<>>, wish \in Seq([start: Nat, end: Nat, at: Nat, track: Nat]),
           NEW lengths,
           NEW items, OwnIds(items), NoBroll(items), \A x \in items : Shaped(x)
    PROVE  /\ Inserted(wish, lengths) # {}
           /\ OwnIds(items \cup Inserted(wish, lengths))
           /\ \A x \in items \cup Inserted(wish, lengths) : Shaped(x)
<1>1. DOMAIN wish # {}
  OBVIOUS
<1>2. \A x \in Inserted(wish, lengths) : \E i \in DOMAIN wish :
         x = Item(<<"broll", i>>, wish[i].track, wish[i].at, wish[i].at + lengths[i],
                  wish[i].start, TRUE)
  BY DEF Inserted
<1>3. \A x \in Inserted(wish, lengths) : Shaped(x) /\ x.id[1] = "broll"
  BY <1>2 DEF Shaped, Item
<1>4. \A x, y \in Inserted(wish, lengths) : x.id = y.id => x = y
  <2>1. SUFFICES ASSUME NEW x \in Inserted(wish, lengths), NEW y \in Inserted(wish, lengths),
                        x.id = y.id
                 PROVE  x = y
    OBVIOUS
  <2>2. PICK i \in DOMAIN wish :
           x = Item(<<"broll", i>>, wish[i].track, wish[i].at, wish[i].at + lengths[i],
                    wish[i].start, TRUE)
    BY <1>2
  <2>3. PICK j \in DOMAIN wish :
           y = Item(<<"broll", j>>, wish[j].track, wish[j].at, wish[j].at + lengths[j],
                    wish[j].start, TRUE)
    BY <1>2
  <2>4. x.id = <<"broll", i>> /\ y.id = <<"broll", j>>
    BY <2>2, <2>3 DEF Item
  <2>5. x.id[2] = i /\ y.id[2] = j
    BY <2>4
  <2>6. i = j
    BY <2>1, <2>5
  <2> QED
    BY <2>2, <2>3, <2>6
<1> QED
  BY <1>1, <1>3, <1>4 DEF OwnIds, NoBroll, Media, Inserted

-----------------------------------------------------------------------------
(* The steps that leave the timelines and what was found *)

\* A plan is reviewed before a timeline of the stage is made.
LEMMA AgreeKeeps ==
    ASSUME GInv, NEW stage \in Stages, Agree(stage)
    PROVE  GInv'
<1>0. ShapeInv /\ CopiesInv /\ PlanInv /\ GradeInv
  BY DEF GInv
<1>1. PICK reviewed \in Plans(stage) : agreed' = [agreed EXCEPT ![stage] = reviewed]
  BY DEF Agree
<1>2. stage = "cover" => reviewed.wish \in Wishes
  BY <1>1 DEF Plans, CoverPlans
<1>3. stage = "grade" => accepted["title"] # {} /\ reviewed = Media(accepted["title"])
  BY <1>1 DEF Plans, GradePlans, TitleStands
<1>4. ShapeInv' /\ CopiesInv'
  BY <1>0, <1>1 DEF Agree, WorldKept, ShapeInv, CopiesInv, OwnIds, NoBroll, Media, Shaped
<1>5. PlanInv'
  BY <1>0, <1>1, <1>2, <1>3 DEF Agree, WorldKept, ShapeInv, PlanInv, Stages
<1>6. GradeInv'
  <2>1. CASE stage = "grade"
    BY <1>0, <2>1 DEF Agree, WorldKept, PlanInv, GradeInv, WholeFilm
  <2>2. CASE stage # "grade"
    BY <1>0, <1>1, <2>2 DEF Agree, WorldKept, ShapeInv, GradeInv, WholeFilm, Found, Stages
  <2> QED
    BY <2>1, <2>2
<1> QED
  BY <1>4, <1>5, <1>6 DEF GInv

\* A call begins with a plan, and without a receipt.
LEMMA DressKeeps ==
    ASSUME GInv, NEW stage \in Stages, Dress(stage)
    PROVE  GInv'
<1>0. ShapeInv /\ CopiesInv /\ PlanInv /\ GradeInv
  BY DEF GInv
<1>1. dressing' = [dressing EXCEPT ![stage] = "checked"]
  BY DEF Dress, Becomes
<1>2. ShapeInv' /\ CopiesInv'
  BY <1>0, <1>1 DEF Dress, WorldKept, ShapeInv, CopiesInv, OwnIds, NoBroll, Media, Shaped
<1>3. PlanInv'
  BY <1>0, <1>1 DEF Dress, StillAgreed, WorldKept, ShapeInv, PlanInv, Stages
<1>4. GradeInv'
  BY <1>0, <1>1 DEF Dress, WorldKept, ShapeInv, GradeInv, WholeFilm, Found, Stages
<1> QED
  BY <1>2, <1>3, <1>4 DEF GInv

\* What is given up is not reported.
LEMMA GiveUpKeeps ==
    ASSUME GInv, NEW stage \in Stages, GiveUpDressing(stage)
    PROVE  GInv'
<1>0. ShapeInv /\ CopiesInv /\ PlanInv /\ GradeInv
  BY DEF GInv
<1>1. dressing' = [dressing EXCEPT ![stage] = "idle"]
  BY DEF GiveUpDressing, Becomes
<1>2. ShapeInv' /\ CopiesInv'
  BY <1>0, <1>1 DEF GiveUpDressing, WorldKept, ShapeInv, CopiesInv, OwnIds, NoBroll,
      Media, Shaped
<1>3. PlanInv'
  BY <1>0, <1>1 DEF GiveUpDressing, WorldKept, ShapeInv, PlanInv, Stages
<1>4. GradeInv'
  BY <1>0, <1>1 DEF GiveUpDressing, WorldKept, ShapeInv, GradeInv, WholeFilm, Found, Stages
<1> QED
  BY <1>2, <1>3, <1>4 DEF GInv

\* Every item of the plan has one twin, and only twins are named.
LEMMA MapTargetsKeeps ==
    ASSUME GInv, MapTargets
    PROVE  GInv'
<1>0. ShapeInv /\ CopiesInv /\ PlanInv /\ GradeInv
  BY DEF GInv
<1>1. \E label : dressing' = [dressing EXCEPT !["grade"] = label]
  BY DEF MapTargets, Becomes
<1>2. ShapeInv' /\ CopiesInv'
  BY <1>0, <1>1 DEF MapTargets, WorldKept, ShapeInv, CopiesInv, OwnIds, NoBroll, Media, Shaped
<1>3. PlanInv'
  BY <1>0, <1>1 DEF MapTargets, WorldKept, ShapeInv, PlanInv, Stages
<1>4. accepted'["grade"] = {}
  BY <1>0 DEF MapTargets, PlanInv
<1>5. CASE Mappable
  <2>1. mapped' = Ids(UNION {Twins(item) : item \in agreed["grade"]})
    BY <1>5 DEF MapTargets
  <2>2. \A item \in agreed["grade"] : \E twin \in Media(copies["grade"]) :
           Shown(twin) = Shown(item)
    BY <1>5 DEF Mappable, Twins
  <2>3. \A id \in mapped' : \E item \in agreed["grade"] : \E twin \in Media(copies["grade"]) :
           Shown(twin) = Shown(item) /\ twin.id = id
    BY <2>1 DEF Ids, Twins
  <2> QED
    BY <1>2, <1>3, <1>4, <2>2, <2>3 DEF GInv, GradeInv, Found, MapTargets, Media
<1>6. CASE ~Mappable
  <2>1. dressing'["grade"] = "idle"
    BY <1>0, <1>6 DEF MapTargets, Becomes, ShapeInv, Stages
  <2> QED
    BY <1>2, <1>3, <1>4, <2>1 DEF GInv, GradeInv
<1> QED
  BY <1>5, <1>6

\* The bridge grades what was named.
LEMMA GradeKeeps ==
    ASSUME GInv, Grade
    PROVE  GInv'
<1>0. ShapeInv /\ CopiesInv /\ PlanInv /\ GradeInv
  BY DEF GInv
<1>1. /\ \E label : dressing' = [dressing EXCEPT !["grade"] = label]
      /\ replies' = replies \/ replies' = [replies EXCEPT !["grade"] = mapped]
  BY DEF Grade, Becomes, Replies
<1>2. ShapeInv' /\ CopiesInv'
  BY <1>0, <1>1 DEF Grade, WorldKept, ShapeInv, CopiesInv, OwnIds, NoBroll, Media, Shaped, Stages
<1>3. PlanInv'
  BY <1>0, <1>1 DEF Grade, WorldKept, ShapeInv, PlanInv, Stages
<1>4. GradeInv'
  <2>1. accepted'["grade"] = {} /\ dressing["grade"] = "mapped"
    BY <1>0 DEF Grade, PlanInv
  <2>2. Found => Found'
    BY DEF Grade, Found, Media
  <2> QED
    BY <1>0, <2>1, <2>2 DEF Grade, WorldKept, GradeInv
<1> QED
  BY <1>2, <1>3, <1>4 DEF GInv

-----------------------------------------------------------------------------
(* The steps that change a timeline *)

\* A duplicate is as its source is now.
LEMMA CopyKeeps ==
    ASSUME GInv, NEW stage \in Stages, Copy(stage)
    PROVE  GInv'
<1>0. ShapeInv /\ CopiesInv /\ PlanInv /\ GradeInv
  BY DEF GInv
<1>1. dressing' = [dressing EXCEPT ![stage] = "copied"] /\ dressing[stage] = "checked"
  BY DEF Copy, Becomes
<1>2. /\ \A t \in TimelineNames \ {stage} : copies'[t] = copies[t]
      /\ DOMAIN copies' = TimelineNames
      /\ \/ copies'[stage] = copies[stage]
         \/ copies[stage] = {} /\ copies'[stage] = copies[Before[stage]]
  BY <1>0 DEF Copy, CopiesInv, TimelineNames
<1>3. stage \in TimelineNames /\ Before[stage] \in TimelineNames
  BY DEF TimelineNames, Stages, Before
<1>4. stage = "cover" => Before[stage] = "baseline"
  BY DEF Before
<1>5. CopiesInv'
  <2>1. \A t \in TimelineNames : OwnIds(copies'[t]) /\ \A x \in copies'[t] : Shaped(x)
    BY <1>0, <1>2, <1>3 DEF CopiesInv
  <2>2. copies'["baseline"] = copies["baseline"]
    BY <1>2 DEF TimelineNames, Stages
  <2>3. replies' = replies
    BY DEF Copy
  <2>4. CASE stage = "cover"
    BY <1>0, <1>2, <1>4, <2>1, <2>2, <2>3, <2>4 DEF CopiesInv, OwnIds, NoBroll, Media, Shaped
  <2>5. CASE stage # "cover"
    <3>1. copies'["cover"] = copies["cover"]
      BY <1>2, <2>5 DEF TimelineNames, Stages
    <3> QED
      BY <1>0, <1>2, <2>1, <2>2, <2>3, <3>1 DEF CopiesInv, OwnIds, NoBroll, Media, Shaped
  <2> QED
    BY <2>4, <2>5
<1>6. ShapeInv' /\ PlanInv'
  BY <1>0, <1>1 DEF Copy, WorldKept, ShapeInv, PlanInv, Stages
<1>7. GradeInv'
  <2>1. CASE stage = "grade"
    BY <1>0, <1>1, <2>1 DEF Copy, PlanInv, ShapeInv, GradeInv
  <2>2. CASE stage # "grade"
    <3>1. copies'["grade"] = copies["grade"] /\ dressing'["grade"] = dressing["grade"]
      BY <1>0, <1>1, <1>2, <2>2 DEF TimelineNames, Stages, ShapeInv
    <3> QED
      BY <1>0, <3>1 DEF Copy, WorldKept, GradeInv, WholeFilm, Found, Media
  <2> QED
    BY <2>1, <2>2
<1> QED
  BY <1>5, <1>6, <1>7 DEF GInv

\* B-roll comes under ids of its own, once.
LEMMA InsertCoverKeeps ==
    ASSUME GInv, InsertCover
    PROVE  GInv'
<1>0. ShapeInv /\ CopiesInv /\ PlanInv /\ GradeInv
  BY DEF GInv
<1>1. dressing' = [dressing EXCEPT !["cover"] = "changed"] /\ dressing["cover"] = "copied"
  BY DEF InsertCover, Becomes
<1>2. ShapeInv' /\ PlanInv'
  <2>1. replies' = replies \/ \E items : replies' = [replies EXCEPT !["cover"] = items]
    BY DEF InsertCover, Replies
  <2> QED
    BY <1>0, <1>1, <2>1 DEF InsertCover, WorldKept, ShapeInv, PlanInv, Stages
<1>3. CopiesInv' /\ copies'["grade"] = copies["grade"]
  <2>1. CASE replies["cover"] # {}
    BY <1>0, <2>1 DEF InsertCover, CopiesInv, OwnIds, NoBroll, Media, Shaped
  <2>2. CASE replies["cover"] = {}
    <3> DEFINE wish == agreed["cover"].wish
    <3>1. PICK lengths :
             /\ copies' = [copies EXCEPT !["cover"] = @ \cup Inserted(wish, lengths)]
             /\ replies' = [replies EXCEPT !["cover"] = Inserted(wish, lengths)]
      BY <2>2 DEF InsertCover, Replies
    <3>2. /\ wish # <<>> /\ wish \in Seq([start: Nat, end: Nat, at: Nat, track: Nat])
      BY <1>0, <1>1, DressAssumption DEF PlanInv
    <3>3. /\ OwnIds(copies["cover"]) /\ NoBroll(copies["cover"])
          /\ \A x \in copies["cover"] : Shaped(x)
      BY <1>0, <2>2 DEF CopiesInv, TimelineNames, Stages
    <3>4. /\ Inserted(wish, lengths) # {}
          /\ OwnIds(copies["cover"] \cup Inserted(wish, lengths))
          /\ \A x \in copies["cover"] \cup Inserted(wish, lengths) : Shaped(x)
      BY <3>2, <3>3, InsertedItems
    <3>5. /\ copies'["cover"] = copies["cover"] \cup Inserted(wish, lengths)
          /\ \A t \in TimelineNames \ {"cover"} : copies'[t] = copies[t]
          /\ DOMAIN copies' = TimelineNames
          /\ replies'["cover"] = Inserted(wish, lengths)
      BY <1>0, <3>1 DEF CopiesInv, ShapeInv, TimelineNames, Stages
    <3>6. \A t \in TimelineNames : OwnIds(copies'[t]) /\ \A x \in copies'[t] : Shaped(x)
      BY <1>0, <3>4, <3>5 DEF CopiesInv
    <3>7. copies'["baseline"] = copies["baseline"] /\ copies'["grade"] = copies["grade"]
      BY <3>5 DEF TimelineNames, Stages
    <3>8. copies'["cover"] # {} /\ replies'["cover"] # {}
      BY <3>4, <3>5
    <3> QED
      BY <1>0, <3>5, <3>6, <3>7, <3>8 DEF CopiesInv, OwnIds, NoBroll, Media, Shaped
  <2> QED
    BY <2>1, <2>2
<1>4. GradeInv'
  <2>1. dressing'["grade"] = dressing["grade"]
    BY <1>0, <1>1 DEF ShapeInv, Stages
  <2> QED
    BY <1>0, <1>3, <2>1 DEF InsertCover, WorldKept, GradeInv, WholeFilm, Found, Media
<1> QED
  BY <1>2, <1>3, <1>4 DEF GInv

\* An animation is no media item.
LEMMA InsertTitleKeeps ==
    ASSUME GInv, InsertTitle
    PROVE  GInv'
<1>0. ShapeInv /\ CopiesInv /\ PlanInv /\ GradeInv
  BY DEF GInv
<1>1. dressing["title"] = "copied" /\ \E label : dressing' = [dressing EXCEPT !["title"] = label]
  BY DEF InsertTitle, Becomes
<1>2. ShapeInv' /\ PlanInv'
  <2>1. replies' = replies \/ \E items : replies' = [replies EXCEPT !["title"] = items]
    BY DEF InsertTitle, Replies
  <2> QED
    BY <1>0, <1>1, <2>1 DEF InsertTitle, WorldKept, ShapeInv, PlanInv, Stages
<1>3. CopiesInv' /\ copies'["grade"] = copies["grade"]
  <2>1. CASE UNCHANGED <<copies, replies>>
    BY <1>0, <2>1 DEF CopiesInv, OwnIds, NoBroll, Media, Shaped
  <2>2. CASE ~UNCHANGED <<copies, replies>>
    <3> DEFINE at == agreed["title"].at
    <3> DEFINE item == Item(<<"animation", 1>>, 1, at, at + 2, 0, FALSE)
    <3>1. /\ copies' = [copies EXCEPT !["title"] = @ \cup {item}]
          /\ replies' = [replies EXCEPT !["title"] = {item}]
      BY <2>2 DEF InsertTitle, Replies
    <3>2. Shaped(item) /\ item.media = FALSE
      BY DEF Shaped, Item
    <3>3. /\ copies'["title"] = copies["title"] \cup {item}
          /\ \A t \in TimelineNames \ {"title"} : copies'[t] = copies[t]
          /\ DOMAIN copies' = TimelineNames
          /\ replies'["cover"] = replies["cover"]
      BY <1>0, <3>1 DEF CopiesInv, ShapeInv, TimelineNames, Stages
    <3> HIDE DEF item
    <3>4. Media(copies["title"] \cup {item}) = Media(copies["title"])
      BY <3>2 DEF Media
    <3>5. \A t \in TimelineNames : OwnIds(copies'[t]) /\ \A x \in copies'[t] : Shaped(x)
      BY <1>0, <3>2, <3>3, <3>4 DEF CopiesInv, OwnIds
    <3>6. /\ copies'["baseline"] = copies["baseline"] /\ copies'["cover"] = copies["cover"]
          /\ copies'["grade"] = copies["grade"]
      BY <3>3 DEF TimelineNames, Stages
    <3> QED
      BY <1>0, <3>3, <3>5, <3>6 DEF CopiesInv, OwnIds, NoBroll, Media, Shaped
  <2> QED
    BY <2>1, <2>2
<1>4. GradeInv'
  <2>1. dressing'["grade"] = dressing["grade"]
    BY <1>0, <1>1 DEF ShapeInv, Stages
  <2> QED
    BY <1>0, <1>3, <2>1 DEF InsertTitle, WorldKept, GradeInv, WholeFilm, Found, Media
<1> QED
  BY <1>2, <1>3, <1>4 DEF GInv

\* What the readback accepts is on the whole film: each media item has the id of a
\* twin, which it then is.
LEMMA AcceptKeeps ==
    ASSUME GInv, NEW stage \in Stages, Accept(stage)
    PROVE  GInv'
<1>0. ShapeInv /\ CopiesInv /\ PlanInv /\ GradeInv
  BY DEF GInv
<1>1. /\ dressing[stage] = "changed" /\ dressing' = [dressing EXCEPT ![stage] = "idle"]
      /\ accepted' = accepted \/ \E items : accepted' = [accepted EXCEPT ![stage] = items]
  BY DEF Accept, Becomes
<1>2. ShapeInv' /\ CopiesInv'
  BY <1>0, <1>1 DEF Accept, WorldKept, ShapeInv, CopiesInv, OwnIds, NoBroll, Media, Shaped, Stages
<1>3. /\ stage = "title" => accepted["title"] = {} /\ agreed["grade"] = Nothing
      /\ stage = "grade" => accepted["grade"] = {} /\ accepted["title"] # {}
      /\ stage = "title" => dressing["grade"] = "idle" /\ accepted["grade"] = {}
  BY <1>0, <1>1 DEF PlanInv
<1>4. PlanInv'
  BY <1>0, <1>1, <1>3 DEF Accept, WorldKept, ShapeInv, PlanInv, Stages
<1>5. GradeInv'
  <2>1. CASE stage = "cover"
    BY <1>0, <1>1, <2>1 DEF Accept, WorldKept, ShapeInv, GradeInv, WholeFilm, Found, Stages
  <2>2. CASE stage = "title"
    BY <1>0, <1>1, <1>3, <2>2 DEF ShapeInv, GradeInv, Stages
  <2>3. CASE stage = "grade"
    <3>1. dressing'["grade"] = "idle"
      BY <1>0, <1>1, <2>3 DEF ShapeInv, Stages
    <3> SUFFICES ASSUME "grade" \notin touched', accepted'["grade"] # {}
                 PROVE  WholeFilm'
      BY <3>1 DEF GradeInv
    <3>2. Found /\ ReadBackHolds("grade")
      BY <1>0, <1>1, <1>3, <2>3 DEF Accept, WorldKept, GradeInv
    <3>3. mapped = Ids(Media(copies["grade"])) /\ mapped \subseteq graded
      BY <3>2 DEF ReadBackHolds, GradeReadBack
    <3>4. accepted'["title"] = accepted["title"] /\ agreed["grade"] = Media(accepted["title"])
      BY <1>0, <1>1, <1>3, <2>3 DEF ShapeInv, PlanInv, Stages
    <3>5. OwnIds(copies["grade"])
      BY <1>0 DEF CopiesInv, TimelineNames, Stages
    <3>6. ASSUME NEW x \in Media(copies["grade"])
          PROVE  x.id \in graded /\ \E y \in Media(accepted["title"]) : Shown(x) = Shown(y)
      <4>1. x.id \in mapped
        BY <3>3 DEF Ids
      <4>2. PICK item \in agreed["grade"] : \E twin \in Media(copies["grade"]) :
               Shown(twin) = Shown(item) /\ twin.id = x.id
        BY <3>2, <4>1 DEF Found
      <4> QED
        BY <3>3, <3>4, <3>5, <4>1, <4>2 DEF OwnIds
    <3>7. \A y \in Media(accepted["title"]) : \E x \in Media(copies["grade"]) :
             Shown(x) = Shown(y)
      BY <3>2, <3>4 DEF Found
    <3> QED
      BY <3>4, <3>6, <3>7 DEF Accept, WholeFilm, Media
  <2> QED
    BY <2>1, <2>2, <2>3 DEF Stages
<1> QED
  BY <1>2, <1>4, <1>5 DEF GInv

-----------------------------------------------------------------------------
(* The user *)

\* An edit of the duplicate counts once its items are named, or reported.
LEMMA TrimItemKeeps ==
    ASSUME GInv, NEW t \in DOMAIN copies, TrimItem(t)
    PROVE  GInv'
<1>0. ShapeInv /\ CopiesInv /\ PlanInv /\ GradeInv
  BY DEF GInv
<1>1. t \in TimelineNames
  BY <1>0 DEF CopiesInv
<1>2. PICK item \in copies[t] : \E after :
         /\ copies' = [copies EXCEPT ![t] = after] /\ after # {}
         /\ \/ \E y \in {Moved(item, 1), [item EXCEPT !.source = @ + 1]} :
                  after = (copies[t] \ {item}) \cup {y}
            \/ after = copies[t] \ {item}
  BY DEF TrimItem
<1>3. PICK after :
         /\ copies' = [copies EXCEPT ![t] = after] /\ after # {}
         /\ \/ \E y \in {Moved(item, 1), [item EXCEPT !.source = @ + 1]} :
                  after = (copies[t] \ {item}) \cup {y}
            \/ after = copies[t] \ {item}
  BY <1>2
<1>4. /\ OwnIds(after) /\ \A x \in after : Shaped(x)
      /\ NoBroll(copies[t]) => NoBroll(after)
  <2>1. OwnIds(copies[t]) /\ \A x \in copies[t] : Shaped(x)
    BY <1>0, <1>1 DEF CopiesInv
  <2>2. item \in copies[t]
    BY <1>2
  <2>3. CASE \E y \in {Moved(item, 1), [item EXCEPT !.source = @ + 1]} :
                after = (copies[t] \ {item}) \cup {y}
    BY <2>1, <2>2, <2>3, Trimmed
  <2>4. CASE after = copies[t] \ {item}
    BY <2>1, <2>2, <2>4, Trimmed
  <2> QED
    BY <1>3, <2>3, <2>4
<1>5. /\ copies'[t] = after /\ DOMAIN copies' = TimelineNames
      /\ \A other \in TimelineNames \ {t} : copies'[other] = copies[other]
  BY <1>0, <1>1, <1>3 DEF CopiesInv
<1>6. CopiesInv'
  <2>1. \A other \in TimelineNames : OwnIds(copies'[other]) /\ \A x \in copies'[other] : Shaped(x)
    BY <1>0, <1>4, <1>5 DEF CopiesInv
  <2>2. /\ NoBroll(copies["baseline"]) => NoBroll(copies'["baseline"])
        /\ NoBroll(copies["cover"]) => NoBroll(copies'["cover"])
        /\ copies["cover"] # {} => copies'["cover"] # {}
    BY <1>3, <1>4, <1>5 DEF TimelineNames, Stages
  <2>3. replies' = replies
    BY DEF TrimItem
  <2> QED
    BY <1>0, <1>5, <2>1, <2>2, <2>3 DEF CopiesInv, OwnIds, NoBroll, Media, Shaped
<1>7. ShapeInv' /\ PlanInv'
  BY <1>0 DEF TrimItem, ShapeInv, PlanInv, Media
<1>8. GradeInv'
  <2>1. CASE t = "grade"
    BY <1>0, <2>1 DEF TrimItem, Disturbed, GradeInv
  <2>2. CASE t # "grade"
    <3>1. copies'["grade"] = copies["grade"]
      BY <1>5, <2>2 DEF TimelineNames, Stages
    <3> QED
      BY <1>0, <3>1 DEF TrimItem, GradeInv, WholeFilm, Found, Media
  <2> QED
    BY <2>1, <2>2
<1> QED
  BY <1>6, <1>7, <1>8 DEF GInv

\* Another file leaves the timelines as they are.
LEMMA ReplaceAssetKeeps ==
    ASSUME GInv, ReplaceAsset
    PROVE  GInv'
<1>0. ShapeInv /\ CopiesInv /\ PlanInv /\ GradeInv
  BY DEF GInv
<1>1. ShapeInv' /\ CopiesInv' /\ PlanInv'
  BY <1>0 DEF ReplaceAsset, ShapeInv, CopiesInv, PlanInv, OwnIds, NoBroll, Media, Shaped
<1>2. GradeInv'
  BY <1>0 DEF ReplaceAsset, GradeInv, WholeFilm, Found, Media
<1> QED
  BY <1>1, <1>2 DEF GInv

\* So does the work at another desk.
LEMMA StandsStill ==
    ASSUME GInv, UNCHANGED dressVars
    PROVE  GInv'
  BY DEF GInv, dressVars, ShapeInv, CopiesInv, PlanInv, GradeInv, WholeFilm, Found, OwnIds,
      NoBroll, Media, Shaped

-----------------------------------------------------------------------------

\* The baseline has ids of its own, none of them of what is to come.
LEMMA BeginsWell ==
    ASSUME DressInit
    PROVE  GInv
<1>1. /\ DOMAIN copies = TimelineNames /\ copies["baseline"] = Baseline
      /\ \A t \in TimelineNames \ {"baseline"} : copies[t] = {}
  BY DEF DressInit, TimelineNames
<1>2. \A item \in FinalItems : Shaped(Moved(item, lead)) /\ Moved(item, lead).id = item.id
  <2>1. SUFFICES ASSUME NEW item \in FinalItems
                 PROVE  Shaped(Moved(item, lead)) /\ Moved(item, lead).id = item.id
    OBVIOUS
  <2>2. item \in Clips
    BY DressAssumption
  <2>3. Shaped(item)
    BY <2>2 DEF Clips, Shaped, Item
  <2> QED
    BY <2>3, SameItem
<1>3. OwnIds(Baseline) /\ NoBroll(Baseline) /\ \A x \in Baseline : Shaped(x)
  BY <1>2, DressAssumption DEF Baseline, OwnIds, NoBroll, Media
<1>4. CopiesInv
  <2>1. \A t \in TimelineNames : OwnIds(copies[t]) /\ \A x \in copies[t] : Shaped(x)
    BY <1>1, <1>3 DEF OwnIds, Media
  <2>2. replies["cover"] = {} /\ copies["cover"] = {}
    BY <1>1 DEF DressInit, TimelineNames, Stages
  <2> QED
    BY <1>1, <1>3, <2>1, <2>2 DEF CopiesInv, NoBroll, Media
<1>5. ShapeInv /\ PlanInv /\ GradeInv
  BY DEF DressInit, ShapeInv, PlanInv, GradeInv, Stages
<1> QED
  BY <1>4, <1>5 DEF GInv

\* Every step, of whichever call, keeps the invariant.
LEMMA DressingKeeps ==
    ASSUME GInv, DressNext \/ UNCHANGED dressVars
    PROVE  GInv'
<1>1. CASE DressNext
  <2>1. CASE \E stage \in Stages :
                \/ Agree(stage) \/ Dress(stage) \/ Copy(stage) \/ Accept(stage)
                \/ GiveUpDressing(stage)
    BY <2>1, AgreeKeeps, DressKeeps, CopyKeeps, AcceptKeeps, GiveUpKeeps
  <2>2. CASE InsertCover \/ InsertTitle \/ MapTargets \/ Grade
    BY <2>2, InsertCoverKeeps, InsertTitleKeeps, MapTargetsKeeps, GradeKeeps
  <2>3. CASE (\E t \in DOMAIN copies : TrimItem(t)) \/ ReplaceAsset
    BY <2>3, TrimItemKeeps, ReplaceAssetKeeps
  <2> QED
    BY <1>1, <2>1, <2>2, <2>3 DEF DressNext
<1>2. CASE UNCHANGED dressVars
  BY <1>2, StandsStill
<1> QED
  BY <1>1, <1>2

\* The invariant holds in every reachable state.
THEOREM DressingInvariant == Spec => []GInv
<1>1. Init => GInv
  BY BeginsWell DEF Init, DressRests
<1>2. GInv /\ [Next]_vars => GInv'
  BY DressingKeeps DEF Next, vars
<1> QED
  BY <1>1, <1>2, PTL DEF Spec

\* GradeIsWhole follows from it.
LEMMA WholeFilmIsGraded ==
    ASSUME GInv
    PROVE  GradeIsWhole
<1> SUFFICES ASSUME accepted["grade"] # {}, "grade" \notin touched
             PROVE  /\ {Shown(item) : item \in Media(copies["grade"])} =
                          {Shown(item) : item \in Media(accepted["title"])}
                    /\ Ids(Media(copies["grade"])) \subseteq graded
  BY DEF GradeIsWhole
<1>1. WholeFilm
  BY DEF GInv, GradeInv
<1> QED
  BY <1>1 DEF WholeFilm, Ids

\* A treatment that is reported applied is on every media item, and these show what
\* those show that the animation was accepted with (color_workflow.py), for any
\* items, wishes and rates.
THEOREM GradeIsWholeHolds == Spec => []GradeIsWhole
  BY WholeFilmIsGraded, DressingInvariant, PTL

-----------------------------------------------------------------------------
(* The frames of B-roll *)

\* From the last preview on, the file has what the plan asks for.
AssetInv ==
    "cover" \notin touched /\ (dressing["cover"] # "idle" \/ replies["cover"] # {}) =>
        \A i \in DOMAIN agreed["cover"].wish : agreed["cover"].wish[i].end < asset.frames

\* Only a call that compared its plan brings B-roll onto a timeline.
LEMMA AssetKeeps ==
    ASSUME GInv, AssetInv, DressNext
    PROVE  AssetInv'
<1>0. ShapeInv /\ CopiesInv /\ PlanInv
  BY DEF GInv
<1>1. ASSUME NEW stage \in Stages, Agree(stage)
      PROVE  AssetInv'
  <2>1. CASE stage = "cover"
    <3>1. dressing["cover"] = "idle" /\ replies["cover"] = {}
      BY <1>0, <1>1, <2>1 DEF Agree, CopiesInv
    <3> QED
      BY <1>1, <3>1 DEF Agree, AssetInv
  <2>2. CASE stage # "cover"
    <3>1. agreed'["cover"] = agreed["cover"]
      BY <1>0, <1>1, <2>2 DEF Agree, ShapeInv, Stages
    <3> QED
      BY <1>1, <3>1 DEF Agree, WorldKept, AssetInv
  <2> QED
    BY <2>1, <2>2
<1>2. ASSUME NEW stage \in Stages, Dress(stage)
      PROVE  AssetInv'
  <2>1. CASE stage = "cover"
    <3>1. agreed["cover"] \in CoverPlans
      BY <1>2, <2>1 DEF Dress, StillAgreed, Plans
    <3>2. PICK wish \in Wishes : agreed["cover"].wish = wish /\ Placeable(wish, copies["baseline"])
      BY <3>1 DEF CoverPlans
    <3>3. \A i \in DOMAIN wish : wish[i].end < asset.frames
      BY <3>2 DEF Placeable
    <3> QED
      BY <1>2, <3>2, <3>3 DEF Dress, WorldKept, AssetInv
  <2>2. CASE stage # "cover"
    <3>1. dressing'["cover"] = dressing["cover"]
      BY <1>0, <1>2, <2>2 DEF Dress, Becomes, ShapeInv, Stages
    <3> QED
      BY <1>2, <3>1 DEF Dress, WorldKept, AssetInv
  <2> QED
    BY <2>1, <2>2
<1>3. ASSUME UNCHANGED <<agreed, asset, touched>>,
             \/ dressing["cover"] # "idle"
             \/ dressing'["cover"] = "idle" /\ replies'["cover"] = replies["cover"]
      PROVE  AssetInv'
  BY <1>3 DEF AssetInv
<1>4. ASSUME NEW stage \in Stages,
             Copy(stage) \/ Accept(stage) \/ GiveUpDressing(stage)
      PROVE  AssetInv'
  <2>1. /\ dressing[stage] # "idle" /\ replies' = replies
        /\ \E label : dressing' = [dressing EXCEPT ![stage] = label]
    BY <1>4 DEF Copy, Accept, GiveUpDressing, Becomes
  <2>2. dressing["cover"] # "idle" \/ dressing'["cover"] = "idle"
    BY <1>0, <2>1 DEF ShapeInv, Stages
  <2> QED
    BY <1>3, <1>4, <2>1, <2>2 DEF Copy, Accept, GiveUpDressing, WorldKept
<1>5. CASE InsertCover
  BY <1>3, <1>5 DEF InsertCover, WorldKept
<1>6. CASE InsertTitle \/ MapTargets \/ Grade
  <2>1. \E stage \in {"title", "grade"} :
           /\ \E label : dressing' = [dressing EXCEPT ![stage] = label]
           /\ replies' = replies \/ \E items : replies' = [replies EXCEPT ![stage] = items]
    BY <1>6 DEF InsertTitle, MapTargets, Grade, Becomes, Replies
  <2>2. dressing'["cover"] = dressing["cover"] /\ replies'["cover"] = replies["cover"]
    BY <1>0, <2>1 DEF ShapeInv, Stages
  <2> QED
    BY <1>3, <1>6, <2>2 DEF InsertTitle, MapTargets, Grade, WorldKept
<1>7. ASSUME NEW t \in DOMAIN copies, TrimItem(t)
      PROVE  AssetInv'
  BY <1>7 DEF TrimItem, AssetInv
<1>8. CASE ReplaceAsset
  BY <1>8 DEF ReplaceAsset, AssetInv
<1> QED
  BY <1>1, <1>2, <1>4, <1>5, <1>6, <1>7, <1>8 DEF DressNext

\* No B-roll is asked for beyond the end of its file, unless the user replaced the
\* file after the last preview (broll.py), for any files and wishes.
THEOREM CoverFramesExistHolds == Spec => []CoverFramesExist
<1>1. Init => AssetInv
  BY DEF Init, DressRests, DressInit, AssetInv, Stages
<1>2. GInv /\ AssetInv /\ [Next]_vars => AssetInv'
  <2>1. ASSUME AssetInv, UNCHANGED dressVars PROVE AssetInv'
    BY <2>1 DEF dressVars, AssetInv
  <2> QED
    BY <2>1, AssetKeeps DEF Next, vars
<1>3. AssetInv => CoverFramesExist
  BY DEF AssetInv, CoverFramesExist
<1> QED
  BY <1>1, <1>2, <1>3, DressingInvariant, PTL DEF Spec

-----------------------------------------------------------------------------
(* Least and greatest *)

\* A set of naturals has a least one.
LEMMA Least ==
    ASSUME NEW S \in SUBSET Nat, S # {}
    PROVE  \E n \in S : \A m \in S : n <= m
<1>1. PICK n \in S : \A m \in S : ~(<<m, n>> \in OpToRel(<, Nat))
  <2> DEFINE R == OpToRel(<, Nat)
  <2>1. IsWellFoundedOn(R, Nat)
    BY NatLessThanWellFounded
  <2> HIDE DEF R
  <2>2. \E n \in S : \A m \in S : ~(<<m, n>> \in R)
    BY <2>1, WFMin, Zenon
  <2> QED
    BY <2>2 DEF R
<1>2. SUFFICES ASSUME NEW m \in S, m < n
               PROVE  FALSE
  OBVIOUS
<1>3. m \in Nat /\ n \in Nat
  OBVIOUS
<1>4. <<m, n>> \in OpToRel(<, Nat)
  BY <1>2, <1>3 DEF OpToRel
<1> QED
  BY <1>1, <1>4

\* A family of parts of a finite set has one with no other inside.
LEMMA Minimal ==
    ASSUME NEW S, IsFiniteSet(S)
    PROVE  \A F \in SUBSET SUBSET S :
              F # {} => \E A \in F : \A B \in F : B \subseteq A => B = A
<1> SUFFICES ASSUME NEW F \in SUBSET SUBSET S, F # {}
             PROVE  \E A \in F : \A B \in F : B \subseteq A => B = A
  OBVIOUS
<1>1. IsWellFoundedOn(StrictSubsetOrdering(S), SUBSET S)
  BY FS_StrictSubsetOrderingWellFounded, FS_FiniteSubsetsOfFinite
<1>2. PICK A \in F : \A B \in F : ~(<<B, A>> \in StrictSubsetOrdering(S))
  BY <1>1, WFMin, Zenon
<1>3. A \in SUBSET S /\ \A B \in F : B \in SUBSET S
  OBVIOUS
<1> QED
  BY <1>2, <1>3 DEF StrictSubsetOrdering

\* A finite set of integers has a greatest one.
LEMMA Greatest ==
    ASSUME NEW S, IsFiniteSet(S), S # {}, \A x \in S : x \in Int
    PROVE  Max(S) \in S /\ \A y \in S : y <= Max(S)
<1> DEFINE From(x) == {y \in S : x <= y}
           F == {From(x) : x \in S}
<1>1. F \in SUBSET SUBSET S /\ F # {}
  OBVIOUS
<1>2. PICK A \in F : \A B \in F : B \subseteq A => B = A
  <2> HIDE DEF F
  <2>1. \A G \in SUBSET SUBSET S :
           G # {} => \E A \in G : \A B \in G : B \subseteq A => B = A
    BY Minimal
  <2> QED
    BY <1>1, <2>1, Zenon
<1>3. PICK x \in S : A = From(x)
  OBVIOUS
<1>4. ASSUME NEW y \in S
      PROVE  y <= x
  <2>1. SUFFICES ASSUME x < y PROVE FALSE
    OBVIOUS
  <2>2. x \in Int /\ y \in Int
    OBVIOUS
  <2>3. From(y) \in F
    OBVIOUS
  <2>4. From(y) \subseteq From(x)
    <3>1. \A z \in S : z \in Int
      OBVIOUS
    <3>2. \A z \in S : y <= z => x <= z
      BY <2>1, <2>2, <3>1
    <3> QED
      BY <3>2
  <2>5. x \in From(x) /\ x \notin From(y)
    BY <2>1, <2>2
  <2> QED
    BY <1>2, <1>3, <2>3, <2>4, <2>5
<1> QED
  BY <1>4 DEF Max

-----------------------------------------------------------------------------
(* Sums *)

\* A sum is the one before and one length more.
LEMMA SumsAre ==
    ASSUME NEW s \in Seq(Int)
    PROVE  /\ Sums(s) \in [0 .. Len(s) -> Int] /\ Sums(s)[0] = 0
           /\ \A n \in DOMAIN s : Sums(s)[n] = Sums(s)[n - 1] + s[n]
<1> DEFINE m == Len(s)
           Adds(g, k) ==
               /\ g \in [0 .. k -> Int] /\ g[0] = 0
               /\ \A n \in 1 .. k : g[n] = g[n - 1] + s[n]
           Bad == {k \in Nat : k <= m /\ ~\E g : Adds(g, k)}
<1>1. m \in Nat /\ DOMAIN s = 1 .. m /\ \A n \in 1 .. m : s[n] \in Int
  OBVIOUS
<1> HIDE DEF m
<1>2. Bad = {}
  <2> SUFFICES ASSUME Bad # {} PROVE FALSE
    OBVIOUS
  <2>1. PICK k \in Bad : \A j \in Bad : k <= j
    <3>1. Bad \in SUBSET Nat
      OBVIOUS
    <3> HIDE DEF Bad
    <3> QED
      BY <3>1, Least
  <2>2. k \in Nat /\ k <= m
    OBVIOUS
  <2>3. CASE k = 0
    <3>1. Adds([n \in 0 .. 0 |-> 0], 0)
      OBVIOUS
    <3> HIDE DEF Adds
    <3> QED
      BY <2>3, <3>1
  <2>4. CASE k # 0
    <3>1. k - 1 \in Nat /\ k - 1 <= m /\ ~(k <= k - 1)
      BY <1>1, <2>2, <2>4
    <3>2. PICK g : Adds(g, k - 1)
      <4> HIDE DEF Adds
      <4> QED
        BY <2>1, <3>1
    <3> DEFINE h == [n \in 0 .. k |-> IF n = k THEN g[k - 1] + s[k] ELSE g[n]]
    <3>3. h \in [0 .. k -> Int]
      <4>1. SUFFICES ASSUME NEW n \in 0 .. k
                     PROVE  (IF n = k THEN g[k - 1] + s[k] ELSE g[n]) \in Int
        OBVIOUS
      <4>2. s[k] \in Int /\ g[k - 1] \in Int
        BY <1>1, <2>2, <2>4, <3>1, <3>2
      <4>3. n # k => g[n] \in Int
        BY <2>2, <3>2
      <4> QED
        BY <4>2, <4>3
    <3>4. h[0] = 0
      BY <2>2, <2>4, <3>2
    <3>5. ASSUME NEW n \in 1 .. k
          PROVE  h[n] = h[n - 1] + s[n]
      <4>1. n \in Int /\ n - 1 \in 0 .. k /\ n \in 0 .. k /\ n - 1 # k
        BY <2>2
      <4>2. h[n - 1] = g[n - 1]
        BY <4>1
      <4>3. CASE n = k
        BY <4>1, <4>2, <4>3
      <4>4. CASE n # k
        <5>1. n \in 1 .. k - 1
          BY <2>2, <4>4
        <5>2. h[n] = g[n] /\ g[n] = g[n - 1] + s[n]
          BY <3>2, <4>1, <4>4, <5>1
        <5> QED
          BY <4>2, <5>2
      <4> QED
        BY <4>3, <4>4
    <3> HIDE DEF h
    <3>6. Adds(h, k)
      BY <3>3, <3>4, <3>5
    <3> HIDE DEF Adds
    <3> QED
      BY <3>6
  <2> QED
    BY <2>3, <2>4
<1>3. PICK g : Adds(g, m)
  <2>1. m \notin Bad
    BY <1>2
  <2> HIDE DEF Adds
  <2> QED
    BY <1>1, <2>1
<1> DEFINE Is(f) == f = [n \in 0 .. m |-> IF n = 0 THEN 0 ELSE f[n - 1] + s[n]]
<1>4. Is(g)
  <2>1. \A n \in 0 .. m : g[n] = IF n = 0 THEN 0 ELSE g[n - 1] + s[n]
    BY <1>1, <1>3
  <2> QED
    BY <1>3, <2>1
<1>5. Sums(s) = CHOOSE f : Is(f)
  BY DEF Sums, m
<1>6. Is(Sums(s))
  <2> HIDE DEF Is
  <2> QED
    BY <1>4, <1>5, Zenon
<1> DEFINE f == Sums(s)
<1>7. DOMAIN f = 0 .. m /\ \A n \in 0 .. m : f[n] = IF n = 0 THEN 0 ELSE f[n - 1] + s[n]
  <2> HIDE DEF f
  <2>1. f = [n \in 0 .. m |-> IF n = 0 THEN 0 ELSE f[n - 1] + s[n]]
    BY <1>6 DEF f
  <2>2. DOMAIN f = 0 .. m
    BY <2>1, Zenon
  <2> DEFINE F(n) == IF n = 0 THEN 0 ELSE f[n - 1] + s[n]
  <2>3. \A n \in 0 .. m : f[n] = F(n)
    <3> HIDE DEF F
    <3>1. f = [n \in 0 .. m |-> F(n)]
      BY <2>1 DEF F
    <3> QED
      BY <3>1, Zenon
  <2> QED
    BY <2>2, <2>3
<1>8. \A n \in 0 .. m : f[n] = g[n]
  <2> HIDE DEF f
  <2> DEFINE Off == {n \in Nat : n <= m /\ f[n] # g[n]}
  <2> SUFFICES ASSUME Off # {} PROVE FALSE
    BY <1>1
  <2>1. PICK n \in Off : \A j \in Off : n <= j
    <3>1. Off \in SUBSET Nat
      OBVIOUS
    <3> HIDE DEF Off
    <3> QED
      BY <3>1, Least
  <2>2. n \in 0 .. m /\ n \in Nat
    BY <1>1
  <2>3. n # 0
    BY <1>3, <1>7, <2>1, <2>2
  <2>4. n - 1 \in Nat /\ n - 1 <= m /\ ~(n <= n - 1) /\ n \in 1 .. m
    BY <1>1, <2>2, <2>3
  <2>5. f[n - 1] = g[n - 1]
    BY <2>1, <2>4
  <2>6. f[n] = f[n - 1] + s[n] /\ g[n] = g[n - 1] + s[n]
    BY <1>3, <1>7, <2>2, <2>3, <2>4
  <2> QED
    BY <2>1, <2>5, <2>6
<1>9. f \in [0 .. m -> Int]
  <2> HIDE DEF f
  <2>1. \A n \in 0 .. m : f[n] \in Int
    BY <1>3, <1>8
  <2>2. f = [n \in 0 .. m |-> f[n]]
    BY <1>6, <1>7 DEF f
  <2> QED
    BY <2>1, <2>2
<1> HIDE DEF Adds
<1>10. f[0] = 0 /\ \A n \in 1 .. m : f[n] = f[n - 1] + s[n]
  <2> HIDE DEF f
  <2> QED
    BY <1>1, <1>7
<1> QED
  BY <1>1, <1>9, <1>10 DEF m

\* Products can be compared by their other factors.
LEMMA TimesCancel ==
    ASSUME NEW c \in Nat \ {0}, NEW a \in Int, NEW b \in Int, c * a <= c * b
    PROVE  a <= b
<1>1. c * (b + 1) = c * b + c /\ c * a \in Int /\ c * b \in Int
  BY TimesInt, SMT
<1>2. c * a < c * (b + 1) /\ b + 1 \in Int
  BY <1>1
<1>3. a < b + 1
  BY <1>2, TimesStrict
<1> QED
  BY <1>3

\* Drifts add up.
LEMMA DriftsAdd ==
    ASSUME NEW a \in Int, NEW b \in Int, NEW c \in Int, -c <= 2 * (a - b), 2 * (a - b) <= c,
           NEW x \in Int, NEW y \in Int, NEW z \in Int, -z <= 2 * (x - y), 2 * (x - y) <= z
    PROVE  /\ -(c + z) <= 2 * ((a + x) - (b + y))
           /\ 2 * ((a + x) - (b + y)) <= c + z
  OBVIOUS

\* If every length is right to within some slack, so is every sum, to within the sum of
\* the slacks.
LEMMA SumsDrift ==
    ASSUME NEW f \in Seq(Int), NEW g \in Seq(Int), NEW h \in Seq(Int),
           Len(f) = Len(g), Len(g) = Len(h), NEW u \in Int, NEW v \in Int,
           \A j \in DOMAIN f :
              -(h[j] * u) <= 2 * (f[j] * u - g[j] * v) /\ 2 * (f[j] * u - g[j] * v) <= h[j] * u
    PROVE  \A n \in 0 .. Len(f) :
              /\ -(Sums(h)[n] * u) <= 2 * (Sums(f)[n] * u - Sums(g)[n] * v)
              /\ 2 * (Sums(f)[n] * u - Sums(g)[n] * v) <= Sums(h)[n] * u
<1> DEFINE m == Len(f)
           F == Sums(f)
           G == Sums(g)
           H == Sums(h)
           Holds(n) == /\ -(H[n] * u) <= 2 * (F[n] * u - G[n] * v)
                       /\ 2 * (F[n] * u - G[n] * v) <= H[n] * u
           Bad == {n \in Nat : n <= m /\ ~Holds(n)}
<1>1. /\ m \in Nat /\ DOMAIN f = 1 .. m /\ DOMAIN g = 1 .. m /\ DOMAIN h = 1 .. m
      /\ \A n \in 1 .. m : f[n] \in Int /\ g[n] \in Int /\ h[n] \in Int
  OBVIOUS
<1>2. /\ F \in [0 .. m -> Int] /\ G \in [0 .. m -> Int] /\ H \in [0 .. m -> Int]
      /\ F[0] = 0 /\ G[0] = 0 /\ H[0] = 0
      /\ \A n \in 1 .. m :
            F[n] = F[n - 1] + f[n] /\ G[n] = G[n - 1] + g[n] /\ H[n] = H[n - 1] + h[n]
  BY <1>1, SumsAre
<1> HIDE DEF m, F, G, H
<1> SUFFICES Bad = {}
  <2>1. \A n \in 0 .. m : n \in Nat /\ n <= m
    BY <1>1
  <2> QED
    BY <2>1 DEF m, F, G, H
<1> SUFFICES ASSUME Bad # {} PROVE FALSE
  OBVIOUS
<1>3. PICK n \in Bad : \A j \in Bad : n <= j
  <2>1. Bad \in SUBSET Nat
    OBVIOUS
  <2> HIDE DEF Bad
  <2> QED
    BY <2>1, Least
<1>4. n # 0
  <2>1. SUFFICES ASSUME n = 0 PROVE Holds(0)
    OBVIOUS
  <2>2. 0 * u = 0 /\ 0 * v = 0
    BY SMT
  <2> QED
    BY <1>2, <2>2
<1>5. n \in 1 .. m /\ n - 1 \in Nat /\ n - 1 <= m /\ ~(n <= n - 1) /\ n - 1 \in 0 .. m
  BY <1>1, <1>4
<1>6. Holds(n - 1)
  <2> HIDE DEF Holds
  <2> QED
    BY <1>3, <1>5
<1> DEFINE a == F[n - 1]
           b == G[n - 1]
           c == H[n - 1]
           x == f[n]
           y == g[n]
           z == h[n]
<1>7. /\ a \in Int /\ b \in Int /\ c \in Int /\ x \in Int /\ y \in Int /\ z \in Int
      /\ F[n] = a + x /\ G[n] = b + y /\ H[n] = c + z
  BY <1>1, <1>2, <1>5
<1>8. /\ -(c * u) <= 2 * (a * u - b * v) /\ 2 * (a * u - b * v) <= c * u
      /\ -(z * u) <= 2 * (x * u - y * v) /\ 2 * (x * u - y * v) <= z * u
  BY <1>1, <1>5, <1>6
<1> HIDE DEF a, b, c, x, y, z
<1>9. /\ (a + x) * u = a * u + x * u /\ (b + y) * v = b * v + y * v
      /\ (c + z) * u = c * u + z * u
  BY <1>7, SMT
<1>10. /\ a * u \in Int /\ x * u \in Int /\ b * v \in Int /\ y * v \in Int
       /\ c * u \in Int /\ z * u \in Int
  BY <1>7, TimesInt
<1>11. /\ -(H[n] * u) <= 2 * (F[n] * u - G[n] * v)
       /\ 2 * (F[n] * u - G[n] * v) <= H[n] * u
  <2>0. /\ -(c * u + z * u) <= 2 * ((a * u + x * u) - (b * v + y * v))
        /\ 2 * ((a * u + x * u) - (b * v + y * v)) <= c * u + z * u
    <3> DEFINE A == a * u
               B == b * v
               C == c * u
               X == x * u
               Y == y * v
               Z == z * u
    <3> HIDE DEF A, B, C, X, Y, Z
    <3>1. /\ A \in Int /\ B \in Int /\ C \in Int /\ -C <= 2 * (A - B) /\ 2 * (A - B) <= C
          /\ X \in Int /\ Y \in Int /\ Z \in Int /\ -Z <= 2 * (X - Y) /\ 2 * (X - Y) <= Z
      BY <1>8, <1>10 DEF A, B, C, X, Y, Z
    <3>2. /\ -(C + Z) <= 2 * ((A + X) - (B + Y))
          /\ 2 * ((A + X) - (B + Y)) <= C + Z
      BY <3>1, DriftsAdd
    <3> QED
      BY <3>2 DEF A, B, C, X, Y, Z
  <2>1. /\ -((c + z) * u) <= 2 * ((a + x) * u - (b + y) * v)
        /\ 2 * ((a + x) * u - (b + y) * v) <= (c + z) * u
    BY <1>9, <2>0
  <2> QED
    BY <1>7, <2>1
<1> QED
  BY <1>3, <1>11

\* What a clip fills differs from its duration by what is rounded: half a frame of the
\* timeline, and a frame of its source.
LEMMA LengthDrift ==
    ASSUME NEW start \in Int, NEW end \in Int, start < end,
           NEW fps \in Nat \ {0}, NEW into \in Nat \ {0},
           ToFrames(start, fps) < ToFrames(end, fps)
    PROVE  LET filled == Refit(ToFrames(end, fps) - ToFrames(start, fps), fps, into)
               length == IF filled < 1 THEN 1 ELSE filled
               slack == 1 + 2 * ((into + fps - 1) \div fps)
           IN  /\ length \in Int /\ slack \in Int
               /\ -(slack * Second) <= 2 * (length * Second - (end - start) * into)
               /\ 2 * (length * Second - (end - start) * into) <= slack * Second
<1> DEFINE A == ToFrames(start, fps)
           E == ToFrames(end, fps)
           n == E - A
           d == end - start
           filled == Refit(n, fps, into)
           length == IF filled < 1 THEN 1 ELSE filled
           c == (into + fps - 1) \div fps
<1>1. Second \in Nat \ {0} /\ fps \in Int /\ into \in Int /\ into \in Nat /\ fps \in Nat
  BY SecondAssumption
<1>2. /\ A \in Int /\ 2 * Second * A <= 2 * (start * fps) + Second
      /\ 2 * (start * fps) + Second < 2 * Second * A + 2 * Second
  BY <1>1, FramesBound
<1>3. /\ E \in Int /\ 2 * Second * E <= 2 * (end * fps) + Second
      /\ 2 * (end * fps) + Second < 2 * Second * E + 2 * Second
  BY <1>1, FramesBound
<1>4. c \in Int /\ fps * c <= into + fps - 1 /\ into + fps - 1 < fps * c + fps
  BY <1>1, Quotient
<1>5. A < E
  OBVIOUS
<1> HIDE DEF A, E, c
<1>6. n \in Int /\ 1 <= n /\ d \in Int /\ 1 <= d
  BY <1>2, <1>3, <1>5
<1>7. /\ filled \in Int
      /\ 2 * fps * filled <= 2 * n * into + fps
      /\ 2 * n * into + fps < 2 * fps * filled + 2 * fps
  <2> DEFINE x == 2 * n * into + fps
             y == 2 * fps
  <2>1. x \in Int /\ y \in Nat \ {0}
    BY <1>1, <1>6, TimesInt
  <2>2. filled = x \div y
    BY DEF Refit
  <2> HIDE DEF x, y, n
  <2>3. x \div y \in Int /\ y * (x \div y) <= x /\ x < y * (x \div y) + y
    BY <2>1, Quotient
  <2> QED
    BY <2>2, <2>3 DEF x, y
<1>8. /\ Second * n <= d * fps + Second /\ d * fps <= Second * n + Second
      /\ d * fps \in Int /\ Second * n \in Int
  <2>1. /\ start * fps \in Int /\ end * fps \in Int /\ Second * A \in Int /\ Second * E \in Int
        /\ 2 * Second * A = 2 * (Second * A) /\ 2 * Second * E = 2 * (Second * E)
        /\ (end - start) * fps = end * fps - start * fps
        /\ Second * (E - A) = Second * E - Second * A
    BY <1>1, <1>2, <1>3, TimesInt, SMT
  <2> QED
    BY <1>1, <1>2, <1>3, <2>1
<1> HIDE DEF n, d, filled
\* The products of three factors.
<1> DEFINE T == into * (d * fps)
           N == into * (Second * n)
           Q == fps * (filled * Second)
           C == fps * (c * Second)
           I == into * Second
<1>9. /\ N <= T + I /\ T <= N + I /\ T \in Int /\ N \in Int /\ I \in Int
  <2>1. /\ into * (Second * n) <= into * (d * fps + Second)
        /\ into * (d * fps) <= into * (Second * n + Second)
    BY <1>1, <1>8, TimesMonotone
  <2>2. /\ into * (d * fps + Second) = T + I /\ into * (Second * n + Second) = N + I
        /\ T \in Int /\ N \in Int /\ I \in Int
    BY <1>1, <1>8, TimesInt, SMT
  <2> QED
    BY <2>1, <2>2
<1>10. /\ 2 * Q <= 2 * N + fps * Second /\ 2 * N <= 2 * Q + fps * Second
       /\ Q \in Int /\ fps * Second \in Int
  <2>1. /\ fps * filled \in Int /\ n * into \in Int
        /\ 2 * fps * filled = 2 * (fps * filled) /\ 2 * n * into = 2 * (n * into)
    BY <1>1, <1>6, <1>7, TimesInt, SMT
  <2>2. /\ 2 * (fps * filled) <= 2 * (n * into) + fps
        /\ 2 * (n * into) + fps <= 2 * (fps * filled) + 2 * fps
    BY <1>1, <1>7, <2>1
  <2>3. /\ Second * (2 * (fps * filled)) <= Second * (2 * (n * into) + fps)
        /\ Second * (2 * (n * into) + fps) <= Second * (2 * (fps * filled) + 2 * fps)
    BY <1>1, <2>1, <2>2, TimesMonotone
  <2>4. /\ Second * (2 * (fps * filled)) = 2 * (Second * (fps * filled))
        /\ Second * (2 * (n * into) + fps) = 2 * (Second * (n * into)) + Second * fps
        /\ Second * (2 * (fps * filled) + 2 * fps)
              = 2 * (Second * (fps * filled)) + 2 * (Second * fps)
    BY <1>1, <2>1, SMT
  <2>5. /\ Second * (fps * filled) = Q /\ Second * (n * into) = N
        /\ Second * fps = fps * Second
    BY <1>1, <1>6, <1>7, SMT
  <2>6. Q \in Int /\ fps * Second \in Int
    BY <1>1, <1>7, TimesInt
  <2> QED
    BY <1>9, <2>3, <2>4, <2>5, <2>6
<1>11. I <= C /\ C \in Int
  <2>1. Second * into <= Second * (fps * c)
    <3>1. into <= fps * c /\ fps * c \in Int
      BY <1>1, <1>4, TimesInt
    <3> QED
      BY <1>1, <3>1, TimesMonotone
  <2>2. Second * into = I /\ Second * (fps * c) = C /\ C \in Int
    BY <1>1, <1>4, TimesInt, SMT
  <2> QED
    BY <2>1, <2>2
<1>12. T = fps * (d * into) /\ d * into \in Int /\ filled * Second \in Int /\ c * Second \in Int
  BY <1>1, <1>4, <1>6, <1>7, TimesInt, SMT
<1>13. 1 <= c /\ 1 <= d * into
  <2>1. 0 < c
    <3>1. fps * 0 < fps * c
      BY <1>1, <1>4, TimesInt
    <3> QED
      BY <1>1, <1>4, <3>1, TimesStrict
  <2>2. into * 1 <= into * d /\ into * 1 = into /\ into * d = d * into
    BY <1>1, <1>6, TimesMonotone, SMT
  <2> QED
    BY <1>1, <1>4, <1>12, <2>1, <2>2
<1> DEFINE x == 2 * (filled * Second - d * into)
           y == Second + 2 * (c * Second)
<1>14. fps * x = 2 * Q - 2 * T /\ fps * y = fps * Second + 2 * C /\ fps * (-y) = -(fps * Second) - 2 * C
  BY <1>1, <1>12, SMT
<1>15. fps * (-y) <= fps * x /\ fps * x <= fps * y
  BY <1>9, <1>10, <1>11, <1>14
<1>16. x \in Int /\ y \in Int /\ -y \in Int
  BY <1>1, <1>12
<1> HIDE DEF x, y
<1>17. -y <= x /\ x <= y
  BY <1>15, <1>16, TimesCancel
<1>18. (1 + 2 * c) * Second = y
  BY <1>1, <1>4, SMT DEF y
<1>19. -y <= 2 * (length * Second - d * into) /\ 2 * (length * Second - d * into) <= y
  <2>1. CASE filled < 1
    <3>1. length = 1 /\ filled <= 0
      BY <1>7, <2>1
    <3>2. filled * Second <= 0
      <4>1. Second * filled <= Second * 0 /\ Second * 0 = 0 /\ Second * filled = filled * Second
        BY <1>1, <1>7, <3>1, TimesMonotone, SMT
      <4> QED
        BY <4>1
    <3>3. Second <= c * Second
      <4>1. Second * 1 <= Second * c /\ Second * 1 = Second /\ Second * c = c * Second
        BY <1>1, <1>4, <1>13, TimesMonotone, SMT
      <4> QED
        BY <4>1
    <3>4. length * Second = Second
      BY <1>1, <3>1
    <3> QED
      BY <1>1, <1>12, <1>13, <1>17, <3>2, <3>3, <3>4 DEF x, y
  <2>2. CASE ~(filled < 1)
    BY <1>17, <2>2 DEF x
  <2> QED
    BY <2>1, <2>2
<1>20. length \in Int /\ 1 + 2 * c \in Int
  BY <1>4, <1>7
<1> HIDE DEF y
<1>21. /\ -((1 + 2 * c) * Second) <= 2 * (length * Second - d * into)
       /\ 2 * (length * Second - d * into) <= (1 + 2 * c) * Second
  BY <1>18, <1>19
<1> QED
  BY <1>20, <1>21 DEF filled, n, A, E, d, c

-----------------------------------------------------------------------------
(* Cuts *)

Cut == [start: Int, end: Int]

\* Cuts that follow each other are apart, however many are in between.
LEMMA CutsApart ==
    ASSUME NEW cuts \in Seq(Cut), NEW duration \in Int, CutsValid(cuts, duration),
           NEW a \in DOMAIN cuts, NEW b \in DOMAIN cuts, a < b
    PROVE  cuts[a].end <= cuts[b].start
<1>1. \A i \in DOMAIN cuts : cuts[i].start \in Int /\ cuts[i].end \in Int
  <2>1. SUFFICES ASSUME NEW i \in DOMAIN cuts
                 PROVE  cuts[i].start \in Int /\ cuts[i].end \in Int
    OBVIOUS
  <2>2. cuts[i] \in Cut
    OBVIOUS
  <2> QED
    BY <2>2 DEF Cut
<1>2. \A i \in DOMAIN cuts : i \in Nat /\ i >= 1 /\ i <= Len(cuts)
  OBVIOUS
<1>3. \A i \in Nat : i >= 1 /\ i <= Len(cuts) => i \in DOMAIN cuts
  OBVIOUS
<1> DEFINE Bad == {i \in Nat : i > a /\ i <= Len(cuts) /\ ~(cuts[a].end <= cuts[i].start)}
<1>4. SUFFICES Bad = {}
  BY <1>2
<1>5. SUFFICES ASSUME Bad # {} PROVE FALSE
  OBVIOUS
<1>6. PICK n \in Bad : \A m \in Bad : n <= m
  <2>1. Bad \in SUBSET Nat
    OBVIOUS
  <2> HIDE DEF Bad
  <2> QED
    BY <1>5, <2>1, Least
<1>7. n \in DOMAIN cuts /\ n - 1 \in DOMAIN cuts /\ n - 1 \in Nat /\ n # 1 /\ n - 1 >= a
  BY <1>2, <1>3
<1>8. n - 1 \notin Bad
  BY <1>6, <1>7
<1>9. cuts[n].start >= cuts[n - 1].end
  BY <1>7 DEF CutsValid
<1>10. CASE n - 1 = a
  BY <1>1, <1>7, <1>9, <1>10
<1>11. CASE n - 1 # a
  <2>1. cuts[a].end <= cuts[n - 1].start
    BY <1>2, <1>7, <1>8, <1>11
  <2>2. cuts[n - 1].start < cuts[n - 1].end
    BY <1>7 DEF CutsValid
  <2> QED
    BY <1>1, <1>7, <1>9, <2>1, <2>2
<1> QED
  BY <1>10, <1>11

-----------------------------------------------------------------------------
(* What a plan keeps *)

Footage == [screen: Recordings, webcam: Recordings]

\* A recording has frames and a rate.
LEMMA Recorded ==
    ASSUME NEW media \in Footage, NEW name \in {"screen", "webcam"}
    PROVE  /\ media[name] \in Recordings
           /\ media[name].frames \in Nat /\ media[name].rate \in Nat \ {0}
           /\ Length(media[name]) \in Int
<1>1. media[name] \in Recordings
  BY DEF Footage
<1>2. media[name].frames \in Nat /\ media[name].rate \in Nat \ {0}
  BY <1>1, CutAssumption
<1>3. Length(media[name]) \in Int
  <2> DEFINE f == media[name].frames
             fps == media[name].rate
  <2>1. f \in Int /\ fps \in Nat \ {0}
    BY <1>2
  <2> HIDE DEF f, fps
  <2>2. ToTicks(f, fps) \in Int
    BY <2>1, TicksBound
  <2> QED
    BY <2>2 DEF Length, f, fps
<1> QED
  BY <1>1, <1>2, <1>3

\* Offsets and lengths are integers.
LEMMA StartType ==
    ASSUME NEW offset \in Int, NEW name
    PROVE  StartOf(offset, name) \in Int
  BY DEF StartOf, Largest

\* And so is what the two recordings have in common.
LEMMA DurationType ==
    ASSUME NEW offset \in Int, NEW media \in Footage
    PROVE  SourceDuration(offset, media) \in Int
<1>1. Length(media.screen) \in Int /\ Length(media.webcam) \in Int
  BY Recorded DEF Footage
<1>2. StartOf(offset, "screen") \in Int /\ StartOf(offset, "webcam") \in Int
  BY StartType
<1> QED
  BY <1>1, <1>2 DEF SourceDuration, Largest

\* An interval has no part of a cut, whichever cut it is.
LEMMA KeptApart ==
    ASSUME NEW cuts \in Seq(Cut), NEW duration \in Int, CutsValid(cuts, duration),
           NEW interval \in Kept(cuts, duration)
    PROVE  /\ interval.start \in Int /\ interval.end \in Int
           /\ \A i \in DOMAIN cuts :
                 interval.end <= cuts[i].start \/ cuts[i].end <= interval.start
<1> DEFINE after(i) == IF i = 1 THEN 0 ELSE cuts[i - 1].end
           before(i) == IF i = Len(cuts) + 1 THEN duration ELSE cuts[i].start
<1>1. PICK j \in 1 .. Len(cuts) + 1 :
         interval.start = after(j) /\ interval.end = before(j)
  BY DEF Kept
<1>2. Len(cuts) \in Nat /\ DOMAIN cuts = 1 .. Len(cuts)
  OBVIOUS
<1>3. \A i \in DOMAIN cuts : cuts[i].start \in Int /\ cuts[i].end \in Int
  <2>1. SUFFICES ASSUME NEW i \in DOMAIN cuts
                 PROVE  cuts[i].start \in Int /\ cuts[i].end \in Int
    OBVIOUS
  <2>2. cuts[i] \in Cut
    OBVIOUS
  <2> QED
    BY <2>2 DEF Cut
<1>4. j \in Int /\ 1 <= j /\ j <= Len(cuts) + 1
  BY <1>2
<1>5. j # 1 => j - 1 \in DOMAIN cuts
  BY <1>2, <1>4
<1>6. j # Len(cuts) + 1 => j \in DOMAIN cuts
  BY <1>2, <1>4
<1>7. interval.start \in Int /\ interval.end \in Int
  BY <1>1, <1>3, <1>5, <1>6
<1>8. ASSUME NEW i \in DOMAIN cuts
      PROVE  interval.end <= cuts[i].start \/ cuts[i].end <= interval.start
  <2>1. i \in Int /\ 1 <= i /\ i <= Len(cuts) /\ cuts[i].start < cuts[i].end
    BY <1>2 DEF CutsValid
  <2>2. CASE i = j
    BY <1>1, <1>2, <1>3, <2>1, <2>2
  <2>3. CASE i > j
    <3>1. j \in DOMAIN cuts /\ j # Len(cuts) + 1
      BY <1>2, <1>4, <1>6, <2>1, <2>3
    <3>2. cuts[j].end <= cuts[i].start /\ cuts[j].start < cuts[j].end
      BY <2>3, <3>1, CutsApart DEF CutsValid
    <3> QED
      BY <1>1, <1>3, <3>1, <3>2
  <2>4. CASE i = j - 1
    BY <1>1, <1>3, <1>4, <2>1, <2>4
  <2>5. CASE i < j - 1
    <3>1. j - 1 \in DOMAIN cuts /\ j # 1
      BY <1>4, <1>5, <2>1, <2>5
    <3>2. cuts[i].end <= cuts[j - 1].start /\ cuts[j - 1].start < cuts[j - 1].end
      BY <2>5, <3>1, CutsApart DEF CutsValid
    <3> QED
      BY <1>1, <1>3, <3>1, <3>2
  <2> QED
    BY <1>4, <2>1, <2>2, <2>3, <2>4, <2>5
<1> QED
  BY <1>7, <1>8

\* The frame at a time is at most half a frame after it, and half a frame before.
LEMMA NotAfter ==
    ASSUME NEW t \in Int, NEW u \in Int, t <= u, NEW fps \in Nat
    PROVE  ToFrames(t, fps) \in Int /\ 2 * ToFrames(t, fps) * Second <= 2 * u * fps + Second
<1> DEFINE g == ToFrames(t, fps)
<1>1. Second \in Nat \ {0} /\ fps \in Int
  BY SecondAssumption
<1>2. g \in Int /\ 2 * Second * g <= 2 * (t * fps) + Second
  BY <1>1, FramesBound
<1> HIDE DEF g
<1>3. 2 * g * Second = 2 * Second * g /\ 2 * u * fps = 2 * (fps * u) /\ t * fps = fps * t
  BY <1>1, <1>2, SMT
<1>4. fps * t <= fps * u /\ fps * t \in Int /\ fps * u \in Int /\ Second * g \in Int
  BY <1>1, <1>2, TimesMonotone, TimesInt
<1>5. 2 * Second * g = 2 * (Second * g)
  BY <1>1, <1>2, SMT
<1> QED
  BY <1>1, <1>2, <1>3, <1>4, <1>5 DEF g

\* And at most half a frame before it.
LEMMA NotBefore ==
    ASSUME NEW t \in Int, NEW u \in Int, u <= t, NEW fps \in Nat
    PROVE  ToFrames(t, fps) \in Int /\ 2 * ToFrames(t, fps) * Second >= 2 * u * fps - Second
<1> DEFINE g == ToFrames(t, fps)
<1>1. Second \in Nat \ {0} /\ fps \in Int
  BY SecondAssumption
<1>2. g \in Int /\ 2 * (t * fps) + Second < 2 * Second * g + 2 * Second
  BY <1>1, FramesBound
<1> HIDE DEF g
<1>3. 2 * g * Second = 2 * Second * g /\ 2 * u * fps = 2 * (fps * u) /\ t * fps = fps * t
  BY <1>1, <1>2, SMT
<1>4. fps * u <= fps * t /\ fps * t \in Int /\ fps * u \in Int /\ Second * g \in Int
  BY <1>1, <1>2, TimesMonotone, TimesInt
<1>5. 2 * Second * g = 2 * (Second * g)
  BY <1>1, <1>2, SMT
<1> QED
  BY <1>1, <1>2, <1>3, <1>4, <1>5 DEF g

\* There is no frame before the first.
LEMMA FrameNatural ==
    ASSUME NEW t \in Nat, NEW fps \in Nat
    PROVE  0 <= ToFrames(t, fps)
<1>1. ToFrames(0, fps) <= ToFrames(t, fps)
  <2>1. 0 \in Int /\ t \in Int /\ 0 <= t
    OBVIOUS
  <2> QED
    BY <2>1, FramesInOrder
<1>2. ToFrames(0, fps) = Second \div (2 * Second)
  BY SecondAssumption DEF ToFrames
<1>3. Second \div (2 * Second) = 0
  BY SecondAssumption
<1> QED
  BY <1>1, <1>2, <1>3

\* The part of a recording that an interval shows.
LEMMA Placed ==
    ASSUME NEW interval, interval.start \in Int, interval.end \in Int,
           NEW role \in Roles, NEW offset \in Int, NEW media \in Footage, NEW into, NEW p,
           p = Placement(interval, role, offset, media, into), p.shown
    PROVE  LET clip == media[RecordingOf[role]]
               start == StartOf(offset, RecordingOf[role])
           IN  /\ p.role = role /\ p.from \in Int /\ p.to \in Int /\ 0 <= p.from
               /\ \A c \in Int : interval.end <= c =>
                     2 * (p.to + 1) * Second <= 2 * (c - start) * p.rate + Second
               /\ \A c \in Int : c <= interval.start =>
                     2 * p.from * Second >= 2 * (c - start) * p.rate - Second
               /\ clip.rate <= Second => p.to < clip.frames
<1> DEFINE clip == media[RecordingOf[role]]
           start == StartOf(offset, RecordingOf[role])
           from == Largest(interval.start, start) - start
           to == Smallest(interval.end, start + Length(clip)) - start
           fps == clip.rate
<1>1. RecordingOf[role] \in {"screen", "webcam"}
  BY DEF RecordingOf, Roles
<1>2. start \in Int
  BY StartType
<1>3. clip.frames \in Nat /\ fps \in Nat \ {0} /\ Length(clip) \in Int
  BY <1>1, Recorded
<1>4. /\ p.role = role /\ p.rate = fps
      /\ p.from = ToFrames(from, fps) /\ p.to = ToFrames(to, fps) - 1
  BY DEF Placement
<1> HIDE DEF clip, start, fps
<1>5. /\ from \in Nat /\ to \in Int /\ to <= Length(clip)
      /\ interval.start - start <= from /\ to <= interval.end - start
  BY <1>2, <1>3 DEF Largest, Smallest
<1> HIDE DEF from, to
<1>6. 0 <= p.from
  BY <1>3, <1>4, <1>5, FrameNatural
<1>7. p.from \in Int /\ p.to + 1 = ToFrames(to, fps) /\ p.to \in Int
  <2>1. ToFrames(from, fps) \in Int /\ ToFrames(to, fps) \in Int
    <3>1. from \in Int /\ fps \in Nat /\ from <= from /\ to <= to
      BY <1>3, <1>5
    <3> QED
      BY <1>5, <3>1, NotAfter
  <2> QED
    BY <1>4, <2>1
<1>8. ASSUME NEW c \in Int, interval.end <= c
      PROVE  2 * (p.to + 1) * Second <= 2 * (c - start) * p.rate + Second
  <2> DEFINE u == c - start
  <2>1. u \in Int /\ to <= u /\ fps \in Nat
    BY <1>2, <1>3, <1>5, <1>8
  <2> HIDE DEF u
  <2>2. 2 * ToFrames(to, fps) * Second <= 2 * u * fps + Second
    BY <1>5, <2>1, NotAfter
  <2> QED
    BY <1>4, <1>7, <2>2 DEF u
<1>9. ASSUME NEW c \in Int, c <= interval.start
      PROVE  2 * p.from * Second >= 2 * (c - start) * p.rate - Second
  <2> DEFINE u == c - start
  <2>1. u \in Int /\ u <= from /\ fps \in Nat /\ from \in Int
    BY <1>2, <1>3, <1>5, <1>9
  <2> HIDE DEF u
  <2>2. 2 * ToFrames(from, fps) * Second >= 2 * u * fps - Second
    BY <2>1, NotBefore
  <2> QED
    BY <1>4, <2>2 DEF u
<1>10. ASSUME fps <= Second
       PROVE  p.to < clip.frames
  <2>1. fps \in 1 .. Second
    BY <1>3, <1>10, SecondAssumption
  <2>2. ToFrames(to, fps) <= clip.frames
    BY <1>3, <1>5, <2>1, LastFrameExists DEF Length, fps
  <2> QED
    BY <1>3, <1>7, <2>2
<1> QED
  BY <1>4, <1>6, <1>7, <1>8, <1>9, <1>10 DEF clip, start, fps

\* What is shown of a plan: nothing inside a cut, and only frames that there are.
LEMMA Previewed ==
    ASSUME NEW content, content.offset \in Int, content.cuts \in Seq(Cut),
           NEW media \in Footage, NEW into,
           NEW p \in Preview(content, media, into)
    PROVE  /\ \A i \in DOMAIN content.cuts :
                 ShownOutside(p, content.cuts[i], StartOf(content.offset, RecordingOf[p.role]))
           /\ 0 <= p.from /\ p.from < p.to
           /\ media[RecordingOf[p.role]].rate <= Second =>
                 p.to < media[RecordingOf[p.role]].frames
<1> DEFINE offset == content.offset
           cuts == content.cuts
           duration == SourceDuration(offset, media)
<1>1. CutsValid(cuts, duration) /\ p \in Placements(Kept(cuts, duration), offset, media, into)
  BY DEF Preview
<1>2. duration \in Int
  BY DurationType
<1> HIDE DEF duration
<1>3. PICK interval \in Kept(cuts, duration), role \in Roles :
         p = Placement(interval, role, offset, media, into) /\ p.shown /\ p.to > p.from
  BY <1>1 DEF Placements
<1>4. /\ interval.start \in Int /\ interval.end \in Int
      /\ \A i \in DOMAIN cuts :
            interval.end <= cuts[i].start \/ cuts[i].end <= interval.start
  BY <1>1, <1>2, KeptApart
<1>5. /\ p.role = role /\ p.from \in Int /\ p.to \in Int /\ 0 <= p.from
      /\ \A c \in Int : interval.end <= c =>
            2 * (p.to + 1) * Second <= 2 * (c - StartOf(offset, RecordingOf[role])) * p.rate + Second
      /\ \A c \in Int : c <= interval.start =>
            2 * p.from * Second >= 2 * (c - StartOf(offset, RecordingOf[role])) * p.rate - Second
      /\ media[RecordingOf[role]].rate <= Second => p.to < media[RecordingOf[role]].frames
  BY <1>3, <1>4, Placed
<1>6. ASSUME NEW i \in DOMAIN cuts
      PROVE  ShownOutside(p, cuts[i], StartOf(offset, RecordingOf[p.role]))
  <2>1. cuts[i] \in Cut
    OBVIOUS
  <2>2. cuts[i].start \in Int /\ cuts[i].end \in Int
    BY <2>1 DEF Cut
  <2> QED
    BY <1>4, <1>5, <2>2 DEF ShownOutside
<1> QED
  BY <1>3, <1>5, <1>6

-----------------------------------------------------------------------------
(* The proposed cuts *)

\* Things with starts of their own can be put in order: each has a rank, no two
\* the same one, so every rank is taken.
LEMMA Ordered ==
    ASSUME NEW S, IsFiniteSet(S), \A c \in S : c.start \in Int,
           \A c, d \in S : c.start = d.start => c = d
    PROVE  InOrder(S) \in Seq(S)
<1> DEFINE Earlier(c) == {d \in S : d.start < c.start}
           n == Cardinality(S)
           rank == [c \in S |-> Cardinality(Earlier(c)) + 1]
<1>1. n \in Nat
  BY FS_CardinalityType
<1>2. IsFiniteSet(1 .. n) /\ Cardinality(1 .. n) = n
  <2> HIDE DEF n
  <2> QED
    BY <1>1, FS_Interval
<1>3. \A c \in S : IsFiniteSet(Earlier(c)) /\ Cardinality(Earlier(c)) \in Nat
  <2>1. SUFFICES ASSUME NEW c \in S
                 PROVE  IsFiniteSet(Earlier(c)) /\ Cardinality(Earlier(c)) \in Nat
    OBVIOUS
  <2>2. Earlier(c) \in SUBSET S
    OBVIOUS
  <2> HIDE DEF Earlier
  <2> QED
    BY <2>2, FS_Subset, FS_CardinalityType
<1>4. ASSUME NEW c, NEW T, IsFiniteSet(T), NEW U \in SUBSET T, c \in T, c \notin U
      PROVE  Cardinality(U) < Cardinality(T)
  <2>1. Cardinality(U) <= Cardinality(T) /\ Cardinality(U) # Cardinality(T) /\ IsFiniteSet(U)
    BY <1>4, FS_Subset
  <2>2. Cardinality(U) \in Nat /\ Cardinality(T) \in Nat
    BY <1>4, <2>1, FS_CardinalityType
  <2> QED
    BY <2>1, <2>2
<1>5. \A c \in S : Cardinality(Earlier(c)) < n
  <2>1. SUFFICES ASSUME NEW c \in S PROVE Cardinality(Earlier(c)) < n
    OBVIOUS
  <2>2. Earlier(c) \in SUBSET S /\ c \notin Earlier(c)
    OBVIOUS
  <2> HIDE DEF Earlier
  <2> QED
    BY <1>4, <2>2
<1>6. rank \in [S -> 1 .. n]
  <2>1. SUFFICES ASSUME NEW c \in S
                 PROVE  Cardinality(Earlier(c)) + 1 \in 1 .. n
    OBVIOUS
  <2>2. Cardinality(Earlier(c)) \in Nat /\ Cardinality(Earlier(c)) < n
    BY <1>3, <1>5
  <2> HIDE DEF Earlier, n
  <2> QED
    BY <1>1, <2>2
<1>7. ASSUME NEW c \in S, NEW d \in S, c.start < d.start
      PROVE  Cardinality(Earlier(c)) < Cardinality(Earlier(d))
  <2>1. c \in Earlier(d) /\ c \notin Earlier(c)
    BY <1>7
  <2>2. Earlier(c) \in SUBSET Earlier(d)
    <3>1. \A e \in S : e.start < c.start => e.start < d.start
      BY <1>7
    <3> QED
      BY <3>1
  <2>3. IsFiniteSet(Earlier(d))
    BY <1>3
  <2> HIDE DEF Earlier
  <2> QED
    BY <1>4, <2>1, <2>2, <2>3
<1>8. IsInjective(rank)
  <2>1. SUFFICES ASSUME NEW c \in S, NEW d \in S,
                        Cardinality(Earlier(c)) + 1 = Cardinality(Earlier(d)) + 1
                 PROVE  c = d
    BY DEF IsInjective
  <2>2. Cardinality(Earlier(c)) \in Nat /\ Cardinality(Earlier(d)) \in Nat
    BY <1>3
  <2> HIDE DEF Earlier
  <2>3. ~(c.start < d.start) /\ ~(d.start < c.start)
    BY <1>7, <2>1, <2>2
  <2>4. c.start = d.start
    BY <2>3
  <2> QED
    BY <2>4
<1>9. rank \in Surjection(S, 1 .. n)
  <2>1. rank \in Injection(S, 1 .. n)
    BY <1>6, <1>8 DEF Injection
  <2>2. Cardinality(S) = n
    OBVIOUS
  <2> HIDE DEF rank, n
  <2> QED
    BY <1>2, <2>1, <2>2, FS_Injection
<1>10. \A i \in 1 .. n : \E c \in S : Cardinality(Earlier(c)) = i - 1
  <2>1. SUFFICES ASSUME NEW i \in 1 .. n
                 PROVE  \E c \in S : Cardinality(Earlier(c)) = i - 1
    OBVIOUS
  <2>2. PICK c \in S : rank[c] = i
    <3> HIDE DEF rank, n
    <3> QED
      BY <1>9 DEF Surjection
  <2>3. Cardinality(Earlier(c)) + 1 = i
    BY <2>2
  <2> HIDE DEF Earlier, n
  <2>4. Cardinality(Earlier(c)) \in Nat
    BY <1>3
  <2> QED
    BY <2>3, <2>4
<1>11. InOrder(S) \in [1 .. n -> S]
  BY <1>10 DEF InOrder
<1> HIDE DEF n
<1> QED
  BY <1>1, <1>11

\* What is cut of a silence.
CutOf(s, run) == [start |-> run[1] * Window + Context,
                  end |-> Smallest(run[2] * Window, s.duration) - Context]

\* A pause ends where a word begins, so no two begin together.
LEMMA Proposed ==
    ASSUME NEW s, s.duration \in Int
    PROVE  /\ ProposedCuts(s) \in Seq(Cut)
           /\ \A i \in DOMAIN ProposedCuts(s) :
                 \E run \in Runs(s) : ProposedCuts(s)[i] = CutOf(s, run)
<1> DEFINE shrunk == {[start |-> p.start + Context, end |-> p.end - Context]
                         : p \in DetectPauses(s)}
           C == {c \in shrunk : c.start < c.end}
           N == Windows * Window + Context
<1>1. Window \in Nat \ {0} /\ Windows \in Nat \ {0} /\ Context \in Nat
  BY CutAssumption
<1>2. \A run \in Runs(s) :
         /\ run[1] \in Nat /\ run[1] < Windows /\ run[2] \in Nat /\ run[1] < run[2]
         /\ run[1] .. run[2] - 1 \subseteq s.silent /\ run[2] \notin s.silent
         /\ run = <<run[1], run[2]>>
  BY <1>1 DEF Runs
<1>3. ASSUME NEW c \in C
      PROVE  \E run \in Runs(s) : c = CutOf(s, run)
  <2>1. PICK p \in DetectPauses(s) : c = [start |-> p.start + Context, end |-> p.end - Context]
    OBVIOUS
  <2>2. PICK run \in Runs(s) :
           p = [start |-> run[1] * Window, end |-> Smallest(run[2] * Window, s.duration)]
    BY DEF DetectPauses
  <2> QED
    BY <2>1, <2>2 DEF CutOf
<1> HIDE DEF C
<1>4. ASSUME NEW run \in Runs(s)
      PROVE  CutOf(s, run) \in Cut /\ CutOf(s, run).start \in 0 .. N
  <2>1. run[1] * Window \in Int /\ run[2] * Window \in Int /\ Windows * Window \in Int
    BY <1>1, <1>2, TimesInt
  <2>2. Window * 0 <= Window * run[1] /\ Window * run[1] <= Window * Windows
    BY <1>1, <1>2, TimesMonotone
  <2>3. /\ Window * 0 = 0 /\ Window * run[1] = run[1] * Window
        /\ Window * Windows = Windows * Window
    BY <1>1, <1>2, SMT
  <2>4. Smallest(run[2] * Window, s.duration) \in Int
    BY <2>1 DEF Smallest
  <2> QED
    BY <1>1, <2>1, <2>2, <2>3, <2>4 DEF Cut, CutOf
<1>5. ASSUME NEW r \in Runs(s), NEW q \in Runs(s), CutOf(s, r).start = CutOf(s, q).start
      PROVE  r = q
  <2>1. r[1] * Window \in Int /\ q[1] * Window \in Int
    BY <1>1, <1>2, TimesInt
  <2>2. r[1] * Window = q[1] * Window
    <3> DEFINE x == r[1] * Window
               y == q[1] * Window
    <3>1. x + Context = y + Context
      BY <1>5 DEF CutOf
    <3>2. x \in Int /\ y \in Int
      BY <2>1
    <3> HIDE DEF x, y
    <3>3. x = y
      BY <1>1, <3>1, <3>2
    <3> QED
      BY <3>3 DEF x, y
  <2>3. Window * r[1] = Window * q[1]
    BY <1>1, <1>2, <2>2, SMT
  <2>4. r[1] = q[1]
    BY <1>1, <1>2, <2>3, Pinned
  <2>5. ~(r[2] < q[2])
    BY <1>2, <2>4
  <2>6. ~(q[2] < r[2])
    BY <1>2, <2>4
  <2>7. r[2] = q[2]
    BY <1>2, <2>5, <2>6
  <2> QED
    BY <1>2, <2>4, <2>7
<1>6. C \subseteq Cut /\ \A c \in C : c.start \in Int
  <2>1. \A c \in C : c \in Cut
    BY <1>3, <1>4
  <2> QED
    BY <2>1 DEF Cut
<1>7. \A c, d \in C : c.start = d.start => c = d
  BY <1>3, <1>5
<1>8. IsFiniteSet(C)
  <2> DEFINE f == [c \in C |-> c.start]
  <2>1. f \in Injection(C, 0 .. N)
    <3>1. f \in [C -> 0 .. N]
      BY <1>3, <1>4
    <3>2. IsInjective(f)
      BY <1>7 DEF IsInjective
    <3> QED
      BY <3>1, <3>2 DEF Injection
  <2>2. N \in Int
    BY <1>1, TimesInt
  <2>3. IsFiniteSet(0 .. N)
    <3> HIDE DEF N
    <3> QED
      BY <2>2, FS_Interval
  <2> HIDE DEF f, N
  <2> QED
    BY <2>1, <2>3, FS_Injection
<1>9. InOrder(C) \in Seq(C)
  BY <1>6, <1>7, <1>8, Ordered
<1>10. InOrder(C) \in Seq(Cut)
  BY <1>6, <1>9
<1>11. \A i \in DOMAIN InOrder(C) : \E run \in Runs(s) : InOrder(C)[i] = CutOf(s, run)
  <2>1. \A i \in DOMAIN InOrder(C) : InOrder(C)[i] \in C
    BY <1>9
  <2> QED
    BY <1>3, <2>1
<1> QED
  BY <1>10, <1>11 DEF ProposedCuts, C

-----------------------------------------------------------------------------
(* The stages of a talk *)

\* The content of a plan file.
PlanOK(p) ==
    /\ p = [offset |-> p.offset, cuts |-> p.cuts, written |-> p.written]
    /\ p.offset \in Int /\ p.cuts \in Seq(Cut)

\* The receipt of a compaction is about the approved plan, as it was previewed of
\* recordings that may have been replaced since, as the rate may.
ReceiptOK ==
    compaction.status # "none" =>
        /\ approval.written /\ approval.offset \in pairs
        /\ compaction.offset = approval.offset /\ compaction.rate \in Rates
        /\ \E media \in Footage :
              compaction.preview = Preview(approval, media, compaction.rate)

CInv ==
    /\ CutTypeOK /\ PlanOK(plan) /\ PlanOK(approval)
    /\ compaction = [status |-> compaction.status, offset |-> compaction.offset,
                     rate |-> compaction.rate, preview |-> compaction.preview]
    /\ ReceiptOK

\* A window has a sample, and no recording a negative duration.
LEMMA WindowType ==
    ASSUME NEW sampleRate \in Nat \ {0}
    PROVE  WindowSamples(sampleRate) \in Nat \ {0}
<1> DEFINE n == (sampleRate * Window) \div Second
<1>1. sampleRate * Window \in Int /\ Second \in Nat \ {0}
  BY CutAssumption, SecondAssumption, TimesInt
<1>2. n \in Int
  BY <1>1, Quotient
<1> HIDE DEF n
<1>3. Largest(1, n) \in Nat \ {0}
  BY <1>2 DEF Largest
<1> QED
  BY <1>3 DEF WindowSamples, n

LEMMA WavDurationType ==
    ASSUME NEW samples \in Nat, NEW sampleRate \in Nat \ {0}
    PROVE  WavDuration(samples, sampleRate) \in Nat
<1> DEFINE up == ToTicks(samples, sampleRate)
<1>1. Second \in Nat \ {0} /\ samples \in Int
  BY SecondAssumption
<1>2. up \in Int /\ 2 * (samples * Second) + sampleRate < 2 * sampleRate * up + 2 * sampleRate
  BY <1>1, TicksBound
<1> HIDE DEF up
<1>3. 0 <= samples * Second /\ samples * Second \in Int
  <2>1. Second * 0 <= Second * samples
    BY <1>1, TimesMonotone
  <2>2. Second * 0 = 0 /\ Second * samples = samples * Second
    BY <1>1, SMT
  <2> QED
    BY <1>1, <2>1, <2>2, TimesInt
<1>4. up >= 0
  <2>1. 2 * sampleRate * up = sampleRate * (2 * up) /\ sampleRate * (2 * up) \in Int
    BY <1>2, SMT
  <2>2. sampleRate * (-1) = -sampleRate
    BY SMT
  <2>3. sampleRate * (-1) < sampleRate * (2 * up)
    BY <1>2, <1>3, <2>1, <2>2
  <2>4. -1 < 2 * up
    BY <1>2, <2>3, TimesStrict
  <2> QED
    BY <1>2, <2>4
<1>5. up \in Nat /\ (up % 2 = 1 => up - 1 \in Nat)
  BY <1>2, <1>4
<1> QED
  BY <1>5 DEF WavDuration, up

\* Nothing is planned, paired or inserted, whoever sits at the desk.
LEMMA CutBegins ==
    ASSUME CutInit \/ CutRests
    PROVE  CInv
<1>1. Windows * Window \in Nat
  BY CutAssumption, SMT
<1>2. ASSUME NEW sampleRate \in SampleRates,
             NEW samples \in {Windows * WindowSamples(sampleRate),
                              Windows * WindowSamples(sampleRate)
                                 - WindowSamples(sampleRate) \div 2}
      PROVE  WavDuration(samples, sampleRate) \in Nat
  <2>1. sampleRate \in Nat \ {0} /\ Windows \in Nat \ {0}
    BY CutAssumption
  <2>2. WindowSamples(sampleRate) \in Nat \ {0}
    BY <2>1, WindowType
  <2>3. samples \in Nat
    <3> DEFINE w == WindowSamples(sampleRate)
    <3>1. w \in Nat \ {0}
      BY <2>2
    <3> HIDE DEF w
    <3>2. w * 1 <= w * Windows /\ w * 1 = w /\ w * Windows = Windows * w /\ Windows * w \in Int
      BY <2>1, <3>1, TimesMonotone, TimesInt, SMT
    <3>3. w \div 2 \in Int /\ 0 <= w \div 2 /\ w \div 2 <= w
      BY <3>1, SMT
    <3>4. Windows * w \in Nat /\ Windows * w - w \div 2 \in Nat
      BY <3>1, <3>2, <3>3
    <3> QED
      BY <3>4 DEF w
  <2> QED
    BY <2>1, <2>3, WavDurationType
<1>3. speech \in [silent: Silences, sampleRate: SampleRates, duration: Nat]
  <2>1. CASE CutInit
    BY <1>2, <2>1 DEF CutInit
  <2>2. CASE CutRests
    BY <1>1, <2>2, DeskAssumption DEF CutRests
  <2> QED
    BY <2>1, <2>2
<1>4. footage \in [screen: Recordings, webcam: Recordings] /\ rate \in Rates
  <2>1. CASE CutRests
    <3>1. footage \in [{"screen", "webcam"} -> Recordings]
      BY <2>1, DeskAssumption DEF CutRests
    <3>2. footage = [screen |-> footage["screen"], webcam |-> footage["webcam"]]
      BY <2>1 DEF CutRests
    <3> QED
      BY <2>1, <3>1, <3>2, DeskAssumption DEF CutRests
  <2> QED
    BY <2>1 DEF CutInit
<1>5. /\ plan = NoPlan /\ approval = NoPlan /\ pairs = {} /\ layouts = {} /\ links = {}
      /\ compaction = NoCompaction /\ compacting = FALSE /\ inserted = {}
  BY DEF CutInit, CutRests
<1>6. CutTypeOK
  BY <1>3, <1>4, <1>5 DEF CutTypeOK, NoPlan, NoCompaction
<1>7. PlanOK(NoPlan)
  BY DEF PlanOK, NoPlan
<1> QED
  BY <1>5, <1>6, <1>7 DEF CInv, ReceiptOK, NoCompaction

\* Whatever the user makes of the proposal is a list of cuts.
LEMMA TextsType ==
    ASSUME NEW cuts \in Seq(Cut), NEW other \in Texts(cuts)
    PROVE  other \in Seq(Cut)
<1>1. Len(cuts) \in Nat /\ DOMAIN cuts = 1 .. Len(cuts)
  OBVIOUS
<1>2. \A i \in 1 .. Len(cuts) : cuts[i] \in Cut
  OBVIOUS
<1>3. CASE other = cuts
  BY <1>3
<1>4. CASE other = Reverse(cuts)
  <2>1. \A i \in 1 .. Len(cuts) : Len(cuts) - i + 1 \in 1 .. Len(cuts)
    BY <1>1
  <2>2. other \in [1 .. Len(cuts) -> Cut]
    BY <1>2, <1>4, <2>1 DEF Reverse
  <2> QED
    BY <1>1, <2>2
<1>5. CASE other = [i \in DOMAIN cuts |-> [cuts[i] EXCEPT !.end = @ + Window]]
  <2>1. ASSUME NEW c \in Cut
        PROVE  [c EXCEPT !.end = @ + Window] \in Cut
    <3>1. Window \in Int
      BY CutAssumption
    <3> QED
      BY <3>1 DEF Cut
  <2>2. other \in [1 .. Len(cuts) -> Cut]
    BY <1>1, <1>2, <1>5, <2>1
  <2> QED
    BY <1>1, <2>2
<1>6. CASE other = Tail(cuts) /\ cuts # <<>>
  BY <1>6
<1> QED
  BY <1>3, <1>4, <1>5, <1>6 DEF Texts

\* The stages before the compaction, and the last one.
LEMMA PlanStagesKeep ==
    ASSUME CInv, CreatePlan \/ Approve \/ EditPlan
    PROVE  CInv'
<1>1. ProposedCuts(speech) \in Seq(Cut)
  <2>1. speech.duration \in Int
    BY DEF CInv, CutTypeOK
  <2> QED
    BY <2>1, Proposed
<1>2. /\ UNCHANGED <<speech, footage, rate, pairs, layouts, links,
                     compaction, compacting, inserted>>
      /\ plan'.written
  <2>1. CASE CreatePlan
    BY <2>1 DEF CreatePlan
  <2>2. CASE Approve
    BY <2>2, Zenon DEF Approve
  <2>3. CASE EditPlan
    BY <2>3 DEF EditPlan, CInv, PlanOK
  <2> QED
    BY <2>1, <2>2, <2>3
<1>3. PlanOK(plan') /\ plan'.written \in BOOLEAN
  <2>1. CASE CreatePlan
    <3>1. PICK o \in Lags(speech) :
             plan' = [offset |-> o, cuts |-> ProposedCuts(speech), written |-> TRUE]
      BY <2>1 DEF CreatePlan
    <3>2. o \in Int
      BY CutAssumption DEF Lags
    <3> QED
      BY <1>1, <3>1, <3>2 DEF PlanOK
  <2>2. CASE Approve
    BY <2>2 DEF Approve, CInv, CutTypeOK
  <2>3. CASE EditPlan
    <3>1. PICK cuts \in Texts(ProposedCuts(speech)) : plan' = [plan EXCEPT !.cuts = cuts]
      BY <2>3 DEF EditPlan
    <3>2. cuts \in Seq(Cut)
      BY <1>1, TextsType
    <3> QED
      BY <3>1, <3>2 DEF CInv, PlanOK, CutTypeOK
  <2> QED
    BY <2>1, <2>2, <2>3
<1>4. /\ PlanOK(approval') /\ approval'.written \in BOOLEAN
      /\ approval' # approval => ~approval.written
  <2>1. CASE Approve
    BY <2>1 DEF Approve, CInv, CutTypeOK
  <2>2. CASE approval' = approval
    BY <2>2 DEF CInv, CutTypeOK
  <2> QED
    BY <2>1, <2>2 DEF CreatePlan, EditPlan
<1>5. CutTypeOK'
  BY <1>2, <1>3, <1>4 DEF CInv, CutTypeOK
<1>6. ReceiptOK'
  BY <1>2, <1>4 DEF CInv, ReceiptOK
<1> QED
  BY <1>2, <1>3, <1>4, <1>5, <1>6 DEF CInv

\* Layouts, links and media are not what a receipt is about.
LEMMA OtherStagesKeep ==
    ASSUME CInv, Assemble \/ Style \/ Interrupt \/ Finalize \/ ChangeMedia
    PROVE  CInv'
<1>1. /\ UNCHANGED <<speech, plan, approval, compaction, inserted>>
      /\ pairs \subseteq pairs' /\ pairs' \subseteq Offsets
      /\ layouts' \subseteq pairs' /\ links' \subseteq pairs'
  <2>1. CASE Assemble
    BY <2>1 DEF Assemble, CInv, CutTypeOK
  <2>2. CASE Style
    BY <2>2 DEF Style, CInv, CutTypeOK
  <2>3. CASE Interrupt \/ Finalize \/ ChangeMedia
    BY <2>3 DEF Interrupt, Finalize, ChangeMedia, CInv, CutTypeOK
  <2> QED
    BY <2>1, <2>2, <2>3
<1>2. /\ footage' \in [screen: Recordings, webcam: Recordings] /\ rate' \in Rates
      /\ compacting' \in BOOLEAN
      /\ compacting' => compacting
  <2>1. CASE ChangeMedia
    BY <2>1 DEF ChangeMedia, CInv, CutTypeOK
  <2>2. CASE Interrupt
    BY <2>2 DEF Interrupt, CInv, CutTypeOK
  <2>3. CASE Assemble \/ Style \/ Finalize
    BY <2>3 DEF Assemble, Style, Finalize, CInv, CutTypeOK
  <2> QED
    BY <2>1, <2>2, <2>3
<1>3. CutTypeOK'
  <2>1. speech' \in [silent: Silences, sampleRate: SampleRates, duration: Nat]
    BY <1>1 DEF CInv, CutTypeOK
  <2>2. /\ plan'.written \in BOOLEAN /\ approval'.written \in BOOLEAN
        /\ approval'.written => plan'.written
    BY <1>1 DEF CInv, CutTypeOK
  <2>3. compacting' => compaction'.status = "in_progress"
    BY <1>1, <1>2 DEF CInv, CutTypeOK
  <2>4. /\ compaction'.status \in {"none", "in_progress", "applied"}
        /\ inserted' # {} => compaction'.status = "applied" /\ inserted' = compaction'.preview
    BY <1>1 DEF CInv, CutTypeOK
  <2> QED
    BY <1>1, <1>2, <2>1, <2>2, <2>3, <2>4 DEF CutTypeOK
<1>4. ReceiptOK'
  BY <1>1 DEF CInv, ReceiptOK
<1> QED
  BY <1>1, <1>3, <1>4 DEF CInv

\* An interrupted compaction is taken up with the receipt it left.
LEMMA BeginCompactionKeeps ==
    ASSUME CInv, BeginCompaction
    PROVE  CInv'
<1>1. /\ UNCHANGED <<speech, footage, rate, plan, approval, pairs, layouts, links, inserted>>
      /\ approval.written /\ approval = plan /\ plan.offset \in pairs
      /\ compaction.status # "applied" /\ compacting'
      /\ compaction' = [status |-> "in_progress", offset |-> plan.offset,
                         rate |-> rate, preview |-> Preview(plan, footage, rate)]
  BY DEF BeginCompaction, ApprovalHolds
<1>2. compacting' \in BOOLEAN
  BY DEF BeginCompaction
<1>3. inserted = {}
  BY <1>1 DEF CInv, CutTypeOK
<1>4. CutTypeOK'
  BY <1>1, <1>2, <1>3 DEF CInv, CutTypeOK
<1>5. ReceiptOK'
  <2>1. footage \in Footage /\ rate \in Rates
    BY DEF CInv, CutTypeOK, Footage
  <2>2. compaction'.preview = Preview(approval, footage, rate)
    BY <1>1
  <2> QED
    BY <1>1, <2>1, <2>2 DEF ReceiptOK
<1> QED
  BY <1>1, <1>4, <1>5 DEF CInv

\* A receipt is completed with the preview it was begun with.
LEMMA FinishCompactionKeeps ==
    ASSUME CInv, FinishCompaction
    PROVE  CInv'
<1>1. /\ UNCHANGED <<speech, footage, rate, plan, approval, pairs, layouts, links>>
      /\ compaction.status # "none"
      /\ inserted' = compaction.preview
      /\ compaction' = [status |-> "applied", offset |-> compaction.offset,
                         rate |-> compaction.rate, preview |-> compaction.preview]
  BY DEF FinishCompaction, CInv, CutTypeOK
<1>2. compacting' = FALSE
  BY DEF FinishCompaction
<1>3. CutTypeOK'
  BY <1>1, <1>2 DEF CInv, CutTypeOK
<1>4. ReceiptOK'
  BY <1>1 DEF CInv, ReceiptOK
<1> QED
  BY <1>1, <1>3, <1>4 DEF CInv

\* Every step keeps the invariant of the cut.
LEMMA CutKeeps ==
    ASSUME CInv, CutNext \/ UNCHANGED cutVars
    PROVE  CInv'
<1>1. CASE UNCHANGED cutVars
  BY <1>1 DEF cutVars, CInv, CutTypeOK, PlanOK, ReceiptOK
<1>2. CASE CutNext
  BY <1>2, PlanStagesKeep, OtherStagesKeep, BeginCompactionKeeps, FinishCompactionKeeps DEF CutNext
<1> QED
  BY <1>1, <1>2

\* What the invariant is for.
LEMMA CutShows ==
    ASSUME CInv
    PROVE  OnlyKeptIsShown
<1> SUFFICES ASSUME NEW p \in inserted
             PROVE  /\ approval.written /\ approval.offset \in pairs
                    /\ \A i \in DOMAIN approval.cuts :
                          ShownOutside(p, approval.cuts[i],
                                       StartOf(approval.offset, RecordingOf[p.role]))
  BY DEF OnlyKeptIsShown
<1>1. compaction.status # "none" /\ inserted = compaction.preview
  BY DEF CInv, CutTypeOK
<1>2. PICK media \in Footage : compaction.preview = Preview(approval, media, compaction.rate)
  BY <1>1 DEF CInv, ReceiptOK
<1>3. approval.offset \in Int /\ approval.cuts \in Seq(Cut)
  BY DEF CInv, PlanOK
<1>4. p \in Preview(approval, media, compaction.rate)
  BY <1>1, <1>2
<1> QED
  BY <1>1, <1>3, <1>4, Previewed DEF CInv, ReceiptOK

\* A preview of a plan asks for frames of its recordings only.
LEMMA CutExists ==
    ASSUME CInv, \A r \in Recordings : r.rate <= Second
    PROVE  CutFramesExist
<1> SUFFICES ASSUME NEW p \in Preview(plan, footage, rate)
             PROVE  0 <= p.from /\ p.from < p.to /\ p.to < footage[RecordingOf[p.role]].frames
  BY DEF CutFramesExist
<1>1. plan.offset \in Int /\ plan.cuts \in Seq(Cut) /\ footage \in Footage
  BY DEF CInv, PlanOK, CutTypeOK, Footage
<1>2. p.role \in Roles
  BY DEF Preview, Placements, Placement
<1>3. RecordingOf[p.role] \in {"screen", "webcam"}
  BY <1>2 DEF RecordingOf, Roles
<1>4. footage[RecordingOf[p.role]].rate <= Second
  BY <1>1, <1>3, Recorded
<1> QED
  BY <1>1, <1>4, Previewed

-----------------------------------------------------------------------------
(* Words *)

\* Of what is cut there is a context to every word, and its whole window before that.
LEMMA WordApart ==
    ASSUME NEW s, s.duration \in Int, NEW run \in Runs(s),
           NEW t \in Nat, t \div Window \notin s.silent
    PROVE  LET w == t \div Window
               gone == CutOf(s, run)
           IN  \/ t + 1 + Context <= gone.start /\ w * Window + Window + Context <= gone.start
               \/ gone.end <= t - Context /\ gone.end <= w * Window - Context
<1> DEFINE w == t \div Window
           gone == CutOf(s, run)
<1>1. Window \in Nat \ {0} /\ Windows \in Nat \ {0} /\ Context \in Nat
  BY CutAssumption
<1>2. w \in Int /\ Window * w <= t /\ t < Window * w + Window
  <2>1. t \in Int
    OBVIOUS
  <2> QED
    BY <1>1, <2>1, Quotient DEF w
<1>3. /\ run[1] \in Nat /\ run[2] \in Nat
      /\ run[1] .. run[2] - 1 \subseteq s.silent
  BY <1>1 DEF Runs
<1>4. w \notin s.silent
  OBVIOUS
<1>5. gone.start = run[1] * Window + Context
  BY DEF CutOf
<1>6. gone.end = Smallest(run[2] * Window, s.duration) - Context
  BY DEF CutOf
<1> HIDE DEF w, gone
<1>7. w < run[1] \/ run[2] <= w
  BY <1>2, <1>3, <1>4
<1>8. /\ w * Window = Window * w /\ run[1] * Window = Window * run[1]
      /\ run[2] * Window = Window * run[2]
      /\ Window * w \in Int /\ Window * run[1] \in Int /\ Window * run[2] \in Int
  BY <1>1, <1>2, <1>3, TimesInt, SMT
<1>9. CASE w < run[1]
  <2>1. w + 1 \in Int /\ w + 1 <= run[1] /\ run[1] \in Int
    BY <1>2, <1>3, <1>9
  <2>2. Window * (w + 1) <= Window * run[1] /\ Window * (w + 1) = Window * w + Window
    BY <1>1, <1>2, <2>1, TimesMonotone, SMT
  <2> QED
    BY <1>1, <1>2, <1>5, <1>8, <2>2 DEF w, gone
<1>10. CASE run[2] <= w
  <2>1. Window * run[2] <= Window * w
    BY <1>1, <1>2, <1>3, <1>10, TimesMonotone
  <2>2. Smallest(run[2] * Window, s.duration) \in Int /\ Smallest(run[2] * Window, s.duration) <= run[2] * Window
    BY <1>8 DEF Smallest
  <2> QED
    BY <1>1, <1>2, <1>6, <1>8, <2>1, <2>2 DEF w, gone
<1> QED
  BY <1>7, <1>9, <1>10

\* A word between two cuts: the frames between them are at least two, and show all of it.
LEMMA WordFits ==
    ASSUME NEW fps \in Nat \ {0}, 2 * Context * fps >= Second,
           (Window + Context) * fps >= 2 * Second,
           NEW t \in Nat, NEW w \in Nat, NEW x \in Nat, x <= t,
           x = 0 \/ (x <= t - Context /\ x <= w * Window - Context)
    PROVE  /\ ToFrames(x, fps) \in Int /\ ToFrames(x, fps) * Second <= t * fps
           /\ \A b \in Int :
                 t + 1 + Context <= b /\ w * Window + Window + Context <= b =>
                    /\ ToFrames(b, fps) \in Int /\ t * fps < ToFrames(b, fps) * Second
                    /\ ToFrames(x, fps) + 1 < ToFrames(b, fps)
<1> DEFINE A == ToFrames(x, fps)
<1>1. Second \in Nat \ {0} /\ Context \in Nat /\ Window \in Nat \ {0} /\ fps \in Nat /\ x \in Int
  BY SecondAssumption, CutAssumption
<1>2. A \in Int /\ 2 * A * Second <= 2 * x * fps + Second
  <2>1. x <= x
    BY <1>1
  <2> QED
    BY <1>1, <2>1, NotAfter
<1>3. x = 0 => A = 0
  <2>1. Second \div (2 * Second) = 0
    BY <1>1
  <2> QED
    BY <1>1, <2>1 DEF ToFrames
<1> HIDE DEF A
<1>4. /\ fps * t \in Int /\ fps * x \in Int /\ fps * Context \in Int /\ A * Second \in Int
      /\ t * fps = fps * t /\ 2 * x * fps = 2 * (fps * x)
      /\ 2 * Context * fps = 2 * (fps * Context) /\ 2 * A * Second = 2 * (A * Second)
      /\ fps * Window \in Int /\ (Window + Context) * fps = fps * Window + fps * Context
  BY <1>1, <1>2, TimesInt, SMT
<1>5. A * Second <= t * fps
  <2>1. CASE x = 0
    <3>1. fps * 0 <= fps * t /\ fps * 0 = 0
      BY <1>1, TimesMonotone, SMT
    <3>2. A * Second = 0
      BY <1>1, <1>3, <2>1
    <3> QED
      BY <1>4, <3>1, <3>2
  <2>2. CASE x # 0
    <3>1. x + Context <= t /\ x + Context \in Int
      BY <1>1, <2>2
    <3>2. fps * (x + Context) <= fps * t /\ fps * (x + Context) = fps * x + fps * Context
      BY <1>1, <3>1, TimesMonotone, SMT
    <3> QED
      BY <1>1, <1>2, <1>4, <3>2
  <2> QED
    BY <2>1, <2>2
<1>6. ASSUME NEW b \in Int, t + 1 + Context <= b, w * Window + Window + Context <= b
      PROVE  /\ ToFrames(b, fps) \in Int /\ t * fps < ToFrames(b, fps) * Second
             /\ A + 1 < ToFrames(b, fps)
  <2> DEFINE B == ToFrames(b, fps)
  <2>1. B \in Int /\ 2 * (b * fps) + Second < 2 * Second * B + 2 * Second
    BY <1>1, FramesBound
  <2> HIDE DEF B
  <2>2. b * fps = fps * b /\ fps * b \in Int /\ Second * B \in Int /\ 2 * Second * B = 2 * (Second * B)
    BY <1>1, <2>1, TimesInt, SMT
  <2>3. fps * (t + 1 + Context) <= fps * b
    BY <1>1, <1>6, TimesMonotone
  <2>4. fps * (t + 1 + Context) = fps * t + fps + fps * Context
    BY <1>1, SMT
  <2>5. t * fps < B * Second
    <3>1. B * Second = Second * B
      BY <1>1, <2>1, SMT
    <3> QED
      BY <1>1, <1>4, <2>1, <2>2, <2>3, <2>4, <3>1
  <2>6. x + Window + Context <= b
    <3>1. w * Window \in Int /\ 0 <= w * Window
      <4>1. Window * 0 <= Window * w /\ Window * 0 = 0 /\ Window * w = w * Window /\ Window * w \in Int
        BY <1>1, TimesMonotone, TimesInt, SMT
      <4> QED
        BY <4>1
    <3> QED
      BY <1>1, <1>6, <3>1
  <2>7. fps * (x + Window + Context) <= fps * b
    BY <1>1, <2>6, TimesMonotone
  <2>8. fps * (x + Window + Context) = fps * x + fps * Window + fps * Context
    BY <1>1, SMT
  <2>9. Second * (A + 1) < Second * B
    <3>1. Second * (A + 1) = A * Second + Second
      BY <1>1, <1>2, SMT
    <3> QED
      BY <1>1, <1>2, <1>4, <2>1, <2>2, <2>7, <2>8, <3>1
  <2>10. A + 1 < B
    BY <1>1, <1>2, <2>1, <2>9, TimesStrict
  <2> QED
    BY <2>1, <2>5, <2>10 DEF B
<1> QED
  BY <1>2, <1>5, <1>6 DEF A

\* What is kept around a word is enough of it: half a frame, and two frames with the
\* shortest word.
ContextShows ==
    \A r \in Recordings :
        /\ 2 * Context * r.rate >= Second
        /\ (Window + Context) * r.rate >= 2 * Second

\* A word that comes before the end of what is shown is shown.
LEMMA WordShown ==
    ASSUME ContextShows, NEW s, s.duration \in Int,
           NEW content, content.cuts = ProposedCuts(s), content.offset \in Int,
           content.offset >= 0, NEW media \in Footage, NEW into,
           NEW t \in Nat, t \div Window \in (0 .. Windows - 1) \ s.silent,
           NEW q \in Preview(content, media, into), q.role = "screen_audio",
           t * q.rate < q.to * Second
    PROVE  \E p \in Preview(content, media, into) :
              /\ p.role = "screen_audio"
              /\ p.from * Second <= t * p.rate /\ t * p.rate < (p.to + 1) * Second
<1> DEFINE cuts == content.cuts
           offset == content.offset
           n == Len(cuts)
           duration == SourceDuration(offset, media)
           after(i) == IF i = 1 THEN 0 ELSE cuts[i - 1].end
           before(i) == IF i = n + 1 THEN duration ELSE cuts[i].start
           w == t \div Window
           clip == media["screen"]
           fps == clip.rate
           role == "screen_audio"
<1>1. /\ Window \in Nat \ {0} /\ Context \in Nat /\ Second \in Nat \ {0}
      /\ w \in Nat /\ w * Window <= t
  <2>1. Window \in Nat \ {0} /\ t \in Int
    BY CutAssumption
  <2>2. w \in Nat /\ Window * w <= t
    BY <2>1, Quotient
  <2> HIDE DEF w
  <2>3. Window * w = w * Window
    BY <2>1, <2>2, SMT
  <2> QED
    BY <2>1, <2>2, <2>3, CutAssumption, SecondAssumption
<1>2. /\ cuts \in Seq(Cut) /\ n \in Nat /\ DOMAIN cuts = 1 .. n
      /\ \A i \in 1 .. n : cuts[i].start \in Int /\ cuts[i].end \in Int
  <2>1. cuts \in Seq(Cut)
    BY Proposed
  <2> HIDE DEF cuts
  <2>2. n \in Nat /\ DOMAIN cuts = 1 .. n /\ \A i \in 1 .. n : cuts[i] \in Cut
    BY <2>1
  <2> QED
    BY <2>1, <2>2 DEF Cut
<1>3. \A i \in 1 .. n :
         \/ t + 1 + Context <= cuts[i].start /\ w * Window + Window + Context <= cuts[i].start
         \/ cuts[i].end <= t - Context /\ cuts[i].end <= w * Window - Context
  <2>1. SUFFICES ASSUME NEW i \in 1 .. n
                 PROVE  \/ /\ t + 1 + Context <= cuts[i].start
                           /\ w * Window + Window + Context <= cuts[i].start
                        \/ cuts[i].end <= t - Context /\ cuts[i].end <= w * Window - Context
    OBVIOUS
  <2>2. PICK run \in Runs(s) : cuts[i] = CutOf(s, run)
    BY <1>2, Proposed
  <2>3. w \notin s.silent
    OBVIOUS
  <2> QED
    BY <2>2, <2>3, WordApart
<1>4. duration \in Int /\ CutsValid(cuts, duration)
  BY DurationType DEF Preview
<1>5. /\ StartOf(offset, RecordingOf[role]) = 0 /\ RecordingOf[role] = "screen"
      /\ role \in Roles
  <2>1. RecordingOf[role] = "screen" /\ role \in Roles
    BY DEF RecordingOf, Roles
  <2> QED
    BY <2>1 DEF StartOf, Largest
<1>6. /\ fps \in Nat \ {0} /\ Length(clip) \in Int
      /\ 2 * Context * fps >= Second /\ (Window + Context) * fps >= 2 * Second
  BY Recorded DEF ContextShows
<1>7. Preview(content, media, into) = Placements(Kept(cuts, duration), offset, media, into)
  BY <1>4 DEF Preview
<1>8. Kept(cuts, duration) =
         {[start |-> after(i), end |-> before(i), output |-> after(i) - Removed(cuts, i)]
             : i \in {j \in 1 .. n + 1 : after(j) < before(j)}}
  BY DEF Kept
<1> HIDE DEF cuts, n, duration, w, clip, fps
\* Every interval says where its placement begins and ends.
<1>9. ASSUME NEW interval,
             NEW p, p = Placement(interval, role, offset, media, into)
      PROVE  /\ p.role = role /\ p.rate = fps
             /\ p.shown <=> Largest(interval.start, 0) < Smallest(interval.end, 0 + Length(clip))
             /\ p.from = ToFrames(Largest(interval.start, 0) - 0, fps)
             /\ p.to = ToFrames(Smallest(interval.end, 0 + Length(clip)) - 0, fps) - 1
  BY <1>5, <1>9 DEF Placement, clip, fps
<1>10. PICK interval \in Kept(cuts, duration) :
          q = Placement(interval, role, offset, media, into) /\ q.shown /\ q.to > q.from
  <2>1. PICK interval \in Kept(cuts, duration), r \in Roles :
           q = Placement(interval, r, offset, media, into) /\ q.shown /\ q.to > q.from
    BY <1>7 DEF Placements
  <2>2. q.role = r
    BY <2>1 DEF Placement
  <2> QED
    BY <2>1, <2>2
<1>11. PICK k \in 1 .. n + 1 :
          /\ after(k) < before(k) /\ interval.start = after(k) /\ interval.end = before(k)
  BY <1>8
<1> DEFINE Around == {j \in Nat : j \in 1 .. n + 1 /\ (j = n + 1 \/ t < cuts[j].start)}
<1>12. PICK i \in Around : \A j \in Around : i <= j
  <2>1. n + 1 \in Around /\ Around \in SUBSET Nat
    BY <1>2
  <2> HIDE DEF Around
  <2> QED
    BY <2>1, Least
<1>13. i \in 1 .. n + 1 /\ i \in Nat /\ \A j \in 1 .. n : j < i => cuts[j].start <= t
  <2>1. i \in 1 .. n + 1 /\ i \in Nat
    OBVIOUS
  <2>2. ASSUME NEW j \in 1 .. n, j < i
        PROVE  cuts[j].start <= t
    <3>1. j \notin Around
      BY <1>2, <1>12, <2>1, <2>2
    <3> QED
      BY <1>2, <2>1, <3>1
  <2> QED
    BY <2>1, <2>2
<1> DEFINE x == Largest(after(i), 0)
<1>14. x \in Nat /\ x <= t /\ (x = 0 \/ (x <= t - Context /\ x <= w * Window - Context)) /\ after(i) <= t
  <2>1. CASE i = 1
    BY <2>1 DEF Largest
  <2>2. CASE i # 1
    <3>1. i - 1 \in 1 .. n /\ i - 1 < i
      BY <1>2, <1>13, <2>2
    <3>2. cuts[i - 1].end <= t - Context /\ cuts[i - 1].end <= w * Window - Context
      <4> DEFINE c == cuts[i - 1]
      <4>1. c.start <= t /\ c.start \in Int
        BY <1>2, <1>13, <3>1
      <4>2. \/ t + 1 + Context <= c.start /\ w * Window + Window + Context <= c.start
            \/ c.end <= t - Context /\ c.end <= w * Window - Context
        BY <1>3, <3>1
      <4> HIDE DEF c
      <4>3. c.end <= t - Context /\ c.end <= w * Window - Context
        BY <1>1, <4>1, <4>2
      <4> QED
        BY <4>3 DEF c
    <3> QED
      BY <1>1, <1>2, <2>2, <3>1, <3>2 DEF Largest
  <2> QED
    BY <2>1, <2>2
<1>15. /\ ToFrames(x, fps) \in Int /\ ToFrames(x, fps) * Second <= t * fps
       /\ \A b \in Int :
             t + 1 + Context <= b /\ w * Window + Window + Context <= b =>
                /\ ToFrames(b, fps) \in Int /\ t * fps < ToFrames(b, fps) * Second
                /\ ToFrames(x, fps) + 1 < ToFrames(b, fps)
  <2> HIDE DEF x
  <2> QED
    BY <1>1, <1>6, <1>14, WordFits
<1>16. /\ interval.start \in Int /\ interval.end \in Int
  BY <1>2, <1>4, KeptApart
<1>17. q.rate = fps /\ q.to \in Int
  <2>1. q.to = ToFrames(Smallest(interval.end, 0 + Length(clip)) - 0, fps) - 1
    BY <1>9, <1>10
  <2> DEFINE u == Smallest(interval.end, 0 + Length(clip)) - 0
  <2>2. u \in Int /\ fps \in Int
    BY <1>6, <1>16 DEF Smallest
  <2> HIDE DEF u
  <2>3. ToFrames(u, fps) \in Int
    BY <2>2, FramesBound
  <2> QED
    BY <1>9, <1>10, <2>1, <2>3 DEF u
<1>18. CASE k < i
  <2>1. k \in 1 .. n /\ k # n + 1
    BY <1>2, <1>13, <1>18
  <2>2. interval.end <= t
    BY <1>2, <1>11, <1>13, <1>18, <2>1
  <2>3. 2 * (q.to + 1) * Second <= 2 * (t - 0) * q.rate + Second
    <3>1. t \in Int /\ offset \in Int
      OBVIOUS
    <3> QED
      BY <1>5, <1>10, <1>16, <2>2, <3>1, Placed
  <2>4. /\ t * fps \in Int /\ q.to * Second \in Int
        /\ 2 * (q.to + 1) * Second = 2 * (q.to * Second) + 2 * Second
        /\ 2 * (t - 0) * fps = 2 * (t * fps)
    BY <1>1, <1>6, <1>17, TimesInt, SMT
  <2>5. t * fps < q.to * Second
    BY <1>17
  <2> QED
    BY <1>1, <1>17, <2>3, <2>4, <2>5
<1>19. CASE k = i
  <2>1. q.from = ToFrames(x, fps)
    <3>1. Largest(interval.start, 0) - 0 = x
      BY <1>11, <1>14, <1>19
    <3> QED
      BY <1>9, <1>10, <3>1
  <2>2. q.from * Second <= t * q.rate
    BY <1>15, <1>17, <2>1
  <2>3. t * q.rate < (q.to + 1) * Second
    <3>1. (q.to + 1) * Second = q.to * Second + Second /\ q.to * Second \in Int /\ t * fps \in Int
      BY <1>1, <1>6, <1>17, TimesInt, SMT
    <3>2. t * fps < q.to * Second
      BY <1>17
    <3> QED
      BY <1>1, <1>17, <3>1, <3>2
  <2> QED
    BY <2>2, <2>3
<1>20. CASE k > i
  <2>1. i \in 1 .. n /\ i # n + 1 /\ k - 1 \in 1 .. n /\ k # 1 /\ i <= k - 1
    BY <1>2, <1>13, <1>20
  <2> DEFINE b == cuts[i].start
  <2>2. b \in Int /\ t < b
    BY <1>2, <1>12, <2>1
  <2>3. t + 1 + Context <= b /\ w * Window + Window + Context <= b
    <3>1. cuts[i].start < cuts[i].end
      BY <1>2, <1>4, <2>1 DEF CutsValid
    <3> QED
      BY <1>1, <1>2, <1>3, <2>1, <2>2, <3>1
  <2>4. b < after(k)
    <3>1. cuts[i].start < cuts[i].end /\ cuts[k - 1].start < cuts[k - 1].end
      BY <1>2, <1>4, <2>1 DEF CutsValid
    <3>2. i # k - 1 => cuts[i].end <= cuts[k - 1].start
      <4>1. SUFFICES ASSUME i # k - 1
                     PROVE  cuts[i].end <= cuts[k - 1].start
        OBVIOUS
      <4>2. i < k - 1 /\ i \in DOMAIN cuts /\ k - 1 \in DOMAIN cuts
        BY <1>2, <2>1, <4>1
      <4> QED
        BY <1>2, <1>4, <4>2, CutsApart
    <3> QED
      BY <1>2, <2>1, <3>1, <3>2
  <2>5. b < Length(clip)
    <3>1. Largest(interval.start, 0) < Smallest(interval.end, 0 + Length(clip))
      BY <1>9, <1>10
    <3> QED
      BY <1>6, <1>11, <1>16, <2>2, <2>4, <3>1 DEF Largest, Smallest
  <2> DEFINE I == [start |-> after(i), end |-> before(i), output |-> after(i) - Removed(cuts, i)]
             p == Placement(I, role, offset, media, into)
  <2>6. before(i) = b /\ after(i) < b
    <3>1. before(i) = b
      BY <2>1
    <3>2. after(i) \in Int
      BY <1>2, <1>13
    <3> QED
      BY <1>14, <2>2, <3>1, <3>2
  <2>7. I \in Kept(cuts, duration)
    BY <1>8, <1>13, <2>6
  <2>8. /\ p.role = role /\ p.rate = fps
        /\ p.shown <=> Largest(I.start, 0) < Smallest(I.end, 0 + Length(clip))
        /\ p.from = ToFrames(Largest(I.start, 0) - 0, fps)
        /\ p.to = ToFrames(Smallest(I.end, 0 + Length(clip)) - 0, fps) - 1
    <3> HIDE DEF I
    <3> QED
      BY <1>9
  <2>9. I.start = after(i) /\ I.end = b
    BY <2>6
  <2>10. Largest(I.start, 0) - 0 = x /\ Largest(I.start, 0) = x
    BY <1>14, <2>9
  <2>11. Smallest(I.end, 0 + Length(clip)) - 0 = b /\ Smallest(I.end, 0 + Length(clip)) = b
    BY <1>6, <2>2, <2>5, <2>9 DEF Smallest
  <2> HIDE DEF I, p, b
  <2>12. /\ ToFrames(b, fps) \in Int /\ t * fps < ToFrames(b, fps) * Second
         /\ ToFrames(x, fps) + 1 < ToFrames(b, fps)
    BY <1>15, <2>2, <2>3
  <2>13. p.shown /\ p.from = ToFrames(x, fps) /\ p.to = ToFrames(b, fps) - 1
    BY <1>14, <2>2, <2>8, <2>10, <2>11
  <2>14. p.to > p.from /\ p.to + 1 = ToFrames(b, fps)
    BY <1>15, <2>12, <2>13
  <2>15. p \in Preview(content, media, into)
    BY <1>5, <1>7, <2>7, <2>13, <2>14 DEF Placements, p
  <2>16. p.from * Second <= t * p.rate /\ t * p.rate < (p.to + 1) * Second
    BY <1>15, <2>8, <2>12, <2>13, <2>14
  <2> QED
    BY <2>8, <2>15, <2>16
<1> QED
  BY <1>13, <1>18, <1>19, <1>20

\* Where a window is a whole number of samples, the window that a moment is heard in is
\* the one that it is timed in.
LEMMA HeardWhereTimed ==
    ASSUME NEW sampleRate \in Nat \ {0}, (sampleRate * Window) % Second = 0, NEW t \in Nat
    PROVE  ((t * sampleRate) \div Second) \div WindowSamples(sampleRate) = t \div Window
<1> DEFINE n == (sampleRate * Window) \div Second
           x == (t * sampleRate) \div Second
           y == x \div n
           z == t \div Window
<1>1. Second \in Nat \ {0} /\ Window \in Nat \ {0} /\ t \in Int /\ sampleRate \in Int
  BY CutAssumption, SecondAssumption
<1>2. /\ sampleRate * Window \in Int /\ t * sampleRate \in Int
      /\ 0 < sampleRate * Window
  <2>1. sampleRate * 0 < sampleRate * Window
    BY <1>1, SMT
  <2> QED
    BY <1>1, <2>1, TimesInt, SMT
<1>3. n \in Int /\ sampleRate * Window = Second * n
  <2> DEFINE a == sampleRate * Window
  <2>1. a \in Int /\ a % Second = 0
    BY <1>2
  <2> HIDE DEF a
  <2>2. a \div Second \in Int /\ a = Second * (a \div Second) + (a % Second)
    BY <1>1, <2>1, SMT
  <2>3. Second * (a \div Second) \in Int
    BY <1>1, <2>2, TimesInt
  <2> QED
    BY <2>1, <2>2, <2>3 DEF a
<1>4. x \in Int /\ Second * x <= t * sampleRate /\ t * sampleRate < Second * x + Second
  BY <1>1, <1>2, Quotient
<1>5. z \in Int /\ Window * z <= t /\ t < Window * z + Window
  BY <1>1, Quotient
<1> HIDE DEF n, x, z
<1>6. n \in Nat \ {0}
  <2>1. Second * 0 = 0 /\ Second * 0 < Second * n
    BY <1>1, <1>2, <1>3
  <2>2. 0 < n
    BY <1>1, <1>3, <2>1, TimesStrict
  <2> QED
    BY <1>3, <2>2
<1>7. y \in Int /\ n * y <= x /\ x < n * y + n
  BY <1>4, <1>6, Quotient
<1> HIDE DEF y
\* Second * n windows of samples are sampleRate * Window of ticks.
<1>8. ASSUME NEW k \in Int
      PROVE  Second * (n * k) = sampleRate * (Window * k)
  <2>1. Second * (n * k) = (Second * n) * k /\ sampleRate * (Window * k) = (sampleRate * Window) * k
    BY <1>1, <1>3, SMT
  <2> QED
    BY <1>3, <2>1
<1>9. Window * y <= t
  <2>1. Second * (n * y) <= Second * x
    BY <1>1, <1>4, <1>6, <1>7, TimesInt, TimesMonotone
  <2>2. sampleRate * (Window * y) = Second * (n * y)
    BY <1>7, <1>8
  <2>3. /\ Second * (n * y) \in Int /\ Second * x \in Int /\ Window * y \in Int
        /\ t * sampleRate = sampleRate * t /\ sampleRate * (t + 1) = sampleRate * t + sampleRate
    BY <1>1, <1>4, <1>6, <1>7, TimesInt, SMT
  <2>4. sampleRate * (Window * y) < sampleRate * (t + 1)
    BY <1>2, <1>4, <2>1, <2>2, <2>3
  <2>5. Window * y < t + 1
    BY <1>1, <2>3, <2>4, TimesStrict
  <2> QED
    BY <1>1, <2>3, <2>5
<1>10. t < Window * y + Window
  <2>1. x + 1 <= n * (y + 1) /\ n * (y + 1) \in Int /\ x + 1 \in Int /\ y + 1 \in Int
    <3>1. n * (y + 1) = n * y + n /\ n * y \in Int
      BY <1>6, <1>7, TimesInt, SMT
    <3> QED
      BY <1>4, <1>6, <1>7, <3>1
  <2>2. Second * (x + 1) <= Second * (n * (y + 1)) /\ Second * (x + 1) = Second * x + Second
    BY <1>1, <1>4, <2>1, TimesMonotone, SMT
  <2>3. Second * (n * (y + 1)) = sampleRate * (Window * (y + 1))
    BY <1>8, <2>1
  <2>4. /\ Window * (y + 1) = Window * y + Window /\ Window * (y + 1) \in Int
        /\ t * sampleRate = sampleRate * t /\ Second * x \in Int
        /\ sampleRate * (Window * (y + 1)) \in Int
    BY <1>1, <1>4, <1>7, <2>1, TimesInt, SMT
  <2>5. sampleRate * t < sampleRate * (Window * (y + 1))
    BY <1>1, <1>2, <1>4, <2>2, <2>3, <2>4
  <2>6. t < Window * (y + 1)
    BY <1>1, <2>4, <2>5, TimesStrict
  <2> QED
    BY <2>4, <2>6
<1>11. y = z
  <2>1. /\ Window * z < Window * y + Window /\ Window * y < Window * z + Window
    <3>1. Window * z \in Int /\ Window * y \in Int
      BY <1>1, <1>5, <1>7, TimesInt
    <3> QED
      BY <1>1, <1>5, <1>9, <1>10, <3>1
  <2> QED
    BY <1>1, <1>5, <1>7, <2>1, Pinned
<1>12. WindowSamples(sampleRate) = n
  <2>1. Largest(1, n) = n
    BY <1>6 DEF Largest
  <2> QED
    BY <2>1 DEF WindowSamples, n
<1> QED
  BY <1>11, <1>12 DEF x, y, z

\* What the invariant of the cut says of words.
LEMMA WordsShown ==
    ASSUME CInv, ContextShows
    PROVE  OnlySilenceIsCut
<1> DEFINE sound == OfRole(inserted, "screen_audio")
<1> SUFFICES ASSUME approval.cuts = ProposedCuts(speech), approval.offset >= 0, ExactWindows,
                    NEW t \in 0 .. speech.duration - 1, NEW q \in sound,
                    Speaks(t), t * q.rate < q.to * Second
             PROVE  \E p \in sound : p.from * Second <= t * p.rate /\ t * p.rate < (p.to + 1) * Second
  BY DEF OnlySilenceIsCut
<1>1. compaction.status # "none" /\ inserted = compaction.preview
  BY DEF OfRole, CInv, CutTypeOK
<1>2. PICK media \in Footage : compaction.preview = Preview(approval, media, compaction.rate)
  BY <1>1 DEF CInv, ReceiptOK
<1>3. approval.offset \in Int /\ speech.duration \in Int /\ t \in Nat
  BY DEF CInv, PlanOK, CutTypeOK
<1>4. q \in Preview(approval, media, compaction.rate) /\ q.role = "screen_audio"
  BY <1>1, <1>2 DEF OfRole
<1>5. t \div Window \in (0 .. Windows - 1) \ speech.silent
  <2>1. speech.sampleRate \in Nat \ {0}
    BY CutAssumption DEF CInv, CutTypeOK
  <2>2. ((t * speech.sampleRate) \div Second) \div WindowSamples(speech.sampleRate) = t \div Window
    BY <1>3, <2>1, HeardWhereTimed DEF ExactWindows
  <2> QED
    BY <2>2 DEF Speaks
<1>6. \E p \in Preview(approval, media, compaction.rate) :
         /\ p.role = "screen_audio"
         /\ p.from * Second <= t * p.rate /\ t * p.rate < (p.to + 1) * Second
  BY <1>3, <1>4, <1>5, WordShown
<1> QED
  BY <1>1, <1>2, <1>6 DEF OfRole

-----------------------------------------------------------------------------
(* Steps of a cut *)

\* Between a time and its frame there is at most half a frame.
LEMMA NearFrame ==
    ASSUME NEW t \in Int, NEW fps \in Nat
    PROVE  /\ ToFrames(t, fps) \in Int
           /\ -Second <= 2 * (ToFrames(t, fps) * Second - t * fps)
           /\ 2 * (ToFrames(t, fps) * Second - t * fps) <= Second
<1> DEFINE g == ToFrames(t, fps)
<1>1. Second \in Nat \ {0} /\ fps \in Int
  BY SecondAssumption
<1>2. /\ g \in Int /\ 2 * Second * g <= 2 * (t * fps) + Second
      /\ 2 * (t * fps) + Second < 2 * Second * g + 2 * Second
  BY <1>1, FramesBound
<1> HIDE DEF g
<1>3. 2 * Second * g = 2 * (g * Second) /\ g * Second \in Int /\ t * fps \in Int
  BY <1>1, <1>2, TimesInt, SMT
<1>4. -Second <= 2 * (g * Second - t * fps) /\ 2 * (g * Second - t * fps) <= Second
  BY <1>1, <1>2, <1>3
<1> QED
  BY <1>2, <1>4 DEF g

\* The recordings of a pair begin as far apart as their offset says.
LEMMA PairsApart ==
    ASSUME NEW o \in Int, NEW fps \in Nat
    PROVE  LET apart == PairPosition(o, "webcam", fps) - PairPosition(o, "screen", fps)
           IN  -Second <= 2 * (apart * Second - o * fps) /\ 2 * (apart * Second - o * fps) <= Second
<1> DEFINE apart == PairPosition(o, "webcam", fps) - PairPosition(o, "screen", fps)
           f == ToFrames(o, fps)
           g == ToFrames(-o, fps)
<1>1. Second \in Nat \ {0} /\ fps \in Int /\ -o \in Int
  BY SecondAssumption
<1>2. ToFrames(0, fps) = 0
  BY <1>1 DEF ToFrames
<1>3. /\ f \in Int /\ -Second <= 2 * (f * Second - o * fps) /\ 2 * (f * Second - o * fps) <= Second
      /\ g \in Int /\ -Second <= 2 * (g * Second - (-o) * fps)
      /\ 2 * (g * Second - (-o) * fps) <= Second
  BY <1>1, NearFrame
<1>4. CASE o >= 0
  <2>1. StartOf(o, "webcam") = o /\ StartOf(o, "screen") = 0
    BY <1>4 DEF StartOf, Largest
  <2>2. apart = f - 0
    BY <1>2, <2>1 DEF PairPosition
  <2>3. apart = f
    BY <1>3, <2>2
  <2> QED
    BY <1>3, <2>3
<1>5. CASE o < 0
  <2>1. StartOf(o, "webcam") = 0 /\ StartOf(o, "screen") = -o
    BY <1>5 DEF StartOf, Largest
  <2>2. apart = 0 - g
    BY <1>2, <2>1 DEF PairPosition
  <2> HIDE DEF apart, g
  <2>3. apart * Second = -(g * Second) /\ (-o) * fps = -(o * fps)
    BY <1>1, <1>3, <2>2, SMT
  <2>4. g * Second \in Int /\ o * fps \in Int
    BY <1>1, <1>3, TimesInt
  <2>5. -Second <= 2 * (apart * Second - o * fps) /\ 2 * (apart * Second - o * fps) <= Second
    BY <1>1, <1>3, <2>3, <2>4
  <2> QED
    BY <2>5 DEF apart
<1> QED
  BY <1>4, <1>5

\* What is kept moves forward and stays in order: an interval that begins later also
\* comes later in the output, behind all of the one before, and no two begin together.
LEMMA KeptOrder ==
    ASSUME NEW cuts \in Seq(Cut), NEW duration \in Int, CutsValid(cuts, duration),
           NEW I \in Kept(cuts, duration), NEW J \in Kept(cuts, duration)
    PROVE  /\ I.output \in Int /\ I.start < I.end
           /\ I.start = J.start => I = J
           /\ I.start < J.start => I.output + (I.end - I.start) <= J.output
<1> DEFINE n == Len(cuts)
           after(i) == IF i = 1 THEN 0 ELSE cuts[i - 1].end
           before(i) == IF i = n + 1 THEN duration ELSE cuts[i].start
           lengths == [j \in DOMAIN cuts |-> cuts[j].end - cuts[j].start]
           sums == Sums(lengths)
           e(k) == cuts[k].start - sums[k - 1]
           interval(k) == [start |-> after(k), end |-> before(k), output |-> after(k) - sums[k - 1]]
<1>1. n \in Nat /\ DOMAIN cuts = 1 .. n
  OBVIOUS
<1>2. \A i \in 1 .. n :
         /\ cuts[i].start \in Int /\ cuts[i].end \in Int
         /\ cuts[i].start < cuts[i].end
         /\ cuts[i].start >= after(i)
  <2>1. SUFFICES ASSUME NEW i \in 1 .. n
                 PROVE  cuts[i].start \in Int /\ cuts[i].end \in Int
    BY <1>1 DEF CutsValid
  <2>2. cuts[i] \in Cut
    OBVIOUS
  <2> QED
    BY <2>2 DEF Cut
<1>3. \A a, b \in 1 .. n : a < b => cuts[a].end <= cuts[b].start
  BY <1>1, CutsApart
<1>4. /\ sums \in [0 .. n -> Int] /\ sums[0] = 0
      /\ \A k \in 1 .. n : sums[k] = sums[k - 1] + (cuts[k].end - cuts[k].start)
  <2>1. lengths \in [1 .. n -> Int]
    BY <1>1, <1>2
  <2>2. \A k \in 1 .. n : lengths[k] = cuts[k].end - cuts[k].start
    BY <1>1
  <2> HIDE DEF lengths
  <2>3. lengths \in Seq(Int) /\ Len(lengths) = n /\ DOMAIN lengths = 1 .. n
    BY <1>1, <2>1
  <2> QED
    BY <2>2, <2>3, SumsAre
<1>5. PICK i \in 1 .. n + 1 : I = interval(i) /\ after(i) < before(i)
  BY DEF Kept, Removed
<1>6. PICK j \in 1 .. n + 1 : J = interval(j) /\ after(j) < before(j)
  BY DEF Kept, Removed
<1> HIDE DEF sums, n
<1>7. \A k \in 1 .. n + 1 : after(k) \in Int /\ before(k) \in Int /\ sums[k - 1] \in Int
  <2>1. SUFFICES ASSUME NEW k \in 1 .. n + 1
                 PROVE  after(k) \in Int /\ before(k) \in Int /\ sums[k - 1] \in Int
    OBVIOUS
  <2>2. k # 1 => k - 1 \in 1 .. n
    BY <1>1
  <2>3. k # n + 1 => k \in 1 .. n
    BY <1>1
  <2>4. k - 1 \in 0 .. n
    BY <1>1
  <2> QED
    BY <1>2, <1>4, <2>2, <2>3, <2>4
<1>8. ASSUME NEW a \in 1 .. n + 1, NEW b \in 1 .. n + 1, a < b
      PROVE  before(a) <= after(b)
  <2>1. a \in 1 .. n /\ b - 1 \in 1 .. n /\ b # 1 /\ a # n + 1 /\ (a = b - 1 \/ a < b - 1)
    BY <1>1, <1>8
  <2>2. before(a) = cuts[a].start /\ after(b) = cuts[b - 1].end
    BY <2>1
  <2>3. CASE a = b - 1
    BY <1>2, <2>1, <2>2, <2>3
  <2>4. CASE a < b - 1
    <3>1. cuts[a].end <= cuts[b - 1].start
      BY <1>3, <2>1, <2>4
    <3>2. /\ cuts[a].start \in Int /\ cuts[a].end \in Int /\ cuts[a].start < cuts[a].end
          /\ cuts[b - 1].start \in Int /\ cuts[b - 1].end \in Int
          /\ cuts[b - 1].start < cuts[b - 1].end
      BY <1>2, <2>1
    <3> QED
      BY <2>2, <3>1, <3>2
  <2> QED
    BY <2>1, <2>3, <2>4
<1>9. ASSUME NEW k \in Nat, k >= 1, k + 1 <= n
      PROVE  e(k) <= e(k + 1)
  <2>1. k \in 1 .. n /\ k + 1 \in 1 .. n /\ k + 1 # 1 /\ (k + 1) - 1 = k /\ k - 1 \in 0 .. n
    BY <1>1, <1>9
  <2>2. cuts[k + 1].start >= cuts[k].end
    BY <1>2, <2>1
  <2>3. sums[k] = sums[k - 1] + (cuts[k].end - cuts[k].start) /\ sums[k - 1] \in Int
    BY <1>4, <2>1
  <2>4. cuts[k].start \in Int /\ cuts[k].end \in Int /\ cuts[k + 1].start \in Int
    BY <1>2, <2>1
  <2>5. e(k) = cuts[k].start - sums[k - 1] /\ e(k + 1) = cuts[k + 1].start - sums[k]
    BY <2>1
  <2> DEFINE a == sums[k - 1]
             b == sums[k]
             c == cuts[k].start
             d == cuts[k].end
             f == cuts[k + 1].start
  <2> HIDE DEF e, a, b, c, d, f
  <2>6. /\ a \in Int /\ c \in Int /\ d \in Int /\ f \in Int /\ f >= d /\ b = a + (d - c)
        /\ e(k) = c - a /\ e(k + 1) = f - b
    BY <2>2, <2>3, <2>4, <2>5 DEF a, b, c, d, f
  <2> QED
    BY <2>6
<1>10. \A k \in 1 .. n : e(k) \in Int
  <2>1. SUFFICES ASSUME NEW k \in 1 .. n PROVE e(k) \in Int
    OBVIOUS
  <2>2. k - 1 \in 0 .. n
    BY <1>1
  <2>3. sums[k - 1] \in Int /\ cuts[k].start \in Int
    BY <1>2, <1>4, <2>2
  <2> QED
    BY <2>3
<1>11. ASSUME NEW a \in 1 .. n, NEW b \in 1 .. n, a <= b
       PROVE  e(a) <= e(b)
  <2> HIDE DEF e
  <2> DEFINE Bad == {k \in Nat : k >= a /\ k <= n /\ ~(e(a) <= e(k))}
  <2>1. a \in Nat /\ b \in Nat /\ a >= 1 /\ b <= n
    BY <1>1
  <2>2. SUFFICES ASSUME Bad # {} PROVE FALSE
    BY <1>11, <2>1
  <2>3. PICK k \in Bad : \A l \in Bad : k <= l
    <3>1. Bad \in SUBSET Nat
      OBVIOUS
    <3> HIDE DEF Bad
    <3> QED
      BY <2>2, <3>1, Least
  <2>4. k # a
    BY <1>10
  <2>5. k - 1 \in Nat /\ k - 1 >= a /\ k - 1 >= 1 /\ (k - 1) + 1 = k /\ k <= n /\ ~(k <= k - 1)
        /\ k \in 1 .. n /\ k - 1 \in 1 .. n
    BY <1>1, <2>1, <2>4
  <2>6. e(a) <= e(k - 1)
    BY <1>1, <2>3, <2>5
  <2>7. e(k - 1) <= e(k)
    BY <1>9, <2>5
  <2> QED
    BY <1>10, <2>3, <2>5, <2>6, <2>7
<1>12. I.output \in Int /\ I.start < I.end
  BY <1>5, <1>7
<1>13. ASSUME I.start = J.start
       PROVE  i = j
  <2>1. after(i) = after(j)
    BY <1>5, <1>6, <1>13
  <2>2. i \in Int /\ j \in Int
    BY <1>1
  <2>3. ~(i < j)
    <3>1. SUFFICES ASSUME i < j PROVE FALSE
      OBVIOUS
    <3>2. before(i) <= after(j)
      BY <1>8, <3>1
    <3> HIDE DEF before, after
    <3> QED
      BY <1>5, <1>7, <2>1, <3>2
  <2>4. ~(j < i)
    <3>1. SUFFICES ASSUME j < i PROVE FALSE
      OBVIOUS
    <3>2. before(j) <= after(i)
      BY <1>8, <3>1
    <3> HIDE DEF before, after
    <3> QED
      BY <1>6, <1>7, <2>1, <3>2
  <2> QED
    BY <2>2, <2>3, <2>4
<1>14. ASSUME I.start < J.start
       PROVE  I.output + (I.end - I.start) <= J.output
  <2>1. after(i) < after(j)
    BY <1>5, <1>6, <1>14
  <2>2. i \in Int /\ j \in Int
    BY <1>1
  <2>3. i < j
    <3>1. SUFFICES ASSUME ~(i < j) PROVE FALSE
      OBVIOUS
    <3>2. CASE i = j
      <4> HIDE DEF after
      <4> QED
        BY <1>7, <2>1, <3>2
    <3>3. CASE j < i
      <4>1. before(j) <= after(i)
        BY <1>8, <3>3
      <4> HIDE DEF before, after
      <4> QED
        BY <1>6, <1>7, <2>1, <4>1
    <3> QED
      BY <2>2, <3>1, <3>2, <3>3
  <2>4. /\ i \in 1 .. n /\ i # n + 1 /\ j # 1 /\ j - 1 \in 1 .. n /\ i <= j - 1
        /\ j - 1 \in Int /\ (j - 1) - 1 \in 0 .. n /\ i - 1 \in 0 .. n
    BY <1>1, <2>3
  <2>5. e(i) <= e(j - 1)
    BY <1>11, <2>4
  <2>6. before(i) = cuts[i].start /\ after(j) = cuts[j - 1].end
    BY <2>4
  <2>7. sums[j - 1] = sums[(j - 1) - 1] + (cuts[j - 1].end - cuts[j - 1].start)
    BY <1>4, <2>4
  <2>8. /\ sums[(j - 1) - 1] \in Int /\ sums[i - 1] \in Int /\ after(i) \in Int
        /\ cuts[i].start \in Int /\ cuts[j - 1].start \in Int /\ cuts[j - 1].end \in Int
    BY <1>2, <1>4, <1>7, <2>4
  <2>9. /\ I.start = after(i) /\ I.end = cuts[i].start /\ I.output = after(i) - sums[i - 1]
        /\ J.output = cuts[j - 1].end - sums[j - 1]
    BY <1>5, <1>6, <2>6
  <2>10. e(i) = cuts[i].start - sums[i - 1] /\ e(j - 1) = cuts[j - 1].start - sums[(j - 1) - 1]
    OBVIOUS
  <2> DEFINE a == sums[i - 1]
             b == sums[j - 1]
             c == sums[(j - 1) - 1]
             p == cuts[i].start
             q == cuts[j - 1].start
             r == cuts[j - 1].end
  <2> HIDE DEF e, after, before, a, b, c, p, q, r
  <2>11. /\ a \in Int /\ c \in Int /\ p \in Int /\ q \in Int /\ r \in Int /\ I.start \in Int
         /\ p - a <= q - c /\ b = c + (r - q)
         /\ I.end = p /\ I.output = I.start - a /\ J.output = r - b
    BY <2>5, <2>7, <2>8, <2>9, <2>10 DEF a, b, c, p, q, r
  <2> QED
    BY <2>11
<1> QED
  BY <1>5, <1>6, <1>12, <1>13, <1>14

\* What a placement is made of: a stretch of the common clock, x to y, inside an interval.
Stretch(p, interval, clip, start, into, x, y) ==
    /\ x \in Int /\ y \in Int /\ interval.start <= x /\ x < y /\ y <= interval.end
    /\ p.segment = interval.start /\ p.rate = clip.rate
    /\ p.from = ToFrames(x - start, clip.rate) /\ p.to + 1 = ToFrames(y - start, clip.rate)
    /\ p.position = ToFrames(interval.output + x - interval.start, into)

\* Every placement of a preview covers a stretch of what is kept.
LEMMA PlacedFrames ==
    ASSUME NEW content, content.offset \in Int, content.cuts \in Seq(Cut),
           NEW media \in Footage, NEW into,
           NEW p \in Preview(content, media, into)
    PROVE  LET duration == SourceDuration(content.offset, media)
           IN  /\ CutsValid(content.cuts, duration) /\ duration \in Int
               /\ p.role \in Roles /\ media[RecordingOf[p.role]].rate \in Nat \ {0}
               /\ p.from \in Int /\ p.to \in Int /\ p.from < p.to
               /\ \E interval \in Kept(content.cuts, duration) :
                     /\ interval.start \in Int /\ interval.end \in Int /\ interval.output \in Int
                     /\ p = Placement(interval, p.role, content.offset, media, into)
                     /\ \E x, y \in Int :
                           Stretch(p, interval, media[RecordingOf[p.role]],
                                   StartOf(content.offset, RecordingOf[p.role]), into, x, y)
<1> DEFINE offset == content.offset
           cuts == content.cuts
           duration == SourceDuration(offset, media)
<1>1. CutsValid(cuts, duration) /\ p \in Placements(Kept(cuts, duration), offset, media, into)
  BY DEF Preview
<1>2. duration \in Int
  BY DurationType
<1> HIDE DEF duration
<1>3. PICK interval \in Kept(cuts, duration), role \in Roles :
         p = Placement(interval, role, offset, media, into) /\ p.shown /\ p.to > p.from
  BY <1>1 DEF Placements
<1>4. interval.start \in Int /\ interval.end \in Int /\ interval.output \in Int
  BY <1>1, <1>2, KeptApart, KeptOrder
<1> DEFINE clip == media[RecordingOf[role]]
           start == StartOf(offset, RecordingOf[role])
           x == Largest(interval.start, start)
           y == Smallest(interval.end, start + Length(clip))
<1>5. RecordingOf[role] \in {"screen", "webcam"}
  BY DEF RecordingOf, Roles
<1>6. start \in Int /\ clip.rate \in Nat \ {0} /\ Length(clip) \in Int
  BY <1>5, StartType, Recorded
<1>7. /\ p.role = role /\ p.segment = interval.start /\ p.rate = clip.rate /\ (x < y)
      /\ p.from = ToFrames(x - start, clip.rate) /\ p.to = ToFrames(y - start, clip.rate) - 1
      /\ p.position = ToFrames(interval.output + x - interval.start, into)
  BY <1>3 DEF Placement
<1> HIDE DEF clip, start
<1>8. x \in Int /\ y \in Int /\ interval.start <= x /\ y <= interval.end
  BY <1>4, <1>6 DEF Largest, Smallest
<1> HIDE DEF x, y
<1>9. ToFrames(x - start, clip.rate) \in Int /\ ToFrames(y - start, clip.rate) \in Int
  <2>1. x - start \in Int /\ y - start \in Int /\ clip.rate \in Nat
    BY <1>6, <1>8
  <2> QED
    BY <2>1, NearFrame
<1>10. p.from \in Int /\ p.to \in Int /\ p.to + 1 = ToFrames(y - start, clip.rate)
  BY <1>7, <1>9
<1>11. Stretch(p, interval, clip, start, into, x, y)
  BY <1>7, <1>8, <1>10 DEF Stretch
<1>12. p = Placement(interval, p.role, offset, media, into) /\ p.role \in Roles
  BY <1>3, <1>7
<1>13. \E xx, yy \in Int : Stretch(p, interval, media[RecordingOf[p.role]],
                                   StartOf(offset, RecordingOf[p.role]), into, xx, yy)
  BY <1>7, <1>8, <1>11 DEF clip, start
<1>14. media[RecordingOf[p.role]].rate \in Nat \ {0}
  BY <1>6, <1>7 DEF clip
<1> QED
  BY <1>1, <1>2, <1>3, <1>4, <1>10, <1>12, <1>13, <1>14 DEF duration

\* How far a placement is moved: to within half a frame of its recording and of the
\* timeline, as far as its interval, o ticks.
LEMMA ShiftBound ==
    ASSUME NEW start \in Int, NEW x \in Int, NEW o \in Int,
           NEW a \in Nat \ {0}, NEW r \in Nat \ {0}
    PROVE  LET from == ToFrames(x - start, a)
               position == ToFrames(o + x, r)
               moved == start * a * r + from * Second * r - position * Second * a
           IN  /\ moved \in Int
               /\ -(Second * (r + a)) <= 2 * moved + 2 * (o * a * r)
               /\ 2 * moved + 2 * (o * a * r) <= Second * (r + a)
<1> DEFINE from == ToFrames(x - start, a)
           position == ToFrames(o + x, r)
           moved == start * a * r + from * Second * r - position * Second * a
           F == 2 * (from * Second - (x - start) * a)
           P == 2 * (position * Second - (o + x) * r)
<1>1. Second \in Nat \ {0} /\ Second \in Int /\ a \in Nat /\ r \in Nat /\ a \in Int /\ r \in Int
  BY SecondAssumption
<1>2. from \in Int /\ -Second <= F /\ F <= Second
  <2>1. x - start \in Int
    OBVIOUS
  <2> QED
    BY <1>1, <2>1, NearFrame
<1>3. position \in Int /\ -Second <= P /\ P <= Second
  <2>1. o + x \in Int
    OBVIOUS
  <2> QED
    BY <1>1, <2>1, NearFrame
<1> HIDE DEF from, position
<1>4. F \in Int /\ P \in Int
  <2>1. /\ from * Second \in Int /\ (x - start) * a \in Int
        /\ position * Second \in Int /\ (o + x) * r \in Int
    BY <1>1, <1>2, <1>3, TimesInt
  <2> QED
    BY <2>1
<1>5. r * F = 2 * (from * Second * r) - 2 * (x * a * r) + 2 * (start * a * r)
  BY <1>1, <1>2, SMT
<1>6. a * P = 2 * (position * Second * a) - 2 * (o * a * r) - 2 * (x * a * r)
  BY <1>1, <1>3, SMT
<1>7. /\ from * Second * r \in Int /\ x * a * r \in Int /\ start * a * r \in Int
      /\ position * Second * a \in Int /\ o * a * r \in Int
  BY <1>1, <1>2, <1>3, TimesInt
<1>8. 2 * moved + 2 * (o * a * r) = r * F - a * P
  BY <1>5, <1>6, <1>7
<1> HIDE DEF F, P
<1>9. /\ r * (-Second) <= r * F /\ r * F <= r * Second
      /\ a * (-Second) <= a * P /\ a * P <= a * Second
  BY <1>1, <1>2, <1>3, <1>4, TimesMonotone
<1>10. /\ r * (-Second) = -(r * Second) /\ a * (-Second) = -(a * Second)
       /\ Second * (r + a) = r * Second + a * Second
  BY <1>1, SMT
<1>11. r * F \in Int /\ a * P \in Int /\ r * Second \in Int /\ a * Second \in Int
  BY <1>1, <1>4, TimesInt
<1>12. /\ -(Second * (r + a)) <= r * F - a * P
       /\ r * F - a * P <= Second * (r + a)
  BY <1>9, <1>10, <1>11
<1>13. moved \in Int
  BY <1>7
<1> QED
  BY <1>8, <1>12, <1>13 DEF from, position

\* Two placements of one interval are together.
LEMMA Gathered ==
    ASSUME NEW U \in Int, NEW V \in Int, NEW o \in Int,
           NEW a \in Nat \ {0}, NEW b \in Nat \ {0}, NEW r \in Nat \ {0},
           -(Second * (r + a)) <= 2 * U + 2 * (o * a * r),
           2 * U + 2 * (o * a * r) <= Second * (r + a),
           -(Second * (r + b)) <= 2 * V + 2 * (o * b * r),
           2 * V + 2 * (o * b * r) <= Second * (r + b)
    PROVE  LET slack == Second * (r * (a + b) + 2 * a * b)
               apart == 2 * b * U - 2 * a * V
           IN  -slack <= apart /\ apart <= slack
<1> DEFINE A == 2 * U + 2 * (o * a * r)
           B == 2 * V + 2 * (o * b * r)
           M == Second * (r + a)
           N == Second * (r + b)
           slack == Second * (r * (a + b) + 2 * a * b)
           apart == 2 * b * U - 2 * a * V
<1>1. Second \in Int /\ a \in Int /\ b \in Int /\ r \in Int /\ a \in Nat /\ b \in Nat
  BY SecondAssumption
<1>2. A \in Int /\ B \in Int /\ M \in Int /\ N \in Int /\ -M \in Int /\ -N \in Int
  <2>1. /\ o * a * r \in Int /\ o * b * r \in Int
        /\ Second * (r + a) \in Int /\ Second * (r + b) \in Int
    BY <1>1, TimesInt
  <2> QED
    BY <2>1
<1>3. apart = b * A - a * B
  BY <1>1, SMT
<1>4. slack = b * M + a * N
  BY <1>1, SMT
<1> HIDE DEF A, B, M, N
<1>5. -M <= A /\ A <= M /\ -N <= B /\ B <= N
  BY DEF A, B, M, N
<1>6. /\ b * (-M) <= b * A /\ b * A <= b * M /\ a * (-N) <= a * B /\ a * B <= a * N
      /\ b * (-M) = -(b * M) /\ a * (-N) = -(a * N)
  BY <1>1, <1>2, <1>5, TimesMonotone, SMT
<1>7. b * A \in Int /\ a * B \in Int /\ b * M \in Int /\ a * N \in Int
  BY <1>1, <1>2, TimesInt
<1>8. -(b * M + a * N) <= b * A - a * B /\ b * A - a * B <= b * M + a * N
  BY <1>6, <1>7
<1> QED
  BY <1>3, <1>4, <1>8

\* Terms in another order.
LEMMA ThreeTerms ==
    ASSUME NEW x \in Int, NEW y \in Int, NEW z \in Int
    PROVE  z + x - y = (x - y) + z /\ x - z - y = (x - y) - z
  OBVIOUS

\* The leads cancel, the places on the common clock and on the screen's differ alike.
LEMMA MovedAlong ==
    ASSUME NEW a \in Int, NEW b \in Int, NEW r \in Int, NEW z \in Int,
           NEW A \in Int, NEW B \in Int,
           NEW c \in Int, NEW d \in Int, NEW e \in Int, NEW f \in Int
    PROVE  2 * b * (A - c * a * r) - 2 * a * (B - d * b * r) - 2 * a * b * r * (f - e)
              = 2 * b * (A + (z + e - c) * a * r) - 2 * a * (B + (z + f - d) * b * r)
<1>1. 2 * b * (A - c * a * r) = 2 * (b * A) - 2 * (a * b * r * c)
  BY SMT
<1>2. 2 * a * (B - d * b * r) = 2 * (a * B) - 2 * (a * b * r * d)
  BY SMT
<1>3. 2 * a * b * r * (f - e) = 2 * (a * b * r * f) - 2 * (a * b * r * e)
  BY SMT
<1>4. 2 * b * (A + (z + e - c) * a * r)
         = 2 * (b * A) + 2 * (a * b * r * z) + 2 * (a * b * r * e) - 2 * (a * b * r * c)
  BY SMT
<1>5. 2 * a * (B + (z + f - d) * b * r)
         = 2 * (a * B) + 2 * (a * b * r * z) + 2 * (a * b * r * f) - 2 * (a * b * r * d)
  BY SMT
<1>6. /\ b * A \in Int /\ a * B \in Int /\ a * b * r * c \in Int /\ a * b * r * d \in Int
      /\ a * b * r * e \in Int /\ a * b * r * f \in Int /\ a * b * r * z \in Int
  BY TimesInt
<1> QED
  BY <1>1, <1>2, <1>3, <1>4, <1>5, <1>6

\* How far what is filled may reach over what begins at its end, or later.
LEMMA OverrunBound ==
    ASSUME NEW x \in Int, NEW y \in Int, NEW start \in Int, NEW t \in Int, NEW u \in Int,
           t + (y - x) <= u, NEW a \in Nat \ {0}, NEW r \in Nat \ {0}
    PROVE  LET n == ToFrames(y - start, a) - ToFrames(x - start, a)
               over == ToFrames(t, r) + Refit(n, a, r) - ToFrames(u, r)
           IN  /\ a = r => over <= 1
               /\ 2 * a * over < 3 * a + 2 * r
<1> DEFINE E == ToFrames(y - start, a)
           A == ToFrames(x - start, a)
           n == E - A
           P == ToFrames(t, r)
           Q == ToFrames(u, r)
           filled == Refit(n, a, r)
           over == P + filled - Q
           d == y - x
<1>1. /\ Second \in Nat \ {0} /\ Second \in Int /\ a \in Nat /\ r \in Nat
      /\ a \in Int /\ r \in Int /\ d \in Int
  BY SecondAssumption
<1>2. /\ A \in Int /\ 2 * Second * A <= 2 * ((x - start) * a) + Second
      /\ 2 * ((x - start) * a) + Second < 2 * Second * A + 2 * Second
  <2>1. x - start \in Int
    OBVIOUS
  <2> QED
    BY <1>1, <2>1, FramesBound
<1>3. /\ E \in Int /\ 2 * Second * E <= 2 * ((y - start) * a) + Second
      /\ 2 * ((y - start) * a) + Second < 2 * Second * E + 2 * Second
  <2>1. y - start \in Int
    OBVIOUS
  <2> QED
    BY <1>1, <2>1, FramesBound
<1>4. /\ P \in Int /\ 2 * Second * P <= 2 * (t * r) + Second
  BY <1>1, FramesBound
<1>5. /\ Q \in Int /\ 2 * (u * r) + Second < 2 * Second * Q + 2 * Second
  BY <1>1, FramesBound
<1> HIDE DEF E, A, P, Q
<1>6. n \in Int /\ Second * n \in Int /\ d * a \in Int /\ Second * n < d * a + Second
  <2>1. /\ 2 * Second * A = 2 * (Second * A) /\ 2 * Second * E = 2 * (Second * E)
        /\ Second * n = Second * E - Second * A
        /\ (y - start) * a - (x - start) * a = d * a
    BY <1>1, <1>2, <1>3, SMT
  <2>2. /\ Second * A \in Int /\ Second * E \in Int /\ d * a \in Int
        /\ (x - start) * a \in Int /\ (y - start) * a \in Int
    BY <1>1, <1>2, <1>3, TimesInt
  <2>3. n \in Int
    BY <1>2, <1>3
  <2> HIDE DEF n, d
  <2> QED
    BY <1>1, <1>2, <1>3, <2>1, <2>2, <2>3
<1>7. /\ Second * P - Second * Q < Second - d * r
      /\ Second * P \in Int /\ Second * Q \in Int /\ d * r \in Int
  <2>1. /\ 2 * Second * P = 2 * (Second * P) /\ 2 * Second * Q = 2 * (Second * Q)
        /\ Second * P \in Int /\ Second * Q \in Int /\ d * r \in Int
        /\ t * r \in Int /\ u * r \in Int
    BY <1>1, <1>4, <1>5, TimesInt, SMT
  <2>2. t * r + d * r <= u * r
    <3>1. t + d <= u /\ t + d \in Int
      OBVIOUS
    <3> HIDE DEF d
    <3>2. r * (t + d) <= r * u
      BY <1>1, <3>1, TimesMonotone
    <3>3. r * (t + d) = t * r + d * r /\ r * u = u * r
      BY <1>1, SMT
    <3> QED
      BY <3>2, <3>3
  <2> HIDE DEF d
  <2> QED
    BY <1>1, <1>4, <1>5, <2>1, <2>2
<1> HIDE DEF n, d
<1>8. /\ filled \in Int /\ 2 * (a * filled) <= 2 * (n * r) + a
      /\ a * filled \in Int /\ n * r \in Int
  <2> DEFINE v == 2 * n * r + a
             w == 2 * a
  <2>1. v \in Int /\ w \in Nat \ {0} /\ n * r \in Int
    BY <1>1, <1>6, TimesInt
  <2>2. filled = v \div w
    BY DEF Refit
  <2> HIDE DEF v, w, filled
  <2>3. v \div w \in Int /\ w * (v \div w) <= v
    BY <2>1, Quotient
  <2>4. w * filled = 2 * (a * filled) /\ a * filled \in Int /\ 2 * n * r = 2 * (n * r)
    BY <1>1, <1>6, <2>2, <2>3, TimesInt, SMT DEF w
  <2> QED
    BY <2>1, <2>2, <2>3, <2>4 DEF v
<1>9. over \in Int /\ Second * over = (Second * P - Second * Q) + Second * filled
  BY <1>1, <1>4, <1>5, <1>8, SMT
<1>10. ASSUME a = r
       PROVE  over <= 1
  <2>1. filled = n
    BY <1>6, <1>10, RefitSame
  <2>2. Second * over < Second * 2 /\ Second * 2 \in Int
    <3>1. Second * over = (Second * P - Second * Q) + Second * n
      BY <1>9, <2>1
    <3>2. d * r = d * a
      BY <1>10
    <3>3. Second * 2 = Second + Second
      BY <1>1
    <3> QED
      BY <1>1, <1>6, <1>7, <3>1, <3>2, <3>3
  <2>3. over < 2
    BY <1>1, <1>9, <2>2, TimesStrict
  <2> QED
    BY <1>9, <2>3
<1>11. 2 * a * over < 3 * a + 2 * r
  <2> DEFINE z == Second * P - Second * Q
  <2>1. z \in Int /\ z < Second - d * r /\ Second - d * r \in Int
    BY <1>1, <1>7
  <2> HIDE DEF z
  <2>2. a * z + a <= a * Second - a * (d * r)
    <3>1. z + 1 <= Second - d * r /\ z + 1 \in Int
      BY <2>1
    <3>2. a * (z + 1) <= a * (Second - d * r)
      BY <1>1, <2>1, <3>1, TimesMonotone
    <3>3. a * (z + 1) = a * z + a /\ a * (Second - d * r) = a * Second - a * (d * r)
      BY <1>1, <1>7, <2>1, SMT
    <3> QED
      BY <3>2, <3>3
  <2>3. r * (Second * n) <= r * (d * a) + r * Second
    <3>1. Second * n <= d * a + Second
      BY <1>1, <1>6
    <3>2. r * (Second * n) <= r * (d * a + Second)
      BY <1>1, <1>6, <3>1, TimesMonotone
    <3>3. r * (d * a + Second) = r * (d * a) + r * Second
      BY <1>1, <1>6, SMT
    <3> QED
      BY <3>2, <3>3
  <2>4. 2 * (Second * (a * filled)) <= 2 * (r * (Second * n)) + Second * a
    <3>1. Second * (2 * (a * filled)) <= Second * (2 * (n * r) + a)
      BY <1>1, <1>8, TimesMonotone
    <3>2. /\ Second * (2 * (a * filled)) = 2 * (Second * (a * filled))
          /\ Second * (2 * (n * r) + a) = 2 * (r * (Second * n)) + Second * a
      BY <1>1, <1>6, <1>8, SMT
    <3> QED
      BY <3>1, <3>2
  <2>5. a * (d * r) = r * (d * a) /\ Second * (a * filled) = a * (Second * filled)
        /\ Second * a = a * Second /\ r * Second = Second * r
    BY <1>1, <1>8, SMT
  <2>6. /\ Second * (2 * a * over) = 2 * (a * z) + 2 * (a * (Second * filled))
        /\ Second * (3 * a + 2 * r) = 3 * (a * Second) + 2 * (Second * r)
    <3>1. Second * over = z + Second * filled
      BY <1>9 DEF z
    <3>2. Second * (2 * a * over) = 2 * (a * (Second * over))
      <4> HIDE DEF over
      <4> QED
        BY <1>1, <1>9, SMT
    <3>3. a * (z + Second * filled) = a * z + a * (Second * filled)
      BY <1>1, <1>8, <2>1, SMT
    <3>4. /\ a * z \in Int /\ a * (Second * filled) \in Int
          /\ Second * (3 * a + 2 * r) = 3 * (a * Second) + 2 * (Second * r)
      BY <1>1, <1>8, <2>1, TimesInt, SMT
    <3> QED
      BY <3>1, <3>2, <3>3, <3>4
  <2>7. /\ a * z \in Int /\ a * Second \in Int /\ r * (d * a) \in Int /\ r * (Second * n) \in Int
        /\ a * (Second * filled) \in Int /\ Second * r \in Int
    BY <1>1, <1>6, <1>8, <2>1, TimesInt
  <2>8. Second * (2 * a * over) < Second * (3 * a + 2 * r)
    BY <1>1, <2>2, <2>3, <2>4, <2>5, <2>6, <2>7
  <2>9. 2 * a * over \in Int /\ 3 * a + 2 * r \in Int
    <3> HIDE DEF over
    <3> QED
      BY <1>1, <1>9, TimesInt
  <2> HIDE DEF over
  <2> QED
    BY <1>1, <2>8, <2>9, TimesStrict
<1> QED
  BY <1>10, <1>11 DEF n, E, A, P, Q

\* Where the screen and the webcam show the same part they are together, and a clip does
\* not reach far over the one after it.
LEMMA CutSteps ==
    ASSUME CInv
    PROVE  InStep
<1>1. ASSUME NEW o \in pairs
      PROVE  LET apart == PairPosition(o, "webcam", rate) - PairPosition(o, "screen", rate)
             IN  /\ -Second <= 2 * (apart * Second - o * rate)
                 /\ 2 * (apart * Second - o * rate) <= Second
  <2>1. o \in Int /\ rate \in Nat
    BY CutAssumption DEF CInv, CutTypeOK
  <2> QED
    BY <2>1, PairsApart
<1>2. ASSUME NEW p \in inserted, NEW q \in inserted
      PROVE  /\ p.segment = q.segment => Together(p, q)
             /\ p.role = q.role /\ p.position < q.position =>
                   /\ p.rate = compaction.rate => Overrun(p, q) <= 1
                   /\ 2 * p.rate * Overrun(p, q) < 3 * p.rate + 2 * compaction.rate
  <2> DEFINE r == compaction.rate
             offset == approval.offset
             cuts == approval.cuts
  <2>1. compaction.status # "none" /\ inserted = compaction.preview
    BY DEF CInv, CutTypeOK
  <2>2. compaction.offset = offset /\ r \in Nat \ {0} /\ r \in Nat
    BY <2>1, CutAssumption DEF CInv, ReceiptOK
  <2>3. PICK media \in Footage : compaction.preview = Preview(approval, media, r)
    BY <2>1 DEF CInv, ReceiptOK
  <2>4. offset \in Int /\ cuts \in Seq(Cut)
    BY DEF CInv, PlanOK
  <2> DEFINE duration == SourceDuration(offset, media)
             clip(z) == media[RecordingOf[z.role]]
             start(z) == StartOf(offset, RecordingOf[z.role])
             Lies(z, interval, x, y) ==
                /\ interval \in Kept(cuts, duration)
                /\ interval.start \in Int /\ interval.end \in Int /\ interval.output \in Int
                /\ z = Placement(interval, z.role, offset, media, r)
                /\ Stretch(z, interval, clip(z), start(z), r, x, y)
  <2>5. ASSUME NEW z \in inserted
        PROVE  /\ CutsValid(cuts, duration) /\ duration \in Int
               /\ clip(z).rate \in Nat \ {0} /\ start(z) \in Int
               /\ z.from \in Int /\ z.to \in Int /\ z.from < z.to
               /\ \E interval : \E x, y \in Int : Lies(z, interval, x, y)
    <3>1. z \in Preview(approval, media, r)
      BY <2>1, <2>3
    <3> HIDE DEF r
    <3>2. start(z) \in Int
      BY <2>4, StartType
    <3> QED
      BY <2>4, <3>1, <3>2, PlacedFrames
  <2>6. PICK I : \E x, y \in Int : Lies(p, I, x, y)
    <3> HIDE DEF Lies
    <3> QED
      BY <2>5
  <2>7. PICK x \in Int, y \in Int : Lies(p, I, x, y)
    BY <2>6
  <2>8. PICK J : \E v, w \in Int : Lies(q, J, v, w)
    <3> HIDE DEF Lies
    <3> QED
      BY <2>5
  <2>9. PICK v \in Int, w \in Int : Lies(q, J, v, w)
    BY <2>8
  <2>10. CutsValid(cuts, duration) /\ duration \in Int
    BY <2>5
  <2> HIDE DEF duration
  <2>11. /\ I.output \in Int /\ I.start < I.end /\ J.start < J.end
         /\ I.start = J.start => I = J
         /\ I.start < J.start => I.output + (I.end - I.start) <= J.output
         /\ J.start < I.start => J.output + (J.end - J.start) <= I.output
    BY <2>4, <2>7, <2>9, <2>10, KeptOrder
  <2> DEFINE a == clip(p).rate
             b == clip(q).rate
             s == start(p)
             t == start(q)
             T == (I.output - I.start) + x
             U == (J.output - J.start) + v
  <2>12. /\ a \in Nat \ {0} /\ b \in Nat \ {0} /\ s \in Int /\ t \in Int
         /\ p.from \in Int /\ p.to \in Int /\ q.from \in Int /\ q.to \in Int
    BY <2>5
  <2>13. /\ p.rate = a /\ p.segment = I.start
         /\ p.from = ToFrames(x - s, a) /\ p.to + 1 = ToFrames(y - s, a)
         /\ p.position = ToFrames(T, r) /\ T \in Int
         /\ I.start <= x /\ x < y /\ y <= I.end
         /\ I.start \in Int /\ I.end \in Int /\ I.output \in Int
    <3>1. I.output + x - I.start = T /\ T \in Int
      BY <2>7
    <3> QED
      BY <2>7, <3>1 DEF Stretch
  <2>14. /\ q.rate = b /\ q.segment = J.start
         /\ q.from = ToFrames(v - t, b)
         /\ q.position = ToFrames(U, r) /\ U \in Int
         /\ J.start <= v /\ v < w /\ w <= J.end
         /\ J.start \in Int /\ J.end \in Int /\ J.output \in Int
    <3>1. J.output + v - J.start = U /\ U \in Int
      BY <2>9
    <3> QED
      BY <2>9, <3>1 DEF Stretch
  <2>15. p.role = q.role => a = b /\ s = t
    OBVIOUS
  <2> DEFINE c == InFront(p)
             d == InFront(q)
             e == Behind(p)
             f == Behind(q)
  <2>21. /\ c \in Int /\ d \in Int /\ e \in Int /\ f \in Int
         /\ s + c - e = StartOf(offset, "screen") /\ t + d - f = StartOf(offset, "screen")
    <3>1. WebcamLead \in Int /\ RecordingOf[p.role] \in {"screen", "webcam"}
          /\ RecordingOf[q.role] \in {"screen", "webcam"}
      <4>1. p.role \in Roles /\ q.role \in Roles
        BY <2>1, <2>3 DEF Preview, Placements, Placement
      <4> QED
        BY <4>1, CutAssumption DEF Roles, RecordingOf
    <3>2. StartOf(offset, "webcam") = StartOf(offset, "screen") + offset
      BY <2>4 DEF StartOf, Largest
    <3>3. StartOf(offset, "screen") \in Int /\ compaction.offset = offset
      BY <2>2, <2>4, StartType
    <3> QED
      BY <2>4, <3>1, <3>2, <3>3 DEF InFront, Behind
  <2>16. p.role = q.role /\ I = J => p = q
    BY <2>7, <2>9
  <2>17. Shift(p, q) = 2 * b * (p.from * Second * r - c * a * r - p.position * Second * a)
    BY <2>2, <2>13, <2>14 DEF Shift
  <2>18. Shift(q, p) = 2 * a * (q.from * Second * r - d * b * r - q.position * Second * b)
    BY <2>2, <2>13, <2>14 DEF Shift
  <2> HIDE DEF a, b, c, d, e, f, s, t, r, T, U, Lies
  <2>19. ASSUME p.segment = q.segment
         PROVE  Together(p, q)
    <3> DEFINE o == I.output - I.start
               M == s * a * r + p.from * Second * r - p.position * Second * a
               N == t * b * r + q.from * Second * r - q.position * Second * b
    <3>1. I = J /\ o \in Int
      BY <2>11, <2>13, <2>14, <2>19
    <3>2. T = o + x /\ U = o + v
      BY <3>1 DEF T, U
    <3> HIDE DEF o
    <3>3. /\ M \in Int
          /\ -(Second * (r + a)) <= 2 * M + 2 * (o * a * r)
          /\ 2 * M + 2 * (o * a * r) <= Second * (r + a)
      <4> DEFINE A == ToFrames(x - s, a)
                 B == ToFrames(o + x, r)
                 moved == s * a * r + A * Second * r - B * Second * a
      <4>1. /\ moved \in Int
            /\ -(Second * (r + a)) <= 2 * moved + 2 * (o * a * r)
            /\ 2 * moved + 2 * (o * a * r) <= Second * (r + a)
        BY <2>2, <2>12, <3>1, ShiftBound
      <4>2. A = p.from /\ B = p.position
        BY <2>13, <3>2
      <4> HIDE DEF A, B
      <4>3. moved = M
        BY <4>2
      <4> QED
        BY <4>1, <4>3
    <3>4. /\ N \in Int
          /\ -(Second * (r + b)) <= 2 * N + 2 * (o * b * r)
          /\ 2 * N + 2 * (o * b * r) <= Second * (r + b)
      <4> DEFINE A == ToFrames(v - t, b)
                 B == ToFrames(o + v, r)
                 moved == t * b * r + A * Second * r - B * Second * b
      <4>1. /\ moved \in Int
            /\ -(Second * (r + b)) <= 2 * moved + 2 * (o * b * r)
            /\ 2 * moved + 2 * (o * b * r) <= Second * (r + b)
        BY <2>2, <2>12, <3>1, ShiftBound
      <4>2. A = q.from /\ B = q.position
        BY <2>14, <3>2
      <4> HIDE DEF A, B
      <4>3. moved = N
        BY <4>2
      <4> QED
        BY <4>1, <4>3
    <3> HIDE DEF M, N
    <3>5. /\ -(Second * (r * (a + b) + 2 * a * b)) <= 2 * b * M - 2 * a * N
          /\ 2 * b * M - 2 * a * N <= Second * (r * (a + b) + 2 * a * b)
      BY <2>2, <2>12, <3>1, <3>3, <3>4, Gathered
    <3>6. Shift(p, q) - Shift(q, p) - 2 * a * b * r * (f - e) = 2 * b * M - 2 * a * N
      <4> DEFINE A == p.from * Second * r - p.position * Second * a
                 B == q.from * Second * r - q.position * Second * b
                 z == StartOf(offset, "screen")
      <4>1. /\ p.position \in Int /\ q.position \in Int /\ Second \in Int
            /\ r \in Int /\ a \in Int /\ b \in Int /\ z \in Int
        <5>1. p.position \in Int
          BY <2>2, <2>13, NearFrame
        <5>2. q.position \in Int
          BY <2>2, <2>14, NearFrame
        <5>3. z \in Int
          BY <2>4, StartType
        <5> HIDE DEF z
        <5> QED
          BY <2>2, <2>12, <5>1, <5>2, <5>3, SecondAssumption
      <4>2. A \in Int /\ B \in Int
        BY <2>12, <4>1, TimesInt
      <4>3. s = z + e - c /\ t = z + f - d
        BY <2>12, <2>21, <4>1
      <4>4. /\ M = A + (z + e - c) * a * r /\ N = B + (z + f - d) * b * r
        BY <2>12, <4>1, <4>2, <4>3, ThreeTerms DEF M, N
      <4>5. /\ Shift(p, q) = 2 * b * (A - c * a * r)
            /\ Shift(q, p) = 2 * a * (B - d * b * r)
        BY <2>12, <2>17, <2>18, <2>21, <4>1, <4>2, ThreeTerms
      <4> HIDE DEF A, B, z
      <4> QED
        BY <2>21, <4>1, <4>2, <4>4, <4>5, MovedAlong
    <3>7. /\ p.rate = a /\ q.rate = b /\ compaction.rate = r /\ Behind(p) = e /\ Behind(q) = f
      BY <2>13, <2>14 DEF r, e, f
    <3>8. /\ 2 * a * b * r * (f - e) \in Int /\ Shift(p, q) - Shift(q, p) \in Int
          /\ Second * (r * (a + b) + 2 * a * b) \in Int
      <4>1. /\ a \in Int /\ b \in Int /\ r \in Int /\ Second \in Int /\ f - e \in Int
            /\ a * b \in Int /\ r * (a + b) \in Int
        BY <2>2, <2>12, <2>21, SecondAssumption, TimesInt
      <4>2. 2 * a * b * r * (f - e) \in Int
        BY <4>1, TimesInt
      <4>3. Second * (r * (a + b) + 2 * a * b) \in Int
        BY <4>1, TimesInt
      <4>4. Shift(p, q) \in Int /\ Shift(q, p) \in Int
        <5>1. /\ p.position \in Int /\ q.position \in Int
          BY <2>2, <2>13, <2>14, NearFrame
        <5>2. /\ p.from * Second \in Int /\ q.from * Second \in Int
              /\ p.from * Second * r \in Int /\ q.from * Second * r \in Int
              /\ c * a * r \in Int /\ d * b * r \in Int
              /\ p.position * Second * a \in Int /\ q.position * Second * b \in Int
          BY <2>12, <2>21, <4>1, <5>1, TimesInt
        <5> QED
          BY <2>17, <2>18, <4>1, <5>2, TimesInt
      <4> QED
        BY <4>2, <4>3, <4>4
    <3> DEFINE expected == 2 * a * b * r * (f - e)
               apart == Shift(p, q) - Shift(q, p)
               slack == Second * (r * (a + b) + 2 * a * b)
    <3>9. expected - slack <= apart /\ apart <= expected + slack
      <4>1. -slack <= apart - expected /\ apart - expected <= slack
        BY <3>5, <3>6
      <4> HIDE DEF expected, apart, slack
      <4> QED
        BY <3>8, <4>1 DEF expected, apart, slack
    <3> QED
      BY <3>7, <3>9 DEF Together
  <2>20. ASSUME p.role = q.role, p.position < q.position
         PROVE  /\ p.rate = compaction.rate => Overrun(p, q) <= 1
                /\ 2 * p.rate * Overrun(p, q) < 3 * p.rate + 2 * compaction.rate
    <3>1. I.start < J.start
      <4>1. SUFFICES ASSUME ~(I.start < J.start) PROVE FALSE
        OBVIOUS
      <4>2. I.start # J.start
        <5>1. p # q
          <6>1. p.position \in Int
            BY <2>2, <2>13, NearFrame
          <6> QED
            BY <2>20, <6>1
        <5> QED
          BY <2>11, <2>16, <2>20, <5>1
      <4>3. J.start < I.start
        BY <2>13, <2>14, <4>1, <4>2
      <4>4. J.output + (J.end - J.start) <= I.output
        BY <2>11, <4>3
      <4>5. U <= T
        BY <2>13, <2>14, <4>4 DEF T, U
      <4>6. ToFrames(U, r) <= ToFrames(T, r)
        BY <2>2, <2>13, <2>14, <4>5, FramesInOrder
      <4>7. ToFrames(U, r) \in Int /\ ToFrames(T, r) \in Int
        BY <2>2, <2>13, <2>14, NearFrame
      <4> QED
        BY <2>13, <2>14, <2>20, <4>6, <4>7
    <3>2. T + (y - x) <= U
      <4>1. I.output + (I.end - I.start) <= J.output
        BY <2>11, <3>1
      <4> QED
        BY <2>13, <2>14, <4>1 DEF T, U
    <3> DEFINE n == ToFrames(y - s, a) - ToFrames(x - s, a)
               over == ToFrames(T, r) + Refit(n, a, r) - ToFrames(U, r)
    <3>3. /\ a = r => over <= 1
          /\ 2 * a * over < 3 * a + 2 * r
      BY <2>2, <2>12, <2>13, <2>14, <3>2, OverrunBound
    <3>4. p.to - p.from + 1 = n
      BY <2>12, <2>13
    <3>5. Overrun(p, q) = over
      <4> HIDE DEF n
      <4> QED
        BY <2>13, <2>14, <3>4 DEF Overrun, r
    <3> HIDE DEF over
    <3> QED
      BY <2>13, <3>3, <3>5 DEF r
  <2> QED
    BY <2>19, <2>20
<1> QED
  BY <1>1, <1>2 DEF InStep

-----------------------------------------------------------------------------
(* The takes *)

\* What a stored comparison knows of a take.
TakeOK(t) == t.range \in [start: Nat, end: Nat] /\ t.print \in Contents

\* A binding lists the sequence, each entry once, with a file for each.
Bound(b) ==
    /\ DOMAIN b = DOMAIN sequence
    /\ {b[i].order : i \in DOMAIN b} = DOMAIN sequence
    /\ \A i \in DOMAIN b :
          b[i].order \in DOMAIN sequence /\ b[i].take = sequence[b[i].order]
          /\ b[i].path \in Paths

\* The documents up to the sequence.
ReviewsOK ==
    /\ analysis # None => analysis \in Shots
    /\ \A s \in selections : \A t \in s : TakeOK(t)
    /\ \A r \in reviewing : r.of \in selections /\ r.choice \in Verdicts(r.of)
    /\ \A s \in DOMAIN reviews : reviews[s] # None => reviews[s] \in everApproved
    /\ \A t \in everApproved : TakeOK(t)
    /\ sequence \in Seq(everApproved)

\* The documents after it are about it, and it stays what it is.
BindingsOK ==
    /\ \A b \in private : Bound(b)
    /\ private # {} => sequence # <<>>
    /\ importing # NoImport => importing.binding \in public
    /\ imported # NoImport => imported.binding \in public
    /\ application.plan # <<>> => sequence # <<>>

\* Receipts have their fields.
ReceiptsOK ==
    /\ application = [status |-> application.status, plan |-> application.plan,
                      calling |-> application.calling]
    /\ render # None => render = [started |-> render.started, reviewed |-> render.reviewed]

TInv == TakeTypeOK /\ ReviewsOK /\ BindingsOK /\ ReceiptsOK /\ TakesAreApproved

-----------------------------------------------------------------------------

\* Nothing is measured, reviewed or bound, whoever sits at the desk.
LEMMA TakeBegins ==
    ASSUME TakeInit \/ TakeRests
    PROVE  TInv
<1>1. files \in [Paths -> Contents] /\ targetRate \in TimelineRates
  <2>1. files \in FirstFiles /\ targetRate \in TimelineRates
    BY DeskAssumption DEF TakeInit, TakeRests
  <2> QED
    BY <2>1, TakeAssumption
<1>2. /\ analysis = None /\ selections = {} /\ reviewing = {} /\ reviews = <<>>
      /\ everApproved = {} /\ sequence = <<>>
      /\ binding = None /\ private = {} /\ public = {}
      /\ importing = NoImport /\ imported = NoImport
      /\ application = NoApplication /\ report = "none" /\ render = None /\ touches = 0
  BY DEF TakeInit, TakeRests
<1>3. TakeTypeOK
  <2>1. touches \in 0 .. MaxTouches
    BY <1>2, TakeAssumption
  <2>2. application.calling => application.status = "in_progress"
    BY <1>2 DEF NoApplication
  <2> QED
    BY <1>1, <1>2, <2>1, <2>2 DEF TakeTypeOK, NoApplication
<1> QED
  BY <1>2, <1>3 DEF TInv, ReviewsOK, BindingsOK, ReceiptsOK, TakesAreApproved, NoApplication

\* Comparing and reviewing.
LEMMA SelectKeeps ==
    ASSUME TInv, Measure \/ Select
    PROVE  TInv'
<1>1. /\ UNCHANGED <<files, reviewing, reviews, everApproved, sequence, binding, private, public>>
      /\ UNCHANGED project /\ UNCHANGED touches
  BY DEF Measure, Select, documents
<1>2. analysis' # None => analysis' \in Shots
  BY DEF Measure, Select
<1>3. /\ selections \subseteq selections'
      /\ \A s \in selections' \ selections :
            /\ \A t \in s : TakeOK(t)
            /\ Cardinality(s) >= 2
  <2>1. CASE Measure
    BY <2>1 DEF Measure, documents
  <2>2. CASE Select
    <3> DEFINE take(c) == Take(c, files[c.path])
               s == {take(c) : c \in analysis}
    <3>1. selections' = selections \cup {s} /\ analysis \in Shots
      BY <2>2 DEF Select, TInv, ReviewsOK
    <3>2. \A c \in analysis : c.path \in Paths /\ c.range \in [start: Nat, end: Nat]
      BY <3>1, TakeAssumption
    <3>3. files \in [Paths -> Contents]
      BY DEF TInv, TakeTypeOK
    <3>4. \A t \in s : TakeOK(t)
      BY <3>2, <3>3 DEF Take, TakeOK
    <3>5. IsFiniteSet(s)
      <4> DEFINE f == [c \in analysis |-> take(c)]
      <4>1. IsFiniteSet(analysis)
        BY <3>1, TakeAssumption
      <4>2. f \in Surjection(analysis, s)
        BY DEF Surjection
      <4> HIDE DEF f, s
      <4> QED
        BY <4>1, <4>2, FS_Surjection
    <3>6. \E x, y \in s : x # y
      <4>1. PICK c \in analysis, d \in analysis : c.id # d.id
        BY <3>1, TakeAssumption
      <4>2. take(c).id = c.id /\ take(d).id = d.id
        BY DEF Take
      <4>3. take(c) \in s /\ take(d) \in s /\ take(c) # take(d)
        BY <4>1, <4>2
      <4> QED
        BY <4>3
    <3> HIDE DEF s
    <3>7. Cardinality(s) >= 2
      <4>1. PICK x \in s, y \in s : x # y
        BY <3>6
      <4>2. Cardinality({x}) = 1 /\ IsFiniteSet({x})
        BY FS_Singleton
      <4>3. Cardinality({x} \cup {y}) = 2
        BY <4>1, <4>2, FS_AddElement
      <4>4. {x} \cup {y} \in SUBSET s
        BY <4>1
      <4>5. Cardinality({x} \cup {y}) <= Cardinality(s) /\ Cardinality(s) \in Nat
        BY <3>5, <4>4, FS_Subset, FS_CardinalityType
      <4> QED
        BY <4>3, <4>5
    <3> QED
      BY <3>1, <3>4, <3>7
  <2> QED
    BY <2>1, <2>2
<1>4. TakeTypeOK'
  <2>1. \A s \in selections' : Cardinality(s) >= 2 /\ {t.print : t \in s} \subseteq Contents
    BY <1>3 DEF TInv, TakeTypeOK, TakeOK
  <2>2. /\ DOMAIN reviews' \subseteq selections'
        /\ \A s \in DOMAIN reviews' : reviews'[s] \in Verdicts(s)
    BY <1>1, <1>3 DEF TInv, TakeTypeOK
  <2> QED
    BY <1>1, <2>1, <2>2 DEF TInv, TakeTypeOK, project
<1>5. ReviewsOK'
  BY <1>1, <1>2, <1>3 DEF TInv, ReviewsOK, TakeOK
<1>6. BindingsOK' /\ ReceiptsOK' /\ TakesAreApproved'
  BY <1>1 DEF TInv, BindingsOK, Bound, ReceiptsOK, TakesAreApproved, WithinRange, Items, project
<1> QED
  BY <1>4, <1>5, <1>6 DEF TInv

\* A review is of a stored comparison, and what it approves was approved.
LEMMA ReviewKeeps ==
    ASSUME TInv, BeginReview \/ WriteReview
    PROVE  TInv'
<1>1. /\ UNCHANGED <<files, analysis, selections, sequence, binding, private, public>>
      /\ UNCHANGED project /\ UNCHANGED touches
  BY DEF BeginReview, WriteReview
<1>2. \A r \in reviewing' : r.of \in selections /\ r.choice \in Verdicts(r.of)
  <2>0. \A r \in reviewing : r.of \in selections /\ r.choice \in Verdicts(r.of)
    BY DEF TInv, ReviewsOK
  <2>1. CASE BeginReview
    <3>1. PICK s \in selections : \E choice \in Verdicts(s) :
             reviewing' = reviewing \cup {[of |-> s, choice |-> choice]}
      BY <2>1 DEF BeginReview
    <3> QED
      BY <2>0, <3>1
  <2>2. CASE WriteReview
    BY <2>0, <2>2 DEF WriteReview
  <2> QED
    BY <2>1, <2>2
<1>3. /\ everApproved \subseteq everApproved'
      /\ \A t \in everApproved' : TakeOK(t)
      /\ DOMAIN reviews' \subseteq selections
      /\ \A s \in DOMAIN reviews' :
            reviews'[s] \in Verdicts(s) /\ (reviews'[s] # None => reviews'[s] \in everApproved')
  <2>1. CASE BeginReview
    BY <2>1 DEF BeginReview, TInv, ReviewsOK, TakeTypeOK
  <2>2. CASE WriteReview
    <3>1. PICK r \in reviewing :
             /\ reviews' = [s \in DOMAIN reviews \cup {r.of} |->
                              IF s = r.of THEN r.choice ELSE reviews[s]]
             /\ everApproved' = everApproved \cup ({r.choice} \ {None})
      BY <2>2 DEF WriteReview
    <3>2. r.of \in selections /\ r.choice \in Verdicts(r.of)
      BY DEF TInv, ReviewsOK
    <3>3. r.choice # None => TakeOK(r.choice)
      BY <3>2 DEF Verdicts, TInv, ReviewsOK
    <3> QED
      BY <3>1, <3>2, <3>3 DEF TInv, ReviewsOK, TakeTypeOK
  <2> QED
    BY <2>1, <2>2
<1>4. TakeTypeOK'
  <2>1. /\ DOMAIN reviews' \subseteq selections'
        /\ \A s \in DOMAIN reviews' : reviews'[s] \in Verdicts(s)
    BY <1>1, <1>3
  <2> QED
    BY <1>1, <2>1 DEF TInv, TakeTypeOK, project
<1>5. ReviewsOK'
  <2>1. sequence' \in Seq(everApproved')
    BY <1>1, <1>3 DEF TInv, ReviewsOK
  <2> QED
    BY <1>1, <1>2, <1>3, <2>1 DEF TInv, ReviewsOK, TakeOK
<1>6. BindingsOK' /\ ReceiptsOK'
  BY <1>1 DEF TInv, BindingsOK, Bound, ReceiptsOK, project
<1>7. TakesAreApproved'
  BY <1>1, <1>3 DEF TInv, TakesAreApproved, WithinRange, Items, project
<1> QED
  BY <1>4, <1>5, <1>6, <1>7 DEF TInv

\* Nothing is built on a sequence before there is one.
LEMMA ComposeKeeps ==
    ASSUME TInv, Compose
    PROVE  TInv'
<1>1. /\ UNCHANGED <<files, analysis, selections, reviewing, reviews, everApproved,
                     binding, private, public>>
      /\ UNCHANGED project /\ UNCHANGED touches /\ sequence = <<>>
  BY DEF Compose
<1>2. private = {} /\ public = {} /\ application.plan = <<>>
  BY <1>1 DEF TInv, BindingsOK, TakeTypeOK
<1>3. sequence' \in Seq(everApproved)
  <2>0. PICK n \in 1 .. Cardinality(selections) : \E list \in [1 .. n -> selections] :
           /\ \A i \in 1 .. n : Approved(list[i])
           /\ sequence' = [i \in 1 .. n |-> reviews[list[i]]]
    BY DEF Compose
  <2>1. PICK list \in [1 .. n -> selections] :
           /\ \A i \in 1 .. n : Approved(list[i])
           /\ sequence' = [i \in 1 .. n |-> reviews[list[i]]]
    BY <2>0
  <2>2. \A i \in 1 .. n : reviews[list[i]] \in everApproved
    BY <2>1 DEF Approved, TInv, ReviewsOK
  <2>3. n \in Nat
    OBVIOUS
  <2> QED
    BY <2>1, <2>2, <2>3
<1>4. TakeTypeOK'
  BY <1>1 DEF TInv, TakeTypeOK, project
<1>5. ReviewsOK'
  BY <1>1, <1>3 DEF TInv, ReviewsOK, TakeOK
<1>6. BindingsOK' /\ ReceiptsOK'
  BY <1>1, <1>2 DEF TInv, BindingsOK, ReceiptsOK, project
<1>7. TakesAreApproved'
  BY <1>1, <1>2 DEF TInv, TakesAreApproved, WithinRange, Items, project
<1> QED
  BY <1>4, <1>5, <1>6, <1>7 DEF TInv

\* The two halves of a binding.
LEMMA BindKeeps ==
    ASSUME TInv, BeginBind \/ FinishBind \/ LoseBind
    PROVE  TInv'
<1>1. /\ UNCHANGED <<files, analysis, selections, reviewing, reviews, everApproved, sequence>>
      /\ UNCHANGED project /\ UNCHANGED touches
  BY DEF BeginBind, FinishBind, LoseBind
<1>2. /\ public' \subseteq private' /\ public \subseteq public'
      /\ binding' # None => binding' \in private' \ public'
      /\ \A b \in private' : Bound(b)
      /\ private' # {} => sequence # <<>>
  <2>1. CASE BeginBind
    <3>1. PICK b \in Sources : /\ b \notin private \cup public
                              /\ private' = private \cup {b} /\ binding' = b
      BY <2>1 DEF BeginBind
    <3>2. Bound(b)
      BY DEF Sources, Bound
    <3> QED
      BY <2>1, <3>1, <3>2 DEF BeginBind, TInv, TakeTypeOK, BindingsOK
  <2>2. CASE FinishBind
    BY <2>2 DEF FinishBind, TInv, TakeTypeOK, BindingsOK
  <2>3. CASE LoseBind
    BY <2>3 DEF LoseBind, TInv, TakeTypeOK, BindingsOK
  <2> QED
    BY <2>1, <2>2, <2>3
<1>3. TakeTypeOK'
  BY <1>1, <1>2 DEF TInv, TakeTypeOK, project
<1>4. ReviewsOK'
  BY <1>1 DEF TInv, ReviewsOK, TakeOK
<1>5. BindingsOK' /\ ReceiptsOK'
  BY <1>1, <1>2 DEF TInv, BindingsOK, Bound, ReceiptsOK, project
<1>6. TakesAreApproved'
  BY <1>1 DEF TInv, TakesAreApproved, WithinRange, Items, project
<1> QED
  BY <1>3, <1>4, <1>5, <1>6 DEF TInv

-----------------------------------------------------------------------------
(* Frames of takes *)

\* A binding that resolves is about the approved contents, in their ranges, and
\* its frames are in the files.
LEMMA MappedFrames ==
    ASSUME TInv, NEW b \in public, NEW i \in DOMAIN Mapping(b)
    PROVE  LET m == Mapping(b)[i]
               media == MediaOf[m.take.print]
           IN  /\ DOMAIN Mapping(b) = DOMAIN b
               /\ m.order = b[i].order /\ m.take = b[i].take
               /\ Resolves(b)
               /\ m.from \in Int /\ m.to \in Int /\ 0 <= m.from /\ m.from <= m.to
               /\ WithinRange(m)
               /\ media.rate <= Second => m.to < media.frames
<1> DEFINE m == Mapping(b)[i]
           content == files[b[i].path]
           fps == MediaOf[content].rate
           frames == MediaOf[content].frames
           used == Used(b[i])
           range == b[i].take.range
           duration == DurationOf(content)
<1>1. /\ Mapping(b) =
            [j \in DOMAIN b |->
                [order |-> b[j].order, take |-> b[j].take,
                 rate |-> MediaOf[files[b[j].path]].rate,
                 from |-> FirstFrame(b[j]), to |-> EndFrame(b[j]) - 1,
                 position |-> PositionOf(b, j), length |-> OnTimeline(b[j])]]
      /\ Resolves(b) /\ \A j \in DOMAIN b : Fits(b[j])
  BY DEF Mapping
<1>2. /\ i \in DOMAIN b /\ m.order = b[i].order /\ m.take = b[i].take /\ m.rate = fps
      /\ m.from = FirstFrame(b[i]) /\ m.to = EndFrame(b[i]) - 1 /\ content = m.take.print
  BY <1>1 DEF Resolves
<1>3. Bound(b) /\ sequence \in Seq(everApproved)
  BY DEF TInv, TakeTypeOK, BindingsOK, ReviewsOK
<1>4. TakeOK(b[i].take)
  <2>1. b[i].order \in DOMAIN sequence /\ b[i].take = sequence[b[i].order]
    BY <1>2, <1>3 DEF Bound
  <2>2. b[i].take \in everApproved
    BY <1>3, <2>1
  <2> QED
    BY <2>2 DEF TInv, ReviewsOK
<1>5. /\ content \in Contents /\ range.start \in Nat /\ range.end \in Nat
  BY <1>2, <1>4 DEF TakeOK
<1>6. frames \in Nat /\ fps \in Nat \ {0}
  BY <1>5, TakeAssumption
<1>7. duration \in Int /\ duration = ToTicks(frames, fps)
  <2>1. duration = ToTicks(frames, fps)
    BY DEF DurationOf
  <2> HIDE DEF frames, fps, duration
  <2>2. ToTicks(frames, fps) \in Int
    BY <1>6, TicksBound
  <2> QED
    BY <2>1, <2>2
<1>8. /\ used.start \in Nat /\ used.end \in Int /\ used.end <= duration
      /\ range # Whole => used.start = range.start /\ used.end <= range.end
  <2> HIDE DEF content
  <2>1. CASE range = Whole
    <3>1. used = [start |-> 0, end |-> duration]
      BY <2>1 DEF Used, content
    <3> QED
      BY <1>7, <2>1, <3>1
  <2>2. CASE range # Whole
    <3>1. used = [start |-> range.start,
                  end |-> IF range.end < duration THEN range.end ELSE duration]
      BY <2>2 DEF Used, content
    <3> HIDE DEF used, range, duration
    <3> QED
      BY <1>5, <1>7, <3>1
  <2> QED
    BY <2>1, <2>2
<1>9. /\ m.from = ToFrames(used.start, fps) /\ m.to = ToFrames(used.end, fps) - 1
      /\ ToFrames(used.start, fps) < ToFrames(used.end, fps)
  BY <1>1, <1>2 DEF FirstFrame, EndFrame, Fits
<1>10. used.start \in Int /\ fps \in Nat
  BY <1>6, <1>8
<1> HIDE DEF used, fps, frames, duration
<1>11. /\ ToFrames(used.start, fps) \in Int /\ ToFrames(used.end, fps) \in Int
       /\ 0 <= ToFrames(used.start, fps)
  <2>1. used.start <= used.start /\ used.end <= used.end
    BY <1>8, <1>10
  <2>2. ToFrames(used.start, fps) \in Int
    BY <1>10, <2>1, NotAfter
  <2>3. ToFrames(used.end, fps) \in Int
    BY <1>8, <1>10, <2>1, NotAfter
  <2> QED
    BY <1>8, <1>10, <2>2, <2>3, FrameNatural
<1> HIDE DEF m
<1>12. /\ m.from \in Int /\ m.to \in Int /\ 0 <= m.from /\ m.from <= m.to
       /\ m.to + 1 = ToFrames(used.end, fps)
  BY <1>9, <1>11
<1>13. ASSUME range # Whole
       PROVE  /\ 2 * m.from * Second >= 2 * range.start * m.rate - Second
              /\ 2 * (m.to + 1) * Second <= 2 * range.end * m.rate + Second
  <2>1. used.start = range.start /\ used.end <= range.end /\ range.end \in Int
    BY <1>5, <1>8, <1>13
  <2> HIDE DEF range
  <2>2. 2 * ToFrames(used.start, fps) * Second >= 2 * range.start * fps - Second
    <3>1. range.start \in Int /\ range.start <= used.start
      BY <1>10, <2>1
    <3> QED
      BY <1>10, <3>1, NotBefore
  <2>3. 2 * ToFrames(used.end, fps) * Second <= 2 * range.end * fps + Second
    BY <1>8, <1>10, <2>1, NotAfter
  <2> QED
    BY <1>2, <1>9, <1>12, <2>2, <2>3
<1>14. ASSUME fps <= Second
       PROVE  m.to < frames
  <2>1. fps \in 1 .. Second
    BY <1>6, <1>14, SecondAssumption
  <2>2. ToFrames(used.end, fps) <= frames
    BY <1>6, <1>7, <1>8, <2>1, LastFrameExists
  <2> QED
    BY <1>6, <1>9, <1>11, <1>12, <2>2
<1>15. WithinRange(m)
  BY <1>2, <1>13 DEF WithinRange
<1>16. MediaOf[m.take.print].rate = fps /\ MediaOf[m.take.print].frames = frames
  BY <1>2 DEF fps, frames
<1>17. DOMAIN Mapping(b) = DOMAIN b
  BY <1>1
<1> QED
  BY <1>1, <1>2, <1>12, <1>14, <1>15, <1>16, <1>17 DEF m

\* A list of nothing.
LEMMA NoEntries ==
    ASSUME NEW S, NEW s \in [{} -> S]
    PROVE  s = <<>>
<1>1. {} = 1 .. 0
  OBVIOUS
<1>2. s \in Seq(S) /\ Len(s) = 0
  BY <1>1
<1> QED
  BY <1>2, EmptySeq

\* As many entries as the sequence has, and none missing: so none is twice there.
LEMMA EachOnce ==
    ASSUME TInv, NEW b \in public, NEW n \in DOMAIN sequence
    PROVE  \E i \in DOMAIN b : {j \in DOMAIN b : b[j].order = n /\ b[j].take = sequence[n]} = {i}
<1> DEFINE D == DOMAIN sequence
           f == [j \in D |-> b[j].order]
<1>1. Bound(b) /\ sequence \in Seq(everApproved)
  BY DEF TInv, TakeTypeOK, BindingsOK, ReviewsOK
<1>2. DOMAIN b = D /\ \A j \in D : b[j].order \in D /\ b[j].take = sequence[b[j].order]
  BY <1>1 DEF Bound
<1>3. \A k \in D : \E j \in D : b[j].order = k
  BY <1>1, <1>2 DEF Bound
<1>4. IsFiniteSet(D)
  <2>1. D = 1 .. Len(sequence) /\ Len(sequence) \in Int
    BY <1>1
  <2> QED
    BY <2>1, FS_Interval
<1>5. f \in Surjection(D, D)
  <2>1. f \in [D -> D]
    BY <1>2
  <2>2. \A k \in D : \E j \in D : f[j] = k
    BY <1>3
  <2> QED
    BY <2>1, <2>2 DEF Surjection
<1>6. f \in Injection(D, D)
  <2> HIDE DEF f, D
  <2> QED
    BY <1>4, <1>5, FS_SurjSameCardinalityImpliesInj
<1>7. \A j, k \in D : b[j].order = b[k].order => j = k
  BY <1>6 DEF Injection, IsInjective
<1>8. PICK i \in D : b[i].order = n
  BY <1>3
<1>9. {j \in D : b[j].order = n /\ b[j].take = sequence[n]} = {i}
  BY <1>2, <1>7, <1>8
<1> QED
  BY <1>2, <1>9

\* What a preview of the application says.
LEMMA Planned ==
    ASSUME TInv, Plan # <<>>
    PROVE  /\ sequence # <<>>
           /\ \A i \in DOMAIN Plan :
                 /\ Plan[i].take \in everApproved /\ Plan[i].shows = Plan[i].take.print
                 /\ WithinRange(Plan[i])
           /\ \A n \in DOMAIN sequence :
                 Cardinality({i \in DOMAIN Plan :
                                 Plan[i].order = n /\ Plan[i].take = sequence[n]}) = 1
<1> DEFINE b == imported.binding
           m == Mapping(b)
           path(i) == PathOf(b, m[i].take.print)
<1>1. /\ imported # NoImport
      /\ Plan = [i \in DOMAIN m |->
            [order |-> m[i].order, take |-> m[i].take, rate |-> m[i].rate,
             from |-> m[i].from, to |-> m[i].to, position |-> m[i].position,
             length |-> m[i].length, shows |-> files[path(i)],
             sound |-> MediaOf[files[path(i)]].sound]]
  BY DEF Plan
<1>2. b \in public /\ b \in private
  BY <1>1 DEF TInv, BindingsOK, TakeTypeOK
<1> HIDE DEF b
<1>3. sequence # <<>> /\ Bound(b) /\ sequence \in Seq(everApproved)
  BY <1>2 DEF TInv, BindingsOK, ReviewsOK
<1>4. ASSUME NEW i \in DOMAIN m
      PROVE  /\ DOMAIN m = DOMAIN b /\ Resolves(b) /\ WithinRange(m[i])
             /\ m[i].order = b[i].order /\ m[i].take = b[i].take
  BY <1>2, MappedFrames
<1>5. ASSUME NEW i \in DOMAIN Plan
      PROVE  /\ Plan[i].take \in everApproved /\ Plan[i].shows = Plan[i].take.print
             /\ WithinRange(Plan[i])
  <2>1. i \in DOMAIN m /\ i \in DOMAIN b
    BY <1>1, <1>4
  <2>2. m[i].take \in everApproved
    <3>1. b[i].order \in DOMAIN sequence /\ b[i].take = sequence[b[i].order]
      BY <1>3, <2>1 DEF Bound
    <3> QED
      BY <1>3, <1>4, <2>1, <3>1
  <2>3. files[path(i)] = m[i].take.print
    <3> DEFINE j == CHOOSE k \in DOMAIN b : b[k].take.print = m[i].take.print
    <3>1. b[i].take.print = m[i].take.print
      BY <1>4, <2>1
    <3>2. j \in DOMAIN b /\ b[j].take.print = m[i].take.print
      BY <2>1, <3>1
    <3>3. path(i) = b[j].path
      BY DEF PathOf
    <3> HIDE DEF j
    <3> QED
      BY <1>4, <2>1, <3>2, <3>3 DEF Resolves
  <2>4. /\ Plan[i].take = m[i].take /\ Plan[i].shows = files[path(i)]
        /\ Plan[i].from = m[i].from /\ Plan[i].to = m[i].to /\ Plan[i].rate = m[i].rate
    BY <1>1, <2>1
  <2>5. WithinRange(m[i])
    BY <1>4, <2>1
  <2> HIDE DEF m, path
  <2>6. WithinRange(Plan[i])
    BY <2>4, <2>5 DEF WithinRange
  <2> QED
    BY <2>2, <2>3, <2>4, <2>6
<1>6. ASSUME NEW n \in DOMAIN sequence
      PROVE  Cardinality({i \in DOMAIN Plan :
                             Plan[i].order = n /\ Plan[i].take = sequence[n]}) = 1
  <2>1. DOMAIN Plan = DOMAIN m
    BY <1>1
  <2>2. DOMAIN m # {}
    <3> SUFFICES ASSUME DOMAIN m = {} PROVE FALSE
      OBVIOUS
    <3>1. Plan \in [{} -> {}]
      BY <1>1
    <3> QED
      BY <3>1, NoEntries
  <2>3. DOMAIN m = DOMAIN b
    BY <1>4, <2>2
  <2>4. \A i \in DOMAIN m : Plan[i].order = b[i].order /\ Plan[i].take = b[i].take
    BY <1>1, <1>4
  <2>5. PICK i \in DOMAIN b : {j \in DOMAIN b : b[j].order = n /\ b[j].take = sequence[n]} = {i}
    BY <1>2, EachOnce
  <2> HIDE DEF m
  <2>6. {j \in DOMAIN Plan : Plan[j].order = n /\ Plan[j].take = sequence[n]} = {i}
    BY <2>1, <2>3, <2>4, <2>5
  <2> QED
    BY <2>6, FS_Singleton
<1> QED
  BY <1>3, <1>5, <1>6

-----------------------------------------------------------------------------
(* From the bindings to the render *)

\* None of these stages writes a document of the selection.
LEMMA DocumentsStay ==
    ASSUME TInv, UNCHANGED <<analysis, selections, reviewing, reviews, everApproved, sequence>>
    PROVE  ReviewsOK'
  BY DEF TInv, ReviewsOK, TakeOK

\* An import is of a public binding.
LEMMA ImportKeeps ==
    ASSUME TInv, BeginImport \/ FinishImport
    PROVE  TInv'
<1>1. /\ UNCHANGED <<files, analysis, targetRate, touches>> /\ UNCHANGED documents
      /\ UNCHANGED <<application, target, report, render>>
  BY DEF BeginImport, FinishImport
<1>2. /\ importing' # NoImport => importing'.binding \in public /\ importing'.mapping # <<>>
      /\ imported' # NoImport => imported'.binding \in public
  <2>1. CASE BeginImport
    BY <2>1 DEF BeginImport, TInv, BindingsOK
  <2>2. CASE FinishImport
    BY <2>2 DEF FinishImport, TInv, BindingsOK
  <2> QED
    BY <2>1, <2>2
<1>3. TakeTypeOK'
  BY <1>1, <1>2 DEF TInv, TakeTypeOK, documents
<1>4. ReviewsOK'
  BY <1>1, DocumentsStay DEF documents
<1>5. BindingsOK' /\ ReceiptsOK'
  BY <1>1, <1>2 DEF TInv, BindingsOK, Bound, ReceiptsOK, documents
<1>6. TakesAreApproved'
  BY <1>1 DEF TInv, TakesAreApproved, WithinRange, Items, documents
<1> QED
  BY <1>3, <1>4, <1>5, <1>6 DEF TInv

\* A call of the application has the plan of what was imported.
LEMMA BeginApplyKeeps ==
    ASSUME TInv, BeginApply
    PROVE  TInv'
<1>1. /\ UNCHANGED <<files, analysis, targetRate, touches>> /\ UNCHANGED documents
      /\ UNCHANGED <<importing, imported, target, report, render>>
      /\ application.status # "applied" /\ Plan # <<>>
      /\ application' = [status |-> "in_progress", plan |-> Plan, calling |-> TRUE]
  BY DEF BeginApply
<1>2. report = "none" /\ render = None
  BY <1>1 DEF TInv, TakeTypeOK, TakesAreApproved
<1>3. TakeTypeOK'
  BY <1>1, <1>2 DEF TInv, TakeTypeOK, documents
<1>4. ReviewsOK'
  BY <1>1, DocumentsStay DEF documents
<1>5. BindingsOK' /\ ReceiptsOK'
  BY <1>1, Planned DEF TInv, BindingsOK, Bound, ReceiptsOK, documents
<1>6. TakesAreApproved'
  <2> DEFINE told == Plan
  <2>1. /\ \A i \in DOMAIN told :
              /\ told[i].take \in everApproved /\ told[i].shows = told[i].take.print
              /\ WithinRange(told[i])
        /\ \A n \in DOMAIN sequence :
              Cardinality({i \in DOMAIN told :
                              told[i].order = n /\ told[i].take = sequence[n]}) = 1
    BY <1>1, Planned
  <2>2. application'.plan = told
    BY <1>1
  <2> HIDE DEF told
  <2> QED
    BY <1>1, <1>2, <2>1, <2>2 DEF TakesAreApproved, WithinRange, documents
<1> QED
  BY <1>3, <1>4, <1>5, <1>6 DEF TInv

\* What it inserts is that plan, entry for entry.
LEMMA FinishApplyKeeps ==
    ASSUME TInv, FinishApply
    PROVE  TInv'
<1>1. /\ UNCHANGED <<files, analysis, targetRate, touches>> /\ UNCHANGED documents
      /\ UNCHANGED <<importing, imported, report, render>>
      /\ application.status = "in_progress"
  BY DEF FinishApply, TInv, TakeTypeOK
<1>2. /\ application' = [status |-> application'.status, plan |-> application.plan,
                         calling |-> FALSE]
      /\ application'.status \in {"in_progress", "applied"}
  BY <1>1 DEF FinishApply, TInv, ReceiptsOK
<1>3. report = "none" /\ render = None
  BY <1>1 DEF TInv, TakeTypeOK, TakesAreApproved
<1>4. TakeTypeOK'
  BY <1>1, <1>2, <1>3 DEF TInv, TakeTypeOK, documents
<1>5. ReviewsOK'
  BY <1>1, DocumentsStay DEF documents
<1>6. BindingsOK' /\ ReceiptsOK'
  <2>1. application'.plan = application.plan /\ application'.calling = FALSE
    BY <1>2
  <2>2. BindingsOK'
    BY <1>1, <2>1 DEF TInv, BindingsOK, Bound, documents
  <2>3. ReceiptsOK'
    BY <1>1, <1>2, <1>3, <2>1 DEF ReceiptsOK
  <2> QED
    BY <2>2, <2>3
<1>7. TakesAreApproved'
  BY <1>1, <1>2, <1>3 DEF TInv, TakesAreApproved, WithinRange, documents
<1> QED
  BY <1>4, <1>5, <1>6, <1>7 DEF TInv

\* Reports and renders leave the timeline.
LEMMA RenderKeeps ==
    ASSUME TInv, Inspect \/ ReviewReport \/ BeginRender \/ StartRender
    PROVE  TInv'
<1>1. /\ UNCHANGED <<files, analysis, targetRate, touches>> /\ UNCHANGED documents
      /\ UNCHANGED <<importing, imported, application>>
  BY DEF Inspect, ReviewReport, BeginRender, StartRender
<1>2. /\ report' \in {"none", "ready", "approve", "reject"}
      /\ report' # "none" => application.status = "applied"
      /\ render' # None =>
            /\ report' = "approve" /\ render'.reviewed = Items(application.plan)
            /\ render' = [started |-> render'.started, reviewed |-> render'.reviewed]
  <2>1. CASE Inspect
    BY <2>1 DEF Inspect, StillApplied, TInv, TakesAreApproved, ReceiptsOK
  <2>2. CASE ReviewReport
    BY <2>2 DEF ReviewReport, StillApplied, TInv, TakesAreApproved, ReceiptsOK
  <2>3. CASE BeginRender
    BY <2>3 DEF BeginRender, StillApplied, TInv, TakeTypeOK
  <2>4. CASE StartRender
    BY <2>4 DEF StartRender, TInv, TakeTypeOK, TakesAreApproved, ReceiptsOK
  <2> QED
    BY <2>1, <2>2, <2>3, <2>4
<1>3. TakeTypeOK'
  BY <1>1, <1>2 DEF TInv, TakeTypeOK, documents
<1>4. ReviewsOK'
  BY <1>1, DocumentsStay DEF documents
<1>5. BindingsOK' /\ ReceiptsOK'
  BY <1>1, <1>2 DEF TInv, BindingsOK, Bound, ReceiptsOK, documents
<1>6. TakesAreApproved'
  BY <1>1, <1>2 DEF TInv, TakesAreApproved, WithinRange, Items, documents
<1> QED
  BY <1>3, <1>4, <1>5, <1>6 DEF TInv

\* What the user does to files, the Media Pool and timelines is in no document.
LEMMA UserKeeps ==
    ASSUME TInv, ReplaceFile \/ FillPool \/ EditTimeline
    PROVE  TInv'
<1>1. /\ UNCHANGED <<analysis, importing, imported, application, report, render>>
      /\ UNCHANGED documents
  BY DEF ReplaceFile, FillPool, EditTimeline, project
<1>2. touches' \in 0 .. MaxTouches
  BY TakeAssumption DEF ReplaceFile, FillPool, EditTimeline, Touch, TInv, TakeTypeOK
<1>3. files' \in [Paths -> Contents] /\ targetRate' \in TimelineRates
  <2>1. CASE ReplaceFile
    BY <2>1 DEF ReplaceFile, TInv, TakeTypeOK, project
  <2>2. CASE FillPool
    BY <2>2 DEF FillPool, TInv, TakeTypeOK
  <2>3. CASE EditTimeline
    BY <2>3 DEF EditTimeline, TInv, TakeTypeOK
  <2> QED
    BY <2>1, <2>2, <2>3
<1>4. TakeTypeOK'
  BY <1>1, <1>2, <1>3 DEF TInv, TakeTypeOK, documents
<1>5. ReviewsOK'
  BY <1>1, DocumentsStay DEF documents
<1>6. BindingsOK' /\ ReceiptsOK'
  BY <1>1 DEF TInv, BindingsOK, Bound, ReceiptsOK, documents
<1>7. TakesAreApproved'
  BY <1>1 DEF TInv, TakesAreApproved, WithinRange, Items, documents
<1> QED
  BY <1>4, <1>5, <1>6, <1>7 DEF TInv

\* Every step keeps the invariant of the takes.
LEMMA TakeKeeps ==
    ASSUME TInv, TakeNext \/ UNCHANGED takeVars
    PROVE  TInv'
<1>1. CASE UNCHANGED takeVars
  <2>1. UNCHANGED <<analysis, selections, reviewing, reviews, everApproved, sequence>>
    BY <1>1 DEF takeVars
  <2>2. ReviewsOK'
    BY <2>1, DocumentsStay
  <2>3. TakeTypeOK'
    BY <1>1 DEF takeVars, TInv, TakeTypeOK
  <2>4. BindingsOK' /\ ReceiptsOK' /\ TakesAreApproved'
    BY <1>1 DEF takeVars, TInv, BindingsOK, Bound, ReceiptsOK, TakesAreApproved, WithinRange, Items
  <2> QED
    BY <2>2, <2>3, <2>4 DEF TInv
<1>2. CASE TakeNext
  BY <1>2, SelectKeeps, ReviewKeeps, ComposeKeeps, BindKeeps, ImportKeeps, BeginApplyKeeps,
     FinishApplyKeeps, RenderKeeps, UserKeeps DEF TakeNext
<1> QED
  BY <1>1, <1>2

\* A mapping asks for frames of its recordings only.
LEMMA TakeExists ==
    ASSUME TInv, \A content \in Contents : MediaOf[content].rate <= Second
    PROVE  TakeFramesExist
<1> SUFFICES ASSUME NEW b \in public, NEW i \in DOMAIN Mapping(b)
             PROVE  /\ 0 <= Mapping(b)[i].from /\ Mapping(b)[i].from <= Mapping(b)[i].to
                    /\ Mapping(b)[i].to < MediaOf[Mapping(b)[i].take.print].frames
  BY DEF TakeFramesExist
<1> DEFINE m == Mapping(b)[i]
<1>1. /\ DOMAIN Mapping(b) = DOMAIN b /\ m.take = b[i].take
      /\ 0 <= m.from /\ m.from <= m.to
      /\ MediaOf[m.take.print].rate <= Second => m.to < MediaOf[m.take.print].frames
  BY MappedFrames
<1>2. Bound(b) /\ sequence \in Seq(everApproved)
  BY DEF TInv, TakeTypeOK, BindingsOK, ReviewsOK
<1>3. m.take \in everApproved
  <2>1. b[i].order \in DOMAIN sequence /\ b[i].take = sequence[b[i].order]
    BY <1>1, <1>2 DEF Bound
  <2> QED
    BY <1>1, <1>2, <2>1
<1>4. m.take.print \in Contents
  BY <1>3 DEF TInv, ReviewsOK, TakeOK
<1> QED
  BY <1>1, <1>4

\* What is used of a file is between two times, and the file has a rate.
LEMMA UsedType ==
    ASSUME TInv, NEW b \in public, Resolves(b), NEW i \in DOMAIN b
    PROVE  /\ MediaOf[files[b[i].path]].rate \in Nat \ {0}
           /\ Used(b[i]).start \in Int /\ Used(b[i]).end \in Int
<1> DEFINE content == files[b[i].path]
           fps == MediaOf[content].rate
           frames == MediaOf[content].frames
           range == b[i].take.range
           duration == DurationOf(content)
<1>1. content = b[i].take.print
  BY DEF Resolves
<1>2. Bound(b) /\ sequence \in Seq(everApproved)
  BY DEF TInv, TakeTypeOK, BindingsOK, ReviewsOK
<1>3. TakeOK(b[i].take)
  <2>1. b[i].order \in DOMAIN sequence /\ b[i].take = sequence[b[i].order]
    BY <1>2 DEF Bound
  <2>2. b[i].take \in everApproved
    BY <1>2, <2>1
  <2> QED
    BY <2>2 DEF TInv, ReviewsOK
<1>4. /\ content \in Contents /\ range.start \in Nat /\ range.end \in Nat
  BY <1>1, <1>3 DEF TakeOK
<1>5. frames \in Nat /\ fps \in Nat \ {0}
  BY <1>4, TakeAssumption
<1>6. duration \in Int
  <2>1. duration = ToTicks(frames, fps)
    BY DEF DurationOf
  <2> HIDE DEF frames, fps, duration
  <2>2. ToTicks(frames, fps) \in Int
    BY <1>5, TicksBound
  <2> QED
    BY <2>1, <2>2
<1> HIDE DEF content
<1>7. CASE range = Whole
  <2>1. Used(b[i]) = [start |-> 0, end |-> duration]
    BY <1>7 DEF Used, content
  <2> QED
    BY <1>5, <1>6, <2>1 DEF content
<1>8. CASE range # Whole
  <2>1. Used(b[i]) = [start |-> range.start,
                      end |-> IF range.end < duration THEN range.end ELSE duration]
    BY <1>8 DEF Used, content
  <2>2. (IF range.end < duration THEN range.end ELSE duration) \in Int
    <3> HIDE DEF range, duration
    <3> QED
      BY <1>4, <1>6
  <2> QED
    BY <1>4, <1>5, <2>1, <2>2 DEF content
<1> QED
  BY <1>7, <1>8

\* Clips do not drift from the durations of the clips before them.
LEMMA TakeSteps ==
    ASSUME TInv
    PROVE  TakesInStep
<1> SUFFICES ASSUME NEW b \in public, NEW i \in DOMAIN Mapping(b)
             PROVE  LET m == Mapping(b)
                        durations == [j \in DOMAIN b |-> Used(b[j]).end - Used(b[j]).start]
                        slacks == [j \in DOMAIN m |-> Slack(m[j])]
                        apart == 2 * (m[i].position * Second - Sums(durations)[i - 1] * targetRate)
                    IN  /\ -(Sums(slacks)[i - 1]) * Second <= apart
                        /\ apart <= Sums(slacks)[i - 1] * Second
  BY DEF TakesInStep
<1> DEFINE m == Mapping(b)
           f == [j \in DOMAIN b |-> OnTimeline(b[j])]
           g == [j \in DOMAIN b |-> Used(b[j]).end - Used(b[j]).start]
           h == [j \in DOMAIN m |-> Slack(m[j])]
<1>1. /\ m = [j \in DOMAIN b |->
                [order |-> b[j].order, take |-> b[j].take,
                 rate |-> MediaOf[files[b[j].path]].rate,
                 from |-> FirstFrame(b[j]), to |-> EndFrame(b[j]) - 1,
                 position |-> PositionOf(b, j), length |-> OnTimeline(b[j])]]
      /\ Resolves(b) /\ \A j \in DOMAIN b : Fits(b[j])
  BY DEF Mapping
<1> HIDE DEF m
<1>2. /\ DOMAIN m = DOMAIN b /\ m[i].position = Sums(f)[i - 1]
      /\ \A j \in DOMAIN b : m[j].rate = MediaOf[files[b[j].path]].rate
  BY <1>1 DEF PositionOf, m
<1>3. PICK n \in Nat : DOMAIN b = 1 .. n
  <2>1. Bound(b) /\ sequence \in Seq(everApproved)
    BY DEF TInv, TakeTypeOK, BindingsOK, ReviewsOK
  <2>2. DOMAIN sequence = 1 .. Len(sequence) /\ Len(sequence) \in Nat
    BY <2>1
  <2> QED
    BY <2>1, <2>2 DEF Bound
<1>4. targetRate \in Nat \ {0} /\ Second \in Nat \ {0}
  BY SecondAssumption, TakeAssumption DEF TInv, TakeTypeOK
<1>5. ASSUME NEW j \in DOMAIN b
      PROVE  /\ f[j] \in Int /\ g[j] \in Int /\ h[j] \in Int
             /\ -(h[j] * Second) <= 2 * (f[j] * Second - g[j] * targetRate)
             /\ 2 * (f[j] * Second - g[j] * targetRate) <= h[j] * Second
  <2> DEFINE start == Used(b[j]).start
             end == Used(b[j]).end
             fps == MediaOf[files[b[j].path]].rate
             filled == Refit(ToFrames(end, fps) - ToFrames(start, fps), fps, targetRate)
             length == IF filled < 1 THEN 1 ELSE filled
             slack == 1 + 2 * ((targetRate + fps - 1) \div fps)
  <2>1. fps \in Nat \ {0} /\ start \in Int /\ end \in Int
    BY <1>1, UsedType
  <2>2. start < end /\ ToFrames(start, fps) < ToFrames(end, fps)
    BY <1>1 DEF Fits, FirstFrame, EndFrame
  <2>3. f[j] = length /\ g[j] = end - start /\ h[j] = slack
    BY <1>2 DEF OnTimeline, Slack, FirstFrame, EndFrame
  <2> HIDE DEF f, g, h, start, end, fps
  <2>4. /\ length \in Int /\ slack \in Int
        /\ -(slack * Second) <= 2 * (length * Second - (end - start) * targetRate)
        /\ 2 * (length * Second - (end - start) * targetRate) <= slack * Second
    BY <1>4, <2>1, <2>2, LengthDrift
  <2> HIDE DEF length, slack
  <2> QED
    BY <2>1, <2>3, <2>4
<1>6. /\ f \in Seq(Int) /\ g \in Seq(Int) /\ h \in Seq(Int)
      /\ Len(f) = n /\ Len(g) = n /\ Len(h) = n /\ DOMAIN f = DOMAIN b
  <2>1. f \in [1 .. n -> Int] /\ g \in [1 .. n -> Int] /\ h \in [1 .. n -> Int]
    BY <1>2, <1>3, <1>5
  <2> HIDE DEF f, g, h
  <2> QED
    BY <1>3, <2>1
<1>7. i - 1 \in 0 .. Len(f)
  <2>1. i \in 1 .. n
    BY <1>2, <1>3 DEF m
  <2> HIDE DEF f, g, h
  <2> QED
    BY <1>6, <2>1
<1> DEFINE F == Sums(f)[i - 1]
           G == Sums(g)[i - 1]
           H == Sums(h)[i - 1]
<1> HIDE DEF f, g, h
<1>8. -(H * Second) <= 2 * (F * Second - G * targetRate) /\ 2 * (F * Second - G * targetRate) <= H * Second
  <2>1. Second \in Int /\ targetRate \in Int
    BY <1>4
  <2> QED
    BY <1>5, <1>6, <1>7, <2>1, SumsDrift
<1>9. (-H) * Second = -(H * Second)
  <2>1. H \in Int
    BY <1>6, <1>7, SumsAre
  <2> HIDE DEF H
  <2> QED
    BY <1>4, <2>1, SMT
<1> QED
  BY <1>2, <1>8, <1>9 DEF f, g, h, m

-----------------------------------------------------------------------------
(* The timelines of the film *)

\* The baseline is there, and every timeline is a finite set of items.
CopiesOK ==
    /\ copies["baseline"] # {}
    /\ \A t \in TimelineNames : copies[t] \subseteq Clips /\ IsFiniteSet(copies[t])

\* DressTypeOK but for the items, and what is known of a stage that is at work.
StagesOK ==
    /\ lead \in Leads /\ asset \in Assets /\ trims \in 0..MaxTrims /\ touched \subseteq Stages
    /\ \A stage \in Stages :
          /\ dressing[stage] \in {"idle", "checked", "copied", "mapped", "changed"}
          /\ dressing[stage] \in {"copied", "mapped", "changed"} => copies[stage] # {}
          /\ replies[stage] # {} => copies[stage] # {}
          /\ accepted[stage] # {} => replies[stage] # {}
          /\ accepted[stage] # {} => dressing[stage] = "idle"
    /\ dressing["title"] = "changed" => replies["title"] # {}
    /\ dressing["title"] # "idle" => accepted["cover"] # {}

\* DressTypeOK follows from the two.
LEMMA DressTyped ==
    ASSUME GInv, CopiesOK, StagesOK
    PROVE  DressTypeOK
<1>1. DOMAIN copies = TimelineNames
  BY DEF GInv, CopiesInv
<1> QED
  BY <1>1 DEF CopiesOK, StagesOK, DressTypeOK

\* An item that is moved, or shows something else, is an item.
LEMMA TrimmedType ==
    ASSUME NEW item \in Clips, NEW by \in Int
    PROVE  /\ Moved(item, by) \in Clips
           /\ [item EXCEPT !.source = @ + 1] \in Clips
           /\ Moved(item, by).id = item.id /\ Moved(item, by).from = item.from + by
           /\ Moved(item, by).to = item.to + by /\ Moved(item, by).track = item.track
<1>1. item = [id |-> item.id, track |-> item.track, from |-> item.from, to |-> item.to,
              source |-> item.source, media |-> item.media]
  BY DEF Clips
<1>2. /\ item.id \in Kinds \X Nat /\ item.track \in Nat /\ item.from \in Int /\ item.to \in Int
      /\ item.source \in Nat /\ item.media \in BOOLEAN
  BY DEF Clips
<1>3. Moved(item, by) =
         [id |-> item.id, track |-> item.track, from |-> item.from + by, to |-> item.to + by,
          source |-> item.source, media |-> item.media]
  <2> DEFINE first == [item EXCEPT !.from = @ + by]
  <2>1. first = [id |-> item.id, track |-> item.track, from |-> item.from + by, to |-> item.to,
                 source |-> item.source, media |-> item.media]
    BY <1>1
  <2>2. Moved(item, by) = [first EXCEPT !.to = @ + by]
    BY DEF Moved
  <2> HIDE DEF first
  <2> QED
    BY <2>1, <2>2
<1>4. [item EXCEPT !.source = @ + 1] =
         [id |-> item.id, track |-> item.track, from |-> item.from, to |-> item.to,
          source |-> item.source + 1, media |-> item.media]
  BY <1>1
<1>5. item.from + by \in Int /\ item.to + by \in Int /\ item.source + 1 \in Nat
  BY <1>2
<1>6. Moved(item, by) \in Clips
  BY <1>2, <1>3, <1>5 DEF Clips
<1>7. [item EXCEPT !.source = @ + 1] \in Clips
  BY <1>2, <1>4, <1>5 DEF Clips
<1> QED
  BY <1>3, <1>6, <1>7

\* What the actions make is an item.
LEMMA ItemType ==
    ASSUME NEW id \in Kinds \X Nat, NEW track \in Nat, NEW from \in Int, NEW to \in Int,
           NEW source \in Nat, NEW media \in BOOLEAN
    PROVE  Item(id, track, from, to, source, media) \in Clips
  BY DEF Item, Clips

\* The end of a timeline is that of its last item.
LEMMA EndOf ==
    ASSUME NEW items, IsFiniteSet(items), items # {}, \A x \in items : x \in Clips
    PROVE  End(items) \in Int /\ \A item \in items : item.to <= End(items)
<1> DEFINE S == {item.to : item \in items}
           f == [item \in items |-> item.to]
<1>1. IsFiniteSet(S)
  <2>1. f \in Surjection(items, S)
    BY DEF Surjection
  <2> HIDE DEF S, f
  <2> QED
    BY <2>1, FS_Surjection
<1>2. S # {} /\ \A x \in S : x \in Int
  BY DEF Clips
<1>3. \A item \in items : item.to \in S
  OBVIOUS
<1> HIDE DEF S
<1>4. Max(S) \in S /\ \A y \in S : y <= Max(S)
  BY <1>1, <1>2, Greatest
<1>5. End(items) = Max(S)
  BY DEF End, S
<1> QED
  BY <1>2, <1>3, <1>4, <1>5

\* What Resolve makes of a source range is a number of frames.
LEMMA LengthsType ==
    ASSUME asset \in Assets, NEW p \in [start: Nat, end: Nat, at: Nat, track: Nat]
    PROVE  \A n \in Lengths(p) : n \in Int
<1> DEFINE frames == (p.end - p.start) * FilmRate
<1>1. asset.rate \in Nat \ {0} /\ FilmRate \in Nat \ {0}
  BY DressAssumption
<1>2. p.start \in Nat /\ p.end \in Nat
  OBVIOUS
<1>3. frames \in Int
  BY <1>1, <1>2, TimesInt
<1> HIDE DEF frames
<1>4. frames \div asset.rate \in Int /\ (frames + asset.rate - 1) \div asset.rate \in Int
  BY <1>1, <1>3, Quotient
<1> QED
  BY <1>4 DEF Lengths, frames

\* B-roll is a finite number of items, one for each placement.
LEMMA InsertedType ==
    ASSUME asset \in Assets, NEW wish \in Wishes, NEW lengths,
           \A i \in DOMAIN wish : lengths[i] \in Lengths(wish[i])
    PROVE  /\ \A x \in Inserted(wish, lengths) : x \in Clips
           /\ IsFiniteSet(Inserted(wish, lengths)) /\ Inserted(wish, lengths) # {}
           /\ Cardinality(Inserted(wish, lengths)) = Len(wish)
<1> DEFINE one(i) == Item(<<"broll", i>>, wish[i].track, wish[i].at, wish[i].at + lengths[i],
                          wish[i].start, TRUE)
<1>1. wish \in Seq([start: Nat, end: Nat, at: Nat, track: Nat]) /\ wish # <<>>
  BY DressAssumption
<1>2. Len(wish) \in Nat /\ DOMAIN wish = 1 .. Len(wish) /\ Len(wish) # 0
  BY <1>1
<1>3. Inserted(wish, lengths) = {one(i) : i \in DOMAIN wish}
  BY DEF Inserted
<1>4. ASSUME NEW i \in DOMAIN wish
      PROVE  one(i) \in Clips
  <2>1. wish[i] \in [start: Nat, end: Nat, at: Nat, track: Nat]
    <3> DEFINE R == [start: Nat, end: Nat, at: Nat, track: Nat]
    <3>1. wish \in Seq(R)
      BY <1>1
    <3> HIDE DEF R
    <3>2. i \in 1 .. Len(wish)
      BY <1>2
    <3>3. wish[i] \in R
      BY <3>1, <3>2, ElementOfSeq
    <3> QED
      BY <3>3 DEF R
  <2>2. lengths[i] \in Int
    BY <2>1, LengthsType
  <2>3. <<"broll", i>> \in Kinds \X Nat
    <3>1. i \in Nat
      BY <1>2
    <3>2. "broll" \in Kinds
      BY DEF Kinds
    <3> QED
      BY <3>1, <3>2, Zenon
  <2>4. wish[i].track \in Nat /\ wish[i].at \in Int /\ wish[i].start \in Nat
        /\ wish[i].at + lengths[i] \in Int
    BY <2>1, <2>2
  <2> QED
    BY <2>3, <2>4, ItemType
<1>5. \A i, j \in DOMAIN wish : one(i) = one(j) => i = j
  BY DEF Item
<1> HIDE DEF one
<1> DEFINE f == [i \in 1 .. Len(wish) |-> one(i)]
           S == Inserted(wish, lengths)
<1>6. f \in Bijection(1 .. Len(wish), S)
  BY <1>2, <1>3, <1>5 DEF Bijection, Injection, Surjection, IsInjective
<1>7. IsFiniteSet(1 .. Len(wish)) /\ Cardinality(1 .. Len(wish)) = Len(wish)
  <2>1. 1 \in Int /\ Len(wish) \in Int /\ ~(1 > Len(wish)) /\ Len(wish) - 1 + 1 = Len(wish)
    BY <1>2
  <2> QED
    BY <2>1, FS_Interval
<1> HIDE DEF f
<1>8. IsFiniteSet(S) /\ Cardinality(S) = Len(wish)
  <2>1. ExistsBijection(1 .. Len(wish), S)
    BY <1>6 DEF ExistsBijection
  <2> HIDE DEF S
  <2> QED
    BY <1>7, <2>1, <1>6, FS_Bijection
<1> QED
  BY <1>2, <1>3, <1>4, <1>8

\* A timeline that is there stays, and its items are items.
LEMMA TimelinesKeep ==
    ASSUME GInv, CopiesOK, StagesOK, DressNext
    PROVE  /\ CopiesOK' /\ DOMAIN copies' = TimelineNames
           /\ \A t \in TimelineNames : copies[t] # {} => copies'[t] # {}
<1>0. DOMAIN copies = TimelineNames /\ ShapeInv /\ PlanInv
  BY DEF GInv, CopiesInv
<1>1. ASSUME NEW t \in TimelineNames, NEW after, copies' = [copies EXCEPT ![t] = after],
             \A x \in after : x \in Clips, IsFiniteSet(after),
             after # {} \/ (copies[t] = {} /\ t # "baseline")
      PROVE  /\ CopiesOK' /\ DOMAIN copies' = TimelineNames
             /\ \A other \in TimelineNames : copies[other] # {} => copies'[other] # {}
  <2>1. /\ copies'[t] = after /\ DOMAIN copies' = TimelineNames
        /\ \A other \in TimelineNames \ {t} : copies'[other] = copies[other]
    BY <1>0, <1>1
  <2>2. "baseline" \in TimelineNames
    BY DEF TimelineNames
  <2> QED
    BY <1>1, <2>1, <2>2 DEF CopiesOK
<1>2. CASE UNCHANGED copies
  BY <1>0, <1>2 DEF CopiesOK
<1>3. ASSUME NEW stage \in Stages, Copy(stage)
      PROVE  /\ CopiesOK' /\ DOMAIN copies' = TimelineNames
             /\ \A other \in TimelineNames : copies[other] # {} => copies'[other] # {}
  <2>1. stage \in TimelineNames /\ stage # "baseline" /\ Before[stage] \in TimelineNames
    BY DEF TimelineNames, Stages, Before
  <2>2. CASE copies[stage] # {}
    BY <1>2, <1>3, <2>2 DEF Copy
  <2>3. CASE copies[stage] = {}
    <3>1. copies' = [copies EXCEPT ![stage] = copies[Before[stage]]]
      BY <1>3, <2>3 DEF Copy
    <3>2. (\A x \in copies[Before[stage]] : x \in Clips) /\ IsFiniteSet(copies[Before[stage]])
      BY <2>1 DEF CopiesOK
    <3> QED
      BY <1>1, <2>1, <2>3, <3>1, <3>2
  <2> QED
    BY <2>2, <2>3
<1>4. CASE InsertCover
  <2>1. CASE UNCHANGED copies
    BY <1>2, <2>1
  <2>2. CASE ~UNCHANGED copies
    <3> DEFINE wish == agreed["cover"].wish
    <3>1. PICK lengths :
             /\ \A i \in DOMAIN wish : lengths[i] \in Lengths(wish[i])
             /\ copies' = [copies EXCEPT !["cover"] = @ \cup Inserted(wish, lengths)]
      BY <1>4, <2>2 DEF InsertCover
    <3>2. wish \in Wishes /\ asset \in Assets /\ "cover" \in TimelineNames
      BY <1>0, <1>4 DEF InsertCover, PlanInv, StagesOK, TimelineNames, Stages
    <3> HIDE DEF wish
    <3>3. /\ \A x \in Inserted(wish, lengths) : x \in Clips
          /\ IsFiniteSet(Inserted(wish, lengths)) /\ Inserted(wish, lengths) # {}
      BY <3>1, <3>2, InsertedType
    <3>4. IsFiniteSet(copies["cover"] \cup Inserted(wish, lengths))
      <4>1. IsFiniteSet(copies["cover"])
        BY <3>2 DEF CopiesOK
      <4> QED
        BY <3>3, <4>1, FS_Union
    <3>5. /\ \A x \in copies["cover"] \cup Inserted(wish, lengths) : x \in Clips
          /\ copies["cover"] \cup Inserted(wish, lengths) # {}
      BY <3>2, <3>3 DEF CopiesOK
    <3> QED
      BY <1>1, <3>1, <3>2, <3>4, <3>5
  <2> QED
    BY <2>1, <2>2
<1>5. CASE InsertTitle
  <2>1. CASE UNCHANGED copies
    BY <1>2, <2>1
  <2>2. CASE ~UNCHANGED copies
    <3> DEFINE at == agreed["title"].at
               item == Item(<<"animation", 1>>, 1, at, at + 2, 0, FALSE)
    <3>1. /\ copies' = [copies EXCEPT !["title"] = @ \cup {item}]
          /\ at = End(copies["title"]) /\ dressing["title"] = "copied"
      BY <1>5, <2>2 DEF InsertTitle
    <3>2. /\ copies["title"] # {} /\ IsFiniteSet(copies["title"])
          /\ \A x \in copies["title"] : x \in Clips
          /\ "title" \in TimelineNames
      BY <3>1 DEF StagesOK, CopiesOK, TimelineNames, Stages
    <3>3. at \in Int
      BY <3>1, <3>2, EndOf
    <3>4. item \in Clips
      <4>1. "animation" \in Kinds
        BY DEF Kinds
      <4>2. <<"animation", 1>> \in Kinds \X Nat
        BY <4>1
      <4>3. at + 2 \in Int
        BY <3>3
      <4> QED
        BY <3>3, <4>2, <4>3, ItemType
    <3> HIDE DEF item
    <3>5. IsFiniteSet(copies["title"] \cup {item})
      BY <3>2, FS_Singleton, FS_Union
    <3>6. (\A x \in copies["title"] \cup {item} : x \in Clips) /\ copies["title"] \cup {item} # {}
      BY <3>2, <3>4
    <3> QED
      BY <1>1, <3>1, <3>2, <3>5, <3>6
  <2> QED
    BY <2>1, <2>2
<1>6. ASSUME NEW t \in DOMAIN copies, TrimItem(t)
      PROVE  /\ CopiesOK' /\ DOMAIN copies' = TimelineNames
             /\ \A other \in TimelineNames : copies[other] # {} => copies'[other] # {}
  <2>1. t \in TimelineNames
    BY <1>0
  <2>2. IsFiniteSet(copies[t]) /\ \A x \in copies[t] : x \in Clips
    BY <2>1 DEF CopiesOK
  <2>3. PICK item \in copies[t] :
           LET others == copies[t] \ {item} IN
           \/ copies' = [copies EXCEPT ![t] = others \cup {Moved(item, 1)}]
           \/ copies' = [copies EXCEPT ![t] = others \cup {[item EXCEPT !.source = @ + 1]}]
           \/ others # {} /\ copies' = [copies EXCEPT ![t] = others]
    BY <1>6 DEF TrimItem
  <2> DEFINE others == copies[t] \ {item}
  <2>4. IsFiniteSet(others) /\ \A x \in others : x \in Clips
    BY <2>2, FS_Difference
  <2>5. Moved(item, 1) \in Clips /\ [item EXCEPT !.source = @ + 1] \in Clips
    <3>1. item \in Clips /\ 1 \in Int
      BY <2>2
    <3> QED
      BY <3>1, TrimmedType
  <2>6. ASSUME NEW x \in Clips
        PROVE  IsFiniteSet(others \cup {x}) /\ \A y \in others \cup {x} : y \in Clips
    <3> HIDE DEF others
    <3> QED
      BY <2>4, FS_Singleton, FS_Union
  <2>7. CASE copies' = [copies EXCEPT ![t] = others \cup {Moved(item, 1)}]
    <3> HIDE DEF others
    <3> QED
      BY <1>1, <2>1, <2>5, <2>6, <2>7
  <2>8. CASE copies' = [copies EXCEPT ![t] = others \cup {[item EXCEPT !.source = @ + 1]}]
    <3> HIDE DEF others
    <3> QED
      BY <1>1, <2>1, <2>5, <2>6, <2>8
  <2>9. CASE others # {} /\ copies' = [copies EXCEPT ![t] = others]
    <3> HIDE DEF others
    <3> QED
      BY <1>1, <2>1, <2>4, <2>9
  <2> QED
    BY <2>3, <2>7, <2>8, <2>9
<1>7. ASSUME NEW stage \in Stages,
             Agree(stage) \/ Dress(stage) \/ Accept(stage) \/ GiveUpDressing(stage)
      PROVE  UNCHANGED copies
  BY <1>7 DEF Agree, Dress, Accept, GiveUpDressing
<1>8. CASE MapTargets \/ Grade \/ ReplaceAsset
  <2>1. UNCHANGED copies
    BY <1>8 DEF MapTargets, Grade, ReplaceAsset
  <2> QED
    BY <1>2, <2>1
<1> QED
  BY <1>2, <1>3, <1>4, <1>5, <1>6, <1>7, <1>8 DEF DressNext

\* How far the stages are.
LEMMA StagesKeep ==
    ASSUME GInv, CopiesOK, StagesOK, DressNext
    PROVE  StagesOK'
<1>0. ShapeInv /\ PlanInv /\ \A t \in TimelineNames : copies[t] # {} => copies'[t] # {}
  BY TimelinesKeep DEF GInv
<1>1. \A stage \in Stages : copies[stage] # {} => copies'[stage] # {}
  BY <1>0 DEF TimelineNames
<1>2. ASSUME NEW stage \in Stages, Agree(stage)
      PROVE  StagesOK'
  BY <1>1, <1>2 DEF Agree, WorldKept, StagesOK
<1>3. ASSUME NEW stage \in Stages, Dress(stage)
      PROVE  StagesOK'
  <2>1. dressing' = [dressing EXCEPT ![stage] = "checked"]
    BY <1>3 DEF Dress, Becomes
  <2>2. accepted[stage] = {}
    BY <1>3 DEF Dress
  <2>3. stage = "title" => accepted["cover"] # {}
    BY <1>3 DEF Dress, StillAgreed, Plans
  <2> QED
    BY <1>0, <1>1, <1>3, <2>1, <2>2, <2>3 DEF Dress, WorldKept, StagesOK, ShapeInv, Stages
<1>4. ASSUME NEW stage \in Stages, Copy(stage)
      PROVE  StagesOK'
  <2>1. dressing' = [dressing EXCEPT ![stage] = "copied"] /\ dressing[stage] = "checked"
    BY <1>4 DEF Copy, Becomes
  <2>2. copies'[stage] # {}
    <3>1. CASE copies[stage] # {}
      BY <1>1, <3>1
    <3>2. CASE copies[stage] = {}
      <4>1. copies'[stage] = copies[Before[stage]]
        BY <1>4, <3>2 DEF Copy, GInv, CopiesInv, TimelineNames
      <4>2. copies["baseline"] # {}
        BY DEF CopiesOK
      <4>3. stage = "title" => copies["cover"] # {}
        BY <2>1 DEF StagesOK, Stages
      <4>4. stage = "grade" => copies["title"] # {}
        BY <1>0, <2>1 DEF StagesOK, PlanInv, Stages
      <4> QED
        BY <4>1, <4>2, <4>3, <4>4 DEF Before, Stages
    <3> QED
      BY <3>1, <3>2
  <2> QED
    BY <1>0, <1>1, <1>4, <2>1, <2>2 DEF Copy, WorldKept, StagesOK, ShapeInv, Stages
<1>5. ASSUME NEW stage \in Stages, NEW items, NEW label \in {"idle", "changed"},
             UNCHANGED <<lead, asset, trims, touched, accepted>>,
             dressing' = [dressing EXCEPT ![stage] = label],
             dressing[stage] \in {"copied", "mapped"},
             \/ replies' = replies /\ (label = "idle" \/ replies[stage] # {})
             \/ replies' = [replies EXCEPT ![stage] = items] /\ (stage = "grade" \/ items # {})
      PROVE  StagesOK'
  <2>1. accepted[stage] = {} /\ copies'[stage] # {}
    BY <1>1, <1>5 DEF StagesOK
  <2>2. /\ dressing'[stage] = label /\ DOMAIN dressing' = Stages
        /\ \A other \in Stages \ {stage} : dressing'[other] = dressing[other]
    BY <1>0, <1>5 DEF ShapeInv
  <2>3. \A other \in Stages \ {stage} : replies'[other] = replies[other]
    BY <1>0, <1>5 DEF ShapeInv
  <2>4. stage # "grade" /\ label = "changed" => replies'[stage] # {}
    BY <1>0, <1>5 DEF ShapeInv
  <2>5. dressing[stage] # "idle"
    BY <1>5
  <2> QED
    BY <1>1, <1>5, <2>1, <2>2, <2>3, <2>4, <2>5 DEF StagesOK, Stages
<1>6. CASE InsertCover
  <2>1. "cover" \in Stages
    BY DEF Stages
  <2>2. CASE replies["cover"] # {}
    BY <1>5, <1>6, <2>1, <2>2 DEF InsertCover, Becomes, WorldKept
  <2>3. CASE replies["cover"] = {}
    <3> DEFINE wish == agreed["cover"].wish
    <3>1. PICK lengths :
             /\ \A i \in DOMAIN wish : lengths[i] \in Lengths(wish[i])
             /\ replies' = [replies EXCEPT !["cover"] = Inserted(wish, lengths)]
      BY <1>6, <2>3 DEF InsertCover, Replies
    <3>2. wish \in Wishes /\ asset \in Assets
      BY <1>0, <1>6 DEF InsertCover, PlanInv, StagesOK
    <3> HIDE DEF wish
    <3>3. Inserted(wish, lengths) # {}
      BY <3>1, <3>2, InsertedType
    <3> QED
      BY <1>5, <1>6, <2>1, <3>1, <3>3 DEF InsertCover, Becomes, WorldKept
  <2> QED
    BY <2>2, <2>3
<1>7. CASE InsertTitle
  <2>1. "title" \in Stages
    BY DEF Stages
  <2>2. \E items : \E label \in {"idle", "changed"} :
           /\ dressing' = [dressing EXCEPT !["title"] = label]
           /\ \/ replies' = replies /\ (label = "idle" \/ replies["title"] # {})
              \/ replies' = [replies EXCEPT !["title"] = items] /\ items # {}
    BY <1>7 DEF InsertTitle, Becomes, Replies
  <2> QED
    BY <1>5, <1>7, <2>1, <2>2 DEF InsertTitle, WorldKept
<1>8. CASE Grade
  <2>1. "grade" \in Stages
    BY DEF Stages
  <2>2. \E label \in {"idle", "changed"} :
           /\ dressing' = [dressing EXCEPT !["grade"] = label]
           /\ \/ replies' = replies /\ (label = "idle" \/ replies["grade"] # {})
              \/ replies' = [replies EXCEPT !["grade"] = mapped]
    BY <1>8 DEF Grade, Becomes, Replies
  <2> QED
    BY <1>5, <1>8, <2>1, <2>2 DEF Grade, WorldKept
<1>9. CASE MapTargets
  <2>1. \E label \in {"idle", "mapped"} : dressing' = [dressing EXCEPT !["grade"] = label]
    BY <1>9 DEF MapTargets, Becomes
  <2>2. dressing["grade"] = "copied" /\ copies["grade"] # {}
    BY <1>9 DEF MapTargets, StagesOK, Stages
  <2> QED
    BY <1>0, <1>1, <1>9, <2>1, <2>2 DEF MapTargets, WorldKept, StagesOK, ShapeInv, Stages
<1>10. ASSUME NEW stage \in Stages, Accept(stage)
       PROVE  StagesOK'
  <2>1. dressing' = [dressing EXCEPT ![stage] = "idle"] /\ dressing[stage] = "changed"
    BY <1>10 DEF Accept, Becomes
  <2>2. PICK items : \/ accepted' = accepted
                     \/ /\ accepted' = [accepted EXCEPT ![stage] = items]
                        /\ stage # "title" => items = replies[stage]
    BY <1>10 DEF Accept
  <2>3. /\ dressing'[stage] = "idle"
        /\ \A other \in Stages \ {stage} :
              dressing'[other] = dressing[other] /\ accepted'[other] = accepted[other]
    BY <1>0, <2>1, <2>2 DEF ShapeInv
  <2>4. accepted'[stage] # {} => replies[stage] # {}
    BY <1>0, <2>1, <2>2 DEF StagesOK, ShapeInv
  <2>5. accepted[stage] = {} /\ (stage = "cover" => dressing["title"] = "idle")
    BY <2>1 DEF StagesOK
  <2> QED
    BY <1>1, <1>10, <2>3, <2>4, <2>5 DEF Accept, WorldKept, StagesOK, Stages
<1>11. ASSUME NEW stage \in Stages, GiveUpDressing(stage)
       PROVE  StagesOK'
  <2>1. dressing' = [dressing EXCEPT ![stage] = "idle"]
    BY <1>11 DEF GiveUpDressing, Becomes
  <2> QED
    BY <1>0, <1>1, <1>11, <2>1 DEF GiveUpDressing, WorldKept, StagesOK, ShapeInv, Stages
<1>12. ASSUME NEW t \in DOMAIN copies, TrimItem(t)
       PROVE  StagesOK'
  <2>1. trims' \in 0 .. MaxTrims
    BY <1>12, DressAssumption DEF TrimItem, StagesOK
  <2>2. touched' \subseteq Stages
    BY <1>12 DEF TrimItem, Disturbed, StagesOK, Stages
  <2> QED
    BY <1>1, <1>12, <2>1, <2>2 DEF TrimItem, StagesOK
<1>13. CASE ReplaceAsset
  <2>1. trims' \in 0 .. MaxTrims
    BY <1>13, DressAssumption DEF ReplaceAsset, StagesOK
  <2>2. touched' \subseteq Stages /\ asset' \in Assets
    BY <1>13 DEF ReplaceAsset, StagesOK, Stages
  <2> QED
    BY <1>1, <1>13, <2>1, <2>2 DEF ReplaceAsset, StagesOK
<1> QED
  BY <1>2, <1>3, <1>4, <1>6, <1>7, <1>8, <1>9, <1>10, <1>11, <1>12, <1>13 DEF DressNext

-----------------------------------------------------------------------------
(* What is on the timelines *)

\* B-roll and animations come with their stage, and an item is only moved to the right.
KindsInv ==
    /\ \A item \in copies["baseline"] :
          item.id[1] \notin {"broll", "animation"} /\ item.from >= lead
    /\ \A item \in copies["cover"] :
          /\ item.id[1] # "animation" /\ (item.id[1] = "broll" \/ item.from >= lead)
          /\ replies["cover"] = {} => item.id[1] # "broll"

\* Every step keeps items of their kind and behind the lead.
LEMMA KindsKeep ==
    ASSUME GInv, CopiesOK, StagesOK, KindsInv, DressNext
    PROVE  KindsInv'
<1>0. DOMAIN copies = TimelineNames /\ ShapeInv /\ PlanInv
  BY DEF GInv, CopiesInv
<1>1. CASE UNCHANGED <<copies, lead>> /\ replies'["cover"] = replies["cover"]
  BY <1>1 DEF KindsInv
<1>2. ASSUME NEW stage \in Stages,
             Agree(stage) \/ Dress(stage) \/ Accept(stage) \/ GiveUpDressing(stage)
      PROVE  UNCHANGED <<copies, lead, replies>>
  BY <1>2 DEF Agree, Dress, Accept, GiveUpDressing, WorldKept
<1>3. ASSUME NEW stage \in Stages, Copy(stage)
      PROVE  KindsInv'
  <2>1. UNCHANGED <<lead, replies>> /\ copies'["baseline"] = copies["baseline"]
    BY <1>0, <1>3 DEF Copy, WorldKept, TimelineNames, Stages
  <2>2. copies'["cover"] = copies["cover"] \/ copies'["cover"] = copies["baseline"]
    BY <1>0, <1>3 DEF Copy, TimelineNames, Stages, Before
  <2> QED
    BY <2>1, <2>2 DEF KindsInv
<1>4. CASE InsertCover
  <2>1. CASE UNCHANGED <<copies, replies>>
    BY <1>1, <1>4, <2>1 DEF InsertCover, WorldKept
  <2>2. CASE ~UNCHANGED <<copies, replies>>
    <3> DEFINE wish == agreed["cover"].wish
    <3>1. PICK lengths :
             /\ \A i \in DOMAIN wish : lengths[i] \in Lengths(wish[i])
             /\ copies' = [copies EXCEPT !["cover"] = @ \cup Inserted(wish, lengths)]
             /\ replies' = [replies EXCEPT !["cover"] = Inserted(wish, lengths)]
      BY <1>4, <2>2 DEF InsertCover, Replies
    <3>2. wish \in Wishes /\ asset \in Assets
      BY <1>0, <1>4 DEF InsertCover, PlanInv, StagesOK
    <3> HIDE DEF wish
    <3>3. Inserted(wish, lengths) # {}
      BY <3>1, <3>2, InsertedType
    <3>4. /\ copies'["cover"] = copies["cover"] \cup Inserted(wish, lengths)
          /\ copies'["baseline"] = copies["baseline"] /\ lead' = lead
          /\ replies'["cover"] # {}
      BY <1>0, <1>4, <3>1, <3>3 DEF InsertCover, WorldKept, ShapeInv, TimelineNames, Stages
    <3>5. \A x \in Inserted(wish, lengths) : x.id[1] = "broll"
      BY DEF Inserted, Item
    <3> QED
      BY <3>4, <3>5 DEF KindsInv
  <2> QED
    BY <2>1, <2>2
<1>5. CASE InsertTitle \/ MapTargets \/ Grade \/ ReplaceAsset
  <2>1. /\ UNCHANGED lead
        /\ copies' = copies \/ \E items : copies' = [copies EXCEPT !["title"] = items]
    BY <1>5 DEF InsertTitle, MapTargets, Grade, ReplaceAsset, WorldKept
  <2>2. /\ copies'["baseline"] = copies["baseline"] /\ copies'["cover"] = copies["cover"]
    BY <1>0, <2>1 DEF TimelineNames, Stages
  <2>3. \/ replies' = replies
        \/ \E stage \in {"title", "grade"} : \E items : replies' = [replies EXCEPT ![stage] = items]
    BY <1>5 DEF InsertTitle, MapTargets, Grade, ReplaceAsset, Replies
  <2>4. replies'["cover"] = replies["cover"]
    BY <1>0, <2>3 DEF ShapeInv, Stages
  <2> QED
    BY <2>1, <2>2, <2>4 DEF KindsInv
<1>6. ASSUME NEW t \in DOMAIN copies, TrimItem(t)
      PROVE  KindsInv'
  <2>1. PICK item \in copies[t] : \E after :
           /\ copies' = [copies EXCEPT ![t] = after]
           /\ \A y \in after :
                 \/ y \in copies[t] \/ y = Moved(item, 1) \/ y = [item EXCEPT !.source = @ + 1]
    BY <1>6 DEF TrimItem
  <2>2. PICK after :
           /\ copies' = [copies EXCEPT ![t] = after]
           /\ \A y \in after :
                 \/ y \in copies[t] \/ y = Moved(item, 1) \/ y = [item EXCEPT !.source = @ + 1]
    BY <2>1
  <2>3. t \in TimelineNames /\ item \in Clips /\ lead \in Int
    BY <1>0, <2>1, DressAssumption DEF CopiesOK, StagesOK
  <2>4. item.from \in Int
    BY <2>3 DEF Clips
  <2>5. /\ Moved(item, 1).id = item.id /\ Moved(item, 1).from = item.from + 1
    <3>1. 1 \in Int
      OBVIOUS
    <3> QED
      BY <2>3, <3>1, TrimmedType
  <2>6. /\ [item EXCEPT !.source = @ + 1].id = item.id
        /\ [item EXCEPT !.source = @ + 1].from = item.from
    BY <2>3 DEF Clips
  <2>7. \A y \in after : y \in copies[t] \/
           (y.id = item.id /\ (item.from >= lead => y.from >= lead))
    <3> SUFFICES ASSUME NEW y \in after, y \notin copies[t]
                 PROVE  y.id = item.id /\ (item.from >= lead => y.from >= lead)
      OBVIOUS
    <3>1. CASE y = Moved(item, 1)
      <4>1. y.id = item.id /\ y.from = item.from + 1
        BY <2>5, <3>1, Zenon
      <4> QED
        BY <2>3, <2>4, <4>1
    <3>2. CASE y = [item EXCEPT !.source = @ + 1]
      <4>1. y.id = item.id /\ y.from = item.from
        BY <2>6, <3>2, Zenon
      <4> QED
        BY <4>1
    <3> QED
      BY <2>2, <3>1, <3>2, Zenon
  <2>8. /\ copies'[t] = after
        /\ \A other \in TimelineNames \ {t} : copies'[other] = copies[other]
    BY <1>0, <2>2, <2>3
  <2>9. UNCHANGED <<lead, replies>>
    BY <1>6 DEF TrimItem
  <2>10. CASE t = "baseline"
    <3>1. copies'["cover"] = copies["cover"]
      BY <2>8, <2>10 DEF TimelineNames, Stages
    <3> QED
      BY <2>1, <2>7, <2>8, <2>9, <2>10, <3>1 DEF KindsInv
  <2>11. CASE t = "cover"
    <3>1. copies'["baseline"] = copies["baseline"]
      BY <2>8, <2>11 DEF TimelineNames, Stages
    <3> QED
      BY <2>1, <2>7, <2>8, <2>9, <2>11, <3>1 DEF KindsInv
  <2>12. CASE t \notin {"baseline", "cover"}
    <3>1. copies'["baseline"] = copies["baseline"] /\ copies'["cover"] = copies["cover"]
      BY <2>8, <2>12 DEF TimelineNames, Stages
    <3> QED
      BY <2>9, <3>1 DEF KindsInv
  <2> QED
    BY <2>10, <2>11, <2>12
<1> QED
  BY <1>1, <1>2, <1>3, <1>4, <1>5, <1>6 DEF DressNext

-----------------------------------------------------------------------------
(* The cover *)

\* A timeline without its B-roll.
Bare(items) == {item \in items : item.id[1] # "broll"}

\* Placeable, for a file that the plan was made for.
FillsOf(p, a) == Max({1, Refit(p.end - p.start + 1, a.rate, FilmRate)})
RoomFor(wish, items, a) ==
    /\ \A i, j \in DOMAIN wish :
          i < j /\ wish[i].track = wish[j].track =>
              ~Overlap(wish[i].at, wish[i].at + FillsOf(wish[i], a),
                       [from |-> wish[j].at, to |-> wish[j].at + FillsOf(wish[j], a)])
    /\ \A i \in DOMAIN wish : \A item \in items :
          item.track = wish[i].track =>
              ~Overlap(wish[i].at, wish[i].at + FillsOf(wish[i], a), Moved(item, -Start(items)))

\* The plan fits on these items.
Suits(items) ==
    /\ Places(Baseline) \subseteq Places(items)
    /\ RoomFor(agreed["cover"].wish, items, agreed["cover"].asset)

\* Unless the user was in between, the baseline is what the plan was made for from
\* the last preview until it is duplicated, and the duplicate is from then on, with
\* nothing else than the B-roll of the plan.
CoverInv ==
    "cover" \notin touched =>
        /\ dressing["cover"] # "idle" => agreed["cover"].asset = asset
        /\ dressing["cover"] = "checked" /\ copies["cover"] = {} => Suits(copies["baseline"])
        /\ copies["cover"] # {} => Suits(Bare(copies["cover"]))
        /\ replies["cover"] # {} =>
              LET wish == agreed["cover"].wish IN
              /\ agreed["cover"].asset = asset /\ wish \in Wishes
              /\ \E lengths :
                    /\ \A i \in DOMAIN wish : lengths[i] \in Lengths(wish[i])
                    /\ copies["cover"] = Bare(copies["cover"]) \cup Inserted(wish, lengths)

\* A step that does not work on the cover.
LEMMA CoverRests ==
    ASSUME CoverInv, UNCHANGED <<lead, asset>>,
           "cover" \in touched => "cover" \in touched',
           copies'["baseline"] = copies["baseline"] \/ dressing'["cover"] # "checked"
              \/ copies["cover"] # {},
           copies'["cover"] = copies["cover"], replies'["cover"] = replies["cover"],
           agreed'["cover"] = agreed["cover"],
           \/ dressing'["cover"] = dressing["cover"]
           \/ dressing'["cover"] = "idle"
           \/ dressing["cover"] # "idle" /\ dressing'["cover"] # "checked"
    PROVE  CoverInv'
<1>1. \A items : Suits(items)' <=> Suits(items)
  BY DEF Suits, Baseline
<1>2. \A p : Lengths(p)' = Lengths(p)
  BY DEF Lengths
<1> QED
  BY <1>1, <1>2 DEF CoverInv

\* Every step keeps the cover as it was reviewed.
LEMMA CoverKeeps ==
    ASSUME GInv, CopiesOK, StagesOK, KindsInv, CoverInv, DressNext
    PROVE  CoverInv'
<1>0. DOMAIN copies = TimelineNames /\ ShapeInv /\ PlanInv
  BY DEF GInv, CopiesInv
<1>1. ASSUME NEW stage \in Stages, Agree(stage)
      PROVE  CoverInv'
  <2>1. CASE stage = "cover"
    <3>1. /\ copies'["cover"] = {} /\ dressing'["cover"] = "idle" /\ replies'["cover"] = {}
      BY <1>1, <2>1 DEF Agree, StagesOK, Stages
    <3> QED
      BY <3>1 DEF CoverInv
  <2>2. CASE stage # "cover"
    <3>1. agreed'["cover"] = agreed["cover"]
      BY <1>0, <1>1, <2>2 DEF Agree, ShapeInv, Stages
    <3> QED
      BY <1>1, <3>1, CoverRests DEF Agree, WorldKept
  <2> QED
    BY <2>1, <2>2
<1>2. ASSUME NEW stage \in Stages, Dress(stage)
      PROVE  CoverInv'
  <2>1. UNCHANGED <<copies, agreed, mapped, replies, graded, accepted, lead, asset, touched>>
    BY <1>2 DEF Dress, WorldKept
  <2>2. CASE stage = "cover"
    <3>1. agreed["cover"] \in CoverPlans
      BY <1>2, <2>2 DEF Dress, StillAgreed, Plans
    <3>2. /\ agreed["cover"].asset = asset /\ BaselineComplete
          /\ Placeable(agreed["cover"].wish, copies["baseline"])
      BY <3>1 DEF CoverPlans
    <3>3. \A p : FillsOf(p, asset) = Fills(p)
      BY DEF FillsOf, Fills
    <3>4. RoomFor(agreed["cover"].wish, copies["baseline"], asset)
      BY <3>2, <3>3 DEF Placeable, Free, FreeAmongThemselves, RoomFor
    <3>5. Suits(copies["baseline"])
      BY <3>2, <3>4 DEF BaselineComplete, Suits
    <3>6. \A items : Suits(items)' <=> Suits(items)
      BY <2>1 DEF Suits, Baseline
    <3>7. \A p : Lengths(p)' = Lengths(p)
      BY <2>1 DEF Lengths
    <3> QED
      BY <2>1, <3>2, <3>5, <3>6, <3>7 DEF CoverInv
  <2>3. CASE stage # "cover"
    <3>1. dressing'["cover"] = dressing["cover"]
      BY <1>0, <1>2, <2>3 DEF Dress, Becomes, ShapeInv, Stages
    <3> QED
      BY <2>1, <3>1, CoverRests
  <2> QED
    BY <2>2, <2>3
<1>3. ASSUME NEW stage \in Stages, Copy(stage)
      PROVE  CoverInv'
  <2>1. UNCHANGED <<agreed, replies, lead, asset, touched>>
    BY <1>3 DEF Copy, WorldKept
  <2>2. copies'["baseline"] = copies["baseline"]
    BY <1>0, <1>3 DEF Copy, TimelineNames, Stages
  <2>3. CASE stage = "cover"
    <3>1. dressing["cover"] = "checked" /\ dressing'["cover"] = "copied"
      BY <1>0, <1>3, <2>3 DEF Copy, Becomes, ShapeInv, Stages
    <3>2. CASE copies["cover"] # {}
      <4>1. copies' = copies
        BY <1>3, <2>3, <3>2 DEF Copy
      <4> QED
        BY <2>1, <3>1, <4>1, CoverRests
    <3>3. CASE copies["cover"] = {}
      <4>1. copies'["cover"] = copies["baseline"] /\ replies["cover"] = {}
        BY <1>0, <1>3, <2>3, <3>3 DEF Copy, Before, StagesOK, TimelineNames, Stages
      <4>2. Bare(copies["baseline"]) = copies["baseline"]
        BY DEF Bare, KindsInv
      <4>3. \A items : Suits(items)' <=> Suits(items)
        BY <2>1 DEF Suits, Baseline
      <4> QED
        BY <2>1, <3>1, <3>3, <4>1, <4>2, <4>3 DEF CoverInv
    <3> QED
      BY <3>2, <3>3
  <2>4. CASE stage # "cover"
    <3>1. dressing'["cover"] = dressing["cover"] /\ copies'["cover"] = copies["cover"]
      BY <1>0, <1>3, <2>4 DEF Copy, Becomes, ShapeInv, TimelineNames, Stages
    <3> QED
      BY <2>1, <2>2, <3>1, CoverRests
  <2> QED
    BY <2>3, <2>4
<1>4. CASE InsertCover
  <2>1. /\ UNCHANGED <<agreed, lead, asset, touched>>
        /\ dressing["cover"] = "copied" /\ dressing'["cover"] = "changed"
    BY <1>0, <1>4 DEF InsertCover, Becomes, WorldKept, ShapeInv, Stages
  <2>2. CASE replies["cover"] # {}
    <3>1. UNCHANGED <<copies, replies>>
      BY <1>4, <2>2 DEF InsertCover
    <3> QED
      BY <2>1, <3>1, CoverRests
  <2>3. CASE replies["cover"] = {}
    <3> DEFINE wish == agreed["cover"].wish
    <3>1. PICK lengths :
             /\ \A i \in DOMAIN wish : lengths[i] \in Lengths(wish[i])
             /\ copies' = [copies EXCEPT !["cover"] = @ \cup Inserted(wish, lengths)]
      BY <1>4, <2>3 DEF InsertCover
    <3>2. copies'["cover"] = copies["cover"] \cup Inserted(wish, lengths)
      BY <1>0, <3>1 DEF TimelineNames, Stages
    <3>3. \A x \in Inserted(wish, lengths) : x.id[1] = "broll"
      BY DEF Inserted, Item
    <3>4. Bare(copies["cover"]) = copies["cover"]
      BY <2>3 DEF Bare, KindsInv
    <3>5. Bare(copies'["cover"]) = copies["cover"]
      BY <3>2, <3>3, <3>4 DEF Bare
    <3>6. copies["cover"] # {}
      BY <2>1 DEF StagesOK, Stages
    <3>7. \A items : Suits(items)' <=> Suits(items)
      BY <2>1 DEF Suits, Baseline
    <3>8. \A p : Lengths(p)' = Lengths(p)
      BY <2>1 DEF Lengths
    <3> HIDE DEF wish
    <3>9. CASE "cover" \notin touched
      <4>1. Suits(copies["cover"]) /\ agreed["cover"].asset = asset
        BY <2>1, <3>4, <3>6, <3>9 DEF CoverInv
      <4>4. wish \in Wishes
        BY <1>0, <2>1 DEF PlanInv, wish
      <4>2. copies'["cover"] = Bare(copies'["cover"]) \cup Inserted(wish, lengths)
        BY <3>2, <3>5
      <4>3. Suits(Bare(copies["cover"]))'
        BY <3>5, <3>7, <4>1
      <4> QED
        BY <2>1, <3>1, <3>8, <4>1, <4>2, <4>3, <4>4 DEF CoverInv, wish
    <3> QED
      BY <2>1, <3>9 DEF CoverInv
  <2> QED
    BY <2>2, <2>3
<1>5. CASE InsertTitle \/ MapTargets \/ Grade
  <2>1. /\ UNCHANGED <<agreed, lead, asset, touched>>
        /\ copies' = copies \/ \E items : copies' = [copies EXCEPT !["title"] = items]
        /\ \E stage \in {"title", "grade"} :
              /\ \E label : dressing' = [dressing EXCEPT ![stage] = label]
              /\ replies' = replies \/ \E items : replies' = [replies EXCEPT ![stage] = items]
    BY <1>5 DEF InsertTitle, MapTargets, Grade, WorldKept, Becomes, Replies
  <2>2. /\ copies'["baseline"] = copies["baseline"] /\ copies'["cover"] = copies["cover"]
    BY <1>0, <2>1 DEF TimelineNames, Stages
  <2>3. replies'["cover"] = replies["cover"] /\ dressing'["cover"] = dressing["cover"]
    BY <1>0, <2>1 DEF ShapeInv, Stages
  <2> QED
    BY <2>1, <2>2, <2>3, CoverRests
<1>6. ASSUME NEW stage \in Stages, Accept(stage) \/ GiveUpDressing(stage)
      PROVE  CoverInv'
  <2>1. /\ UNCHANGED <<copies, replies, agreed, lead, asset, touched>>
        /\ dressing' = [dressing EXCEPT ![stage] = "idle"]
    BY <1>6 DEF Accept, GiveUpDressing, WorldKept, Becomes
  <2>2. dressing'["cover"] = dressing["cover"] \/ dressing'["cover"] = "idle"
    BY <1>0, <2>1 DEF ShapeInv, Stages
  <2> QED
    BY <2>1, <2>2, CoverRests
<1>7. ASSUME NEW t \in DOMAIN copies, TrimItem(t)
      PROVE  CoverInv'
  <2>1. /\ UNCHANGED <<lead, asset, agreed, dressing, replies>>
        /\ touched' = touched \cup Disturbed(t)
    BY <1>7 DEF TrimItem
  <2>2. \A other \in TimelineNames \ {t} : copies'[other] = copies[other]
    BY <1>0, <1>7 DEF TrimItem
  <2>3. CASE "cover" \in Disturbed(t)
    BY <2>1, <2>3 DEF CoverInv
  <2>4. CASE "cover" \notin Disturbed(t)
    <3>1. t # "cover" /\ (t = "baseline" => dressing["cover"] = "idle" \/ copies["cover"] # {})
      BY <2>4 DEF Disturbed, Before
    <3>2. copies'["cover"] = copies["cover"]
      BY <2>2, <3>1 DEF TimelineNames, Stages
    <3>3. t # "baseline" => copies'["baseline"] = copies["baseline"]
      BY <2>2 DEF TimelineNames
    <3> QED
      BY <2>1, <3>1, <3>2, <3>3, CoverRests
  <2> QED
    BY <2>3, <2>4
<1>8. CASE ReplaceAsset
  <2>1. UNCHANGED <<lead, copies, agreed, dressing, replies>>
    BY <1>8 DEF ReplaceAsset
  <2>2. CASE dressing["cover"] # "idle" \/ replies["cover"] # {}
    BY <1>8, <2>2 DEF ReplaceAsset, CoverInv
  <2>3. CASE dressing["cover"] = "idle" /\ replies["cover"] = {}
    <3>1. touched' = touched
      BY <1>8, <2>3 DEF ReplaceAsset
    <3>2. \A items : Suits(items)' <=> Suits(items)
      BY <2>1 DEF Suits, Baseline
    <3> QED
      BY <2>1, <2>3, <3>1, <3>2 DEF CoverInv
  <2> QED
    BY <2>2, <2>3
<1> QED
  BY <1>1, <1>2, <1>3, <1>4, <1>5, <1>6, <1>7, <1>8 DEF DressNext

\* What is inserted is not longer than the room that is left for it.
LEMMA RoomIsKept ==
    ASSUME asset \in Assets, asset.rate <= 2 * FilmRate,
           NEW p \in [start: Nat, end: Nat, at: Nat, track: Nat], p.start < p.end,
           NEW n \in Lengths(p)
    PROVE  n \in Int /\ FillsOf(p, asset) \in Int /\ n <= FillsOf(p, asset)
<1> DEFINE frames == p.end - p.start
           fps == asset.rate
           refit == Refit(frames + 1, fps, FilmRate)
           up == (frames * FilmRate + fps - 1) \div fps
           down == (frames * FilmRate) \div fps
<1>1. fps \in Nat \ {0} /\ FilmRate \in Nat \ {0} /\ frames \in Nat
  BY DressAssumption
<1>2. n \in {down, up}
  BY DEF Lengths
<1> HIDE DEF frames
<1>3. frames * FilmRate \in Int
  BY <1>1, TimesInt
<1> DEFINE all == frames * FilmRate
<1> HIDE DEF all
<1>4. all \in Int /\ down = all \div fps /\ up = (all + fps - 1) \div fps
  BY <1>3 DEF all
<1> HIDE DEF fps, down, up
<1>5. /\ down \in Int /\ fps * down <= all
      /\ up \in Int /\ all + fps - 1 < fps * up + fps
  <2>1. all \in Int /\ all + fps - 1 \in Int
    BY <1>1, <1>4
  <2> QED
    BY <1>1, <1>4, <2>1, Quotient
<1>6. down <= up
  <2>1. fps * (up + 1) = fps * up + fps /\ fps * up \in Int /\ fps * down \in Int
    BY <1>1, <1>5, TimesInt, SMT
  <2>2. fps * down < fps * (up + 1)
    BY <1>1, <1>4, <1>5, <2>1
  <2>3. up + 1 \in Int
    BY <1>5
  <2>4. down < up + 1
    BY <1>1, <1>5, <2>2, <2>3, TimesStrict
  <2> QED
    BY <1>5, <2>4
<1>7. up <= refit
  <2>1. fps <= 2 * FilmRate
    BY DEF fps
  <2> QED
    BY <1>1, <2>1, RoomIsEnough DEF up
<1>8. refit \in Int
  <2> DEFINE a == 2 * (frames + 1) * FilmRate + fps
             b == 2 * fps
  <2>1. (frames + 1) * FilmRate \in Int
    BY <1>1, TimesInt
  <2>2. 2 * (frames + 1) * FilmRate = 2 * ((frames + 1) * FilmRate)
    BY <1>1, SMT
  <2>3. a \in Int /\ b \in Nat \ {0}
    BY <1>1, <2>1, <2>2
  <2>4. refit = a \div b
    BY DEF Refit
  <2> HIDE DEF a, b, refit
  <2> QED
    BY <2>3, <2>4, Quotient
<1>9. FillsOf(p, asset) = Max({1, refit})
  BY DEF FillsOf, frames, fps
<1> HIDE DEF refit
<1>10. Max({1, refit}) \in {1, refit} /\ refit <= Max({1, refit})
  <2> DEFINE S == {1, refit}
  <2>1. IsFiniteSet(S)
    <3>1. S = {1} \cup {refit}
      OBVIOUS
    <3>2. IsFiniteSet({1}) /\ IsFiniteSet({refit})
      BY FS_Singleton
    <3> HIDE DEF S
    <3>3. IsFiniteSet({1} \cup {refit})
      BY <3>2, FS_Union
    <3> QED
      BY <3>1, <3>3
  <2>2. S # {} /\ (\A x \in S : x \in Int) /\ refit \in S
    BY <1>8
  <2> HIDE DEF S
  <2>3. Max(S) \in S /\ \A y \in S : y <= Max(S)
    BY <2>1, <2>2, Greatest
  <2> QED
    BY <2>2, <2>3 DEF S
<1> QED
  BY <1>2, <1>5, <1>6, <1>7, <1>8, <1>9, <1>10

\* A timeline that begins at zero does.
LEMMA StartsAt ==
    ASSUME NEW items, \A item \in items : item.from \in Int /\ item.from >= 0,
           NEW first \in items, first.from = 0
    PROVE  Start(items) = 0
<1> DEFINE S == {item.from : item \in items}
<1>1. 0 \in S /\ \A y \in S : y \in Int /\ 0 <= y
  OBVIOUS
<1> HIDE DEF S
<1>2. \E x \in S : \A y \in S : x <= y
  BY <1>1
<1>3. Min(S) \in S /\ \A y \in S : Min(S) <= y
  BY <1>2 DEF Min
<1>4. Min(S) = 0
  BY <1>1, <1>3
<1> QED
  BY <1>4 DEF Start, S

\* An accepted cover is the reviewed one.
LEMMA CoverShows ==
    ASSUME GInv, CopiesOK, StagesOK, KindsInv, CoverInv
    PROVE  CoverIsAgreed
<1> DEFINE items == copies["cover"]
           wish == agreed["cover"].wish
           broll == {item \in items : item.id[1] = "broll"}
<1> SUFFICES ASSUME accepted["cover"] # {}, "cover" \notin touched
             PROVE  /\ Places(Baseline) \subseteq Places(items)
                    /\ Cardinality(broll) = Len(wish)
                    /\ \A i \in DOMAIN wish : \E item \in broll :
                          /\ item.id = <<"broll", i>> /\ item.track = wish[i].track
                          /\ item.from = wish[i].at /\ item.source = wish[i].start
                    /\ lead = 0 /\ asset.rate <= 2 * FilmRate =>
                          \A b \in broll : \A item \in items \ {b} :
                             item.track = b.track => ~Overlap(b.from, b.to, item)
  BY DEF CoverIsAgreed
<1>1. replies["cover"] # {} /\ items # {} /\ asset \in Assets
  BY DEF StagesOK, Stages
<1>2. PICK lengths :
         /\ \A i \in DOMAIN wish : lengths[i] \in Lengths(wish[i])
         /\ items = Bare(items) \cup Inserted(wish, lengths)
  BY <1>1 DEF CoverInv
<1>3. agreed["cover"].asset = asset /\ Suits(Bare(items))
  BY <1>1 DEF CoverInv
<1>4. wish \in Wishes /\ wish \in Seq([start: Nat, end: Nat, at: Nat, track: Nat])
  BY <1>1, DressAssumption DEF CoverInv
<1> DEFINE R == [start: Nat, end: Nat, at: Nat, track: Nat]
           one(i) == Item(<<"broll", i>>, wish[i].track, wish[i].at, wish[i].at + lengths[i],
                          wish[i].start, TRUE)
           base == Bare(items)
<1>5. \A i \in DOMAIN wish : wish[i] \in R /\ i \in Int
  <2> SUFFICES ASSUME NEW i \in DOMAIN wish
               PROVE  wish[i] \in R /\ i \in Int
    OBVIOUS
  <2>1. wish \in Seq(R)
    BY <1>4
  <2> HIDE DEF R, wish
  <2>2. i \in 1 .. Len(wish) /\ Len(wish) \in Nat
    BY <2>1
  <2> QED
    BY <2>1, <2>2, ElementOfSeq
<1>6. \A x \in Inserted(wish, lengths) : \E i \in DOMAIN wish : x = one(i)
  BY DEF Inserted
<1>7. \A i \in DOMAIN wish : one(i) \in Inserted(wish, lengths)
  BY DEF Inserted
<1>8. \A i \in DOMAIN wish :
         /\ one(i).id = <<"broll", i>> /\ one(i).track = wish[i].track
         /\ one(i).from = wish[i].at /\ one(i).to = wish[i].at + lengths[i]
         /\ one(i).source = wish[i].start /\ one(i).id[1] = "broll"
  BY DEF Item
<1> HIDE DEF one
<1>9. broll = Inserted(wish, lengths) /\ items \ broll = base
  BY <1>2, <1>6, <1>8 DEF Bare
<1>10. Places(Baseline) \subseteq Places(items)
  <2>1. Places(Baseline) \subseteq Places(base)
    BY <1>3 DEF Suits
  <2>2. Places(base) \subseteq Places(items)
    BY DEF Places, Bare
  <2> QED
    BY <2>1, <2>2
<1>11. Cardinality(broll) = Len(wish)
  <2>1. Cardinality(Inserted(wish, lengths)) = Len(wish)
    <3> HIDE DEF wish
    <3> QED
      BY <1>1, <1>2, <1>4, InsertedType
  <2> QED
    BY <1>9, <2>1
<1>12. \A i \in DOMAIN wish : \E item \in broll :
          /\ item.id = <<"broll", i>> /\ item.track = wish[i].track
          /\ item.from = wish[i].at /\ item.source = wish[i].start
  BY <1>7, <1>8, <1>9
<1>13. ASSUME lead = 0, asset.rate <= 2 * FilmRate,
              NEW b \in broll, NEW item \in items \ {b}, item.track = b.track
       PROVE  ~Overlap(b.from, b.to, item)
  <2>1. PICK i \in DOMAIN wish : b = one(i)
    BY <1>6, <1>9
  <2>2. \A j \in DOMAIN wish :
           /\ lengths[j] \in Int /\ FillsOf(wish[j], asset) \in Int
           /\ lengths[j] <= FillsOf(wish[j], asset) /\ wish[j].at \in Int
    <3> SUFFICES ASSUME NEW j \in DOMAIN wish
                 PROVE  /\ lengths[j] \in Int /\ FillsOf(wish[j], asset) \in Int
                        /\ lengths[j] <= FillsOf(wish[j], asset) /\ wish[j].at \in Int
      OBVIOUS
    <3> DEFINE p == wish[j]
               n == lengths[j]
    <3>1. p \in R /\ p.start < p.end /\ n \in Lengths(p)
      BY <1>2, <1>4, <1>5, DressAssumption
    <3>2. p.at \in Int
      BY <3>1
    <3> HIDE DEF p, n, wish
    <3>3. n \in Int /\ FillsOf(p, asset) \in Int /\ n <= FillsOf(p, asset)
      BY <1>1, <1>13, <3>1, RoomIsKept DEF R
    <3> QED
      BY <3>2, <3>3 DEF p, n
  <2>3. RoomFor(wish, base, asset)
    BY <1>3 DEF Suits
  <2>4. CASE item \in base
    <3>1. Start(base) = 0
      <4>1. \A x \in base : x.from \in Int /\ x.from >= 0
        <5>1. \A x \in items : x \in Clips
          BY DEF CopiesOK, TimelineNames, Stages
        <5>2. \A x \in base : x.from >= 0
          BY <1>13 DEF Bare, KindsInv
        <5> QED
          BY <5>1, <5>2 DEF Bare, Clips
      <4>2. PICK first \in FinalItems : first.from = 0
        BY DressAssumption
      <4>3. Place(Moved(first, lead)) \in Places(Baseline)
        BY DEF Places, Baseline
      <4>4. PICK x \in base : Place(x) = Place(Moved(first, lead))
        BY <1>3, <4>3 DEF Suits, Places
      <4>5. Moved(first, lead).from = 0
        <5>1. first \in Clips /\ 0 \in Int
          BY <4>2, DressAssumption
        <5>2. Moved(first, 0).from = first.from + 0
          BY <5>1, TrimmedType
        <5> QED
          BY <1>13, <4>2, <5>2
      <4>6. x.from = 0
        BY <4>4, <4>5 DEF Place
      <4> HIDE DEF base
      <4> QED
        BY <4>1, <4>6, StartsAt
    <3>2. item \in Clips /\ -Start(base) = 0 /\ 0 \in Int
      <4>1. -Start(base) = 0
        <5> DEFINE s == Start(base)
        <5>1. s = 0
          BY <3>1
        <5> HIDE DEF s
        <5>2. s \in Int
          BY <5>1
        <5>3. 0 - s = -s
          BY <5>2
        <5>4. 0 - s = 0
          BY <5>1
        <5> QED
          BY <5>3, <5>4 DEF s
      <4>2. copies["cover"] \subseteq Clips
        BY DEF CopiesOK, TimelineNames, Stages
      <4> QED
        BY <4>1, <4>2
    <3>3. /\ Moved(item, 0).from = item.from + 0 /\ Moved(item, 0).to = item.to + 0
      BY <3>2, TrimmedType
    <3>4. item.from \in Int /\ item.to \in Int
      BY <3>2 DEF Clips
    <3>5. ~Overlap(wish[i].at, wish[i].at + FillsOf(wish[i], asset), Moved(item, 0))
      BY <1>8, <1>13, <2>1, <2>3, <2>4, <3>2 DEF RoomFor
    <3> QED
      BY <1>8, <2>1, <2>2, <3>3, <3>4, <3>5 DEF Overlap
  <2>5. CASE item \in broll
    <3>1. PICK j \in DOMAIN wish : item = one(j)
      BY <1>6, <1>9, <2>5
    <3>2. i # j /\ i \in Int /\ j \in Int
      BY <1>5, <1>13, <2>1, <3>1
    <3>3. wish[i].track = wish[j].track
      BY <1>8, <1>13, <2>1, <3>1
    <3>4. \A k, l \in DOMAIN wish : k < l /\ wish[k].track = wish[l].track =>
             \/ wish[k].at >= wish[l].at + FillsOf(wish[l], asset)
             \/ wish[l].at >= wish[k].at + FillsOf(wish[k], asset)
      BY <2>2, <2>3 DEF RoomFor, Overlap
    <3>5. \/ wish[i].at >= wish[j].at + FillsOf(wish[j], asset)
          \/ wish[j].at >= wish[i].at + FillsOf(wish[i], asset)
      BY <3>2, <3>3, <3>4
    <3> QED
      BY <1>8, <2>1, <2>2, <3>1, <3>5 DEF Overlap
  <2> QED
    BY <1>9, <2>4, <2>5
<1> QED
  BY <1>10, <1>11, <1>12, <1>13

-----------------------------------------------------------------------------
(* The animation *)

\* The item that the stage inserts.
Animation(item) == item.id = <<"animation", 1>>

\* Unless the user was in between, the film is what the plan has seen until it is
\* duplicated, and the duplicate is from then on, with nothing else than the animation,
\* behind all of it.
TitleInv ==
    "title" \notin touched =>
        /\ dressing["title"] # "idle" /\ copies["title"] = {} =>
              agreed["title"].snapshot = Places(copies["cover"])
        /\ copies["title"] # {} =>
              Places({item \in copies["title"] : ~Animation(item)}) = agreed["title"].snapshot
        /\ replies["title"] = {} => \A item \in copies["title"] : ~Animation(item)
        /\ replies["title"] # {} =>
              \E one \in copies["title"] :
                 Animation(one) /\ \A item \in copies["title"] \ {one} : item.to <= one.from

\* A step that does not work on the animation.
LEMMA TitleRests ==
    ASSUME TitleInv, "title" \in touched => "title" \in touched',
           copies'["cover"] = copies["cover"] \/ dressing'["title"] = "idle"
              \/ copies["title"] # {},
           copies'["title"] = copies["title"], replies'["title"] = replies["title"],
           agreed'["title"] = agreed["title"],
           dressing'["title"] = "idle" \/ dressing["title"] # "idle"
    PROVE  TitleInv'
  BY DEF TitleInv

\* Every step keeps the film under the animation as it was reviewed.
LEMMA TitleKeeps ==
    ASSUME GInv, CopiesOK, StagesOK, KindsInv, TitleInv, DressNext
    PROVE  TitleInv'
<1>0. DOMAIN copies = TimelineNames /\ ShapeInv /\ PlanInv
  BY DEF GInv, CopiesInv
<1>1. ASSUME NEW stage \in Stages, Agree(stage)
      PROVE  TitleInv'
  <2>1. CASE stage = "title"
    <3>1. /\ copies'["title"] = {} /\ dressing'["title"] = "idle" /\ replies'["title"] = {}
      BY <1>1, <2>1 DEF Agree, StagesOK, Stages
    <3> QED
      BY <3>1 DEF TitleInv
  <2>2. CASE stage # "title"
    <3>1. agreed'["title"] = agreed["title"]
      BY <1>0, <1>1, <2>2 DEF Agree, ShapeInv, Stages
    <3> QED
      BY <1>1, <3>1, TitleRests DEF Agree, WorldKept
  <2> QED
    BY <2>1, <2>2
<1>2. ASSUME NEW stage \in Stages, Dress(stage)
      PROVE  TitleInv'
  <2>1. UNCHANGED <<copies, agreed, replies, touched>>
    BY <1>2 DEF Dress, WorldKept
  <2>2. CASE stage = "title"
    <3>1. agreed["title"] \in TitlePlans
      BY <1>2, <2>2 DEF Dress, StillAgreed, Plans
    <3>2. agreed["title"].snapshot = Places(copies["cover"])
      BY <3>1 DEF TitlePlans
    <3> QED
      BY <2>1, <3>2 DEF TitleInv
  <2>3. CASE stage # "title"
    <3>1. dressing'["title"] = dressing["title"]
      BY <1>0, <1>2, <2>3 DEF Dress, Becomes, ShapeInv, Stages
    <3> QED
      BY <2>1, <3>1, TitleRests
  <2> QED
    BY <2>2, <2>3
<1>3. ASSUME NEW stage \in Stages, Copy(stage)
      PROVE  TitleInv'
  <2>1. UNCHANGED <<agreed, replies, touched>>
    BY <1>3 DEF Copy, WorldKept
  <2>2. CASE stage = "title"
    <3>1. dressing["title"] = "checked" /\ dressing'["title"] = "copied"
      BY <1>0, <1>3, <2>2 DEF Copy, Becomes, ShapeInv, Stages
    <3>2. CASE copies["title"] # {}
      <4>1. copies' = copies
        BY <1>3, <2>2, <3>2 DEF Copy
      <4> QED
        BY <2>1, <3>1, <4>1, TitleRests
    <3>3. CASE copies["title"] = {}
      <4>1. copies'["title"] = copies["cover"] /\ replies["title"] = {}
        BY <1>0, <1>3, <2>2, <3>3 DEF Copy, Before, StagesOK, TimelineNames, Stages
      <4>2. copies["cover"] # {}
        BY <3>1 DEF StagesOK, Stages
      <4>3. \A item \in copies["cover"] : ~Animation(item)
        BY DEF KindsInv, Animation
      <4>4. {item \in copies["cover"] : ~Animation(item)} = copies["cover"]
        BY <4>3
      <4> QED
        BY <2>1, <3>1, <3>3, <4>1, <4>2, <4>3, <4>4 DEF TitleInv
    <3> QED
      BY <3>2, <3>3
  <2>3. CASE stage # "title"
    <3>1. dressing'["title"] = dressing["title"] /\ copies'["title"] = copies["title"]
      BY <1>0, <1>3, <2>3 DEF Copy, Becomes, ShapeInv, TimelineNames, Stages
    <3>2. copies'["cover"] = copies["cover"] \/ dressing["title"] = "idle"
      <4>1. CASE stage = "cover"
        BY <1>3, <4>1 DEF Copy, StagesOK, Stages
      <4>2. CASE stage # "cover"
        BY <1>0, <1>3, <4>2 DEF Copy, TimelineNames, Stages
      <4> QED
        BY <4>1, <4>2
    <3> QED
      BY <2>1, <3>1, <3>2, TitleRests
  <2> QED
    BY <2>2, <2>3
<1>4. CASE InsertCover
  <2>1. /\ UNCHANGED <<agreed, touched>>
        /\ dressing["cover"] = "copied" /\ dressing' = [dressing EXCEPT !["cover"] = "changed"]
        /\ copies' = copies \/ \E items : copies' = [copies EXCEPT !["cover"] = items]
        /\ replies' = replies \/ \E items : replies' = [replies EXCEPT !["cover"] = items]
    BY <1>4 DEF InsertCover, WorldKept, Becomes, Replies
  <2>2. /\ copies'["title"] = copies["title"] /\ replies'["title"] = replies["title"]
        /\ dressing'["title"] = dressing["title"]
    BY <1>0, <2>1 DEF ShapeInv, TimelineNames, Stages
  <2>3. dressing["title"] = "idle"
    BY <2>1 DEF StagesOK, Stages
  <2> QED
    BY <2>1, <2>2, <2>3, TitleRests
<1>5. CASE InsertTitle
  <2>1. /\ UNCHANGED <<agreed, touched>>
        /\ dressing["title"] = "copied" /\ copies["title"] # {}
        /\ \E label : dressing' = [dressing EXCEPT !["title"] = label]
    BY <1>5 DEF InsertTitle, WorldKept, Becomes, StagesOK, Stages
  <2>2. CASE UNCHANGED <<copies, replies>>
    BY <2>1, <2>2, TitleRests
  <2>3. CASE ~UNCHANGED <<copies, replies>>
    <3> DEFINE at == agreed["title"].at
               item == Item(<<"animation", 1>>, 1, at, at + 2, 0, FALSE)
    <3>1. /\ copies' = [copies EXCEPT !["title"] = @ \cup {item}]
          /\ replies' = [replies EXCEPT !["title"] = {item}]
          /\ at = End(copies["title"]) /\ replies["title"] = {}
      BY <1>5, <2>3 DEF InsertTitle, Replies
    <3>2. /\ IsFiniteSet(copies["title"]) /\ \A x \in copies["title"] : x \in Clips
      BY DEF CopiesOK, TimelineNames, Stages
    <3>3. \A x \in copies["title"] : x.to <= at
      BY <2>1, <3>1, <3>2, EndOf
    <3>4. Animation(item) /\ item.from = at
      BY DEF Animation, Item
    <3> HIDE DEF item
    <3>5. copies'["title"] = copies["title"] \cup {item} /\ replies'["title"] = {item}
      BY <1>0, <3>1 DEF ShapeInv, TimelineNames, Stages
    <3>6. CASE "title" \notin touched
      <4>1. \A x \in copies["title"] : ~Animation(x)
        BY <3>1, <3>6 DEF TitleInv
      <4>2. {x \in copies'["title"] : ~Animation(x)} = {x \in copies["title"] : ~Animation(x)}
        BY <3>4, <3>5
      <4>3. /\ Places({x \in copies'["title"] : ~Animation(x)}) = agreed["title"].snapshot
            /\ copies'["title"] # {} /\ replies'["title"] # {}
        BY <2>1, <3>5, <3>6, <4>2 DEF TitleInv
      <4>4. /\ item \in copies'["title"]
            /\ \A x \in copies'["title"] \ {item} : x.to <= item.from
        BY <3>3, <3>4, <3>5
      <4> QED
        BY <2>1, <3>4, <4>3, <4>4 DEF TitleInv
    <3> QED
      BY <2>1, <3>6 DEF TitleInv
  <2> QED
    BY <2>2, <2>3
<1>6. CASE MapTargets \/ Grade \/ ReplaceAsset
  <2>1. /\ UNCHANGED <<copies, agreed>> /\ touched \subseteq touched'
        /\ dressing' = dressing \/ \E label : dressing' = [dressing EXCEPT !["grade"] = label]
        /\ replies' = replies \/ \E items : replies' = [replies EXCEPT !["grade"] = items]
    BY <1>6 DEF MapTargets, Grade, ReplaceAsset, WorldKept, Becomes, Replies
  <2>2. replies'["title"] = replies["title"] /\ dressing'["title"] = dressing["title"]
    BY <1>0, <2>1 DEF ShapeInv, Stages
  <2> QED
    BY <2>1, <2>2, TitleRests
<1>7. ASSUME NEW stage \in Stages, Accept(stage) \/ GiveUpDressing(stage)
      PROVE  TitleInv'
  <2>1. /\ UNCHANGED <<copies, replies, agreed, touched>>
        /\ dressing' = [dressing EXCEPT ![stage] = "idle"]
    BY <1>7 DEF Accept, GiveUpDressing, WorldKept, Becomes
  <2>2. dressing'["title"] = dressing["title"] \/ dressing'["title"] = "idle"
    BY <1>0, <2>1 DEF ShapeInv, Stages
  <2> QED
    BY <2>1, <2>2, TitleRests
<1>8. ASSUME NEW t \in DOMAIN copies, TrimItem(t)
      PROVE  TitleInv'
  <2>1. /\ UNCHANGED <<agreed, dressing, replies>>
        /\ touched' = touched \cup Disturbed(t)
    BY <1>8 DEF TrimItem
  <2>2. \A other \in TimelineNames \ {t} : copies'[other] = copies[other]
    BY <1>0, <1>8 DEF TrimItem
  <2>3. CASE "title" \in Disturbed(t)
    BY <2>1, <2>3 DEF TitleInv
  <2>4. CASE "title" \notin Disturbed(t)
    <3>1. t # "title" /\ (t = "cover" => dressing["title"] = "idle" \/ copies["title"] # {})
      BY <2>4 DEF Disturbed, Before
    <3>2. copies'["title"] = copies["title"]
      BY <2>2, <3>1 DEF TimelineNames, Stages
    <3>3. t # "cover" => copies'["cover"] = copies["cover"]
      BY <2>2 DEF TimelineNames, Stages
    <3> QED
      BY <2>1, <3>1, <3>2, <3>3, TitleRests
  <2> QED
    BY <2>3, <2>4
<1> QED
  BY <1>1, <1>2, <1>3, <1>4, <1>5, <1>6, <1>7, <1>8 DEF DressNext

\* An accepted animation is behind all that was reviewed.
LEMMA TitleShows ==
    ASSUME GInv, StagesOK, TitleInv
    PROVE  TitleIsAgreed
<1> DEFINE animations == {item \in copies["title"] : item.id = <<"animation", 1>>}
<1> SUFFICES ASSUME accepted["title"] # {}, "title" \notin touched
             PROVE  /\ Places(copies["title"] \ animations) = agreed["title"].snapshot
                    /\ \E one \in animations : \A item \in copies["title"] \ {one} :
                          item.to <= one.from
  BY DEF TitleIsAgreed
<1>1. replies["title"] # {} /\ copies["title"] # {}
  BY DEF StagesOK, Stages
<1>2. copies["title"] \ animations = {item \in copies["title"] : ~Animation(item)}
  BY DEF Animation
<1>3. Places(copies["title"] \ animations) = agreed["title"].snapshot
  BY <1>1, <1>2 DEF TitleInv
<1>4. \E one \in animations : \A item \in copies["title"] \ {one} : item.to <= one.from
  BY <1>1 DEF TitleInv, Animation
<1> QED
  BY <1>3, <1>4

-----------------------------------------------------------------------------
(* All desks *)

DressInv == CopiesOK /\ StagesOK /\ KindsInv /\ CoverInv /\ TitleInv

\* The film begins with its baseline, which has items, and begins at its lead.
LEMMA DressBegins ==
    ASSUME DressInit
    PROVE  DressInv
<1>1. /\ DOMAIN copies = TimelineNames /\ copies["baseline"] = Baseline
      /\ \A t \in TimelineNames \ {"baseline"} : copies[t] = {}
      /\ copies["cover"] = {} /\ copies["title"] = {}
  BY DEF DressInit, TimelineNames, Stages
<1>2. lead \in Nat /\ lead \in Int
  BY DressAssumption DEF DressInit
<1>3. ASSUME NEW item \in FinalItems
      PROVE  /\ Moved(item, lead) \in Clips /\ Moved(item, lead).from >= lead
             /\ Moved(item, lead).id[1] \notin {"broll", "animation"}
  <2>1. item \in Clips /\ item.from >= 0 /\ item.id[1] \notin {"broll", "animation"}
    BY DressAssumption
  <2>2. /\ Moved(item, lead) \in Clips /\ Moved(item, lead).id = item.id
        /\ Moved(item, lead).from = item.from + lead
    BY <1>2, <2>1, TrimmedType
  <2>3. item.from \in Int
    BY <2>1 DEF Clips
  <2> QED
    BY <1>2, <2>1, <2>2, <2>3
<1>4. \A x \in Baseline : /\ x \in Clips /\ x.from >= lead
                         /\ x.id[1] \notin {"broll", "animation"}
  BY <1>3 DEF Baseline
<1>5. IsFiniteSet(Baseline) /\ Baseline # {}
  <2> DEFINE f == [item \in FinalItems |-> Moved(item, lead)]
  <2>1. f \in Surjection(FinalItems, Baseline)
    BY DEF Surjection, Baseline
  <2>2. IsFiniteSet(FinalItems) /\ Baseline # {}
    BY DressAssumption DEF Baseline
  <2> HIDE DEF f
  <2> QED
    BY <2>1, <2>2, FS_Surjection
<1>6. CopiesOK
  <2>1. IsFiniteSet({})
    BY FS_EmptySet
  <2> QED
    BY <1>1, <1>4, <1>5, <2>1 DEF CopiesOK
<1>7. StagesOK
  BY DressAssumption DEF DressInit, StagesOK, Stages
<1>8. KindsInv
  BY <1>1, <1>4 DEF KindsInv
<1>9. CoverInv /\ TitleInv
  BY <1>1 DEF DressInit, CoverInv, TitleInv, Stages
<1> QED
  BY <1>6, <1>7, <1>8, <1>9 DEF DressInv

\* Every step keeps what is on the timelines.
LEMMA DressNextKeeps ==
    ASSUME GInv, DressInv, DressNext \/ UNCHANGED dressVars
    PROVE  DressInv'
<1>1. CASE DressNext
  BY <1>1, TimelinesKeep, StagesKeep, KindsKeep, CoverKeeps, TitleKeeps DEF DressInv
<1>2. CASE UNCHANGED dressVars
  <2>1. CopiesOK' /\ StagesOK' /\ KindsInv' /\ TitleInv'
    BY <1>2 DEF dressVars, DressInv, CopiesOK, StagesOK, KindsInv, TitleInv
  <2>2. CoverInv'
    BY <1>2, CoverRests DEF dressVars, DressInv
  <2> QED
    BY <2>1, <2>2 DEF DressInv
<1> QED
  BY <1>1, <1>2

\* The invariant of the four desks.
EditorialInv ==
    /\ desk \in {"cut", "take", "delivery", "dress"}
    /\ CInv /\ TInv /\ DInv /\ GInv /\ DressInv

\* The invariant holds in every reachable state, whoever sits at the desk.
THEOREM EditorialInvariant == Spec => []EditorialInv
<1>1. Init => EditorialInv
  <2> SUFFICES ASSUME Init PROVE EditorialInv
    OBVIOUS
  <2>1. CInv
    BY CutBegins DEF Init
  <2>2. TInv
    BY TakeBegins DEF Init
  <2>3. DInv
    BY DeliveryInitEstablishes DEF Init
  <2>4. DressInit
    BY DEF Init, DressRests
  <2>5. GInv /\ DressInv
    BY <2>4, BeginsWell, DressBegins
  <2> QED
    BY <2>1, <2>2, <2>3, <2>5 DEF Init, EditorialInv
<1>2. EditorialInv /\ [Next]_vars => EditorialInv'
  <2> SUFFICES ASSUME EditorialInv, [Next]_vars PROVE EditorialInv'
    OBVIOUS
  <2>1. /\ UNCHANGED desk /\ (CutNext \/ UNCHANGED cutVars)
        /\ (TakeNext \/ UNCHANGED takeVars) /\ (DeliveryNext \/ UNCHANGED deliveryVars)
        /\ (DressNext \/ UNCHANGED dressVars)
    BY DEF Next, vars
  <2>2. CInv'
    BY <2>1, CutKeeps DEF EditorialInv
  <2>3. TInv'
    BY <2>1, TakeKeeps DEF EditorialInv
  <2>4. DInv'
    BY <2>1, DeliveryNextKeeps DEF EditorialInv
  <2>5. GInv'
    BY <2>1, DressingKeeps DEF EditorialInv
  <2>6. DressInv'
    BY <2>1, DressNextKeeps DEF EditorialInv
  <2> QED
    BY <2>1, <2>2, <2>3, <2>4, <2>5, <2>6 DEF EditorialInv
<1> QED
  BY <1>1, <1>2, PTL DEF Spec

\* Every document, receipt, job and timeline is of its type, for any footage, takes,
\* files, placements and rates: among others the cuts that are found in a silence,
\* the entries that a binding sorts, and the items that edits leave behind
\* (pause_compaction.py, take_sequence_binding.py, broll.py).
THEOREM TypeOKHolds == Spec => []TypeOK
<1>1. EditorialInv => TypeOK
  <2> SUFFICES ASSUME EditorialInv PROVE TypeOK
    OBVIOUS
  <2>1. CutTypeOK /\ TakeTypeOK /\ DeliveryTypeOK
    BY DEF EditorialInv, CInv, TInv, DInv
  <2>2. DressTypeOK
    BY DressTyped DEF EditorialInv, DressInv
  <2> QED
    BY <2>1, <2>2 DEF EditorialInv, TypeOK
<1> QED
  BY <1>1, EditorialInvariant, PTL

\* What is on a timeline was approved: for any recordings, cuts and offsets, any takes,
\* files and reviewers, any placements, assets and leads, and any number of edits and
\* interruptions (pause_compaction.py, take_sequence_timeline_apply.py, broll.py,
\* animation_workflow.py, color_workflow.py).
THEOREM ShownWasApprovedHolds == Spec => []ShownWasApproved
<1>1. EditorialInv => ShownWasApproved
  <2> SUFFICES ASSUME EditorialInv PROVE OnlyKeptIsShown /\ TakesAreApproved /\ DressedAsAgreed
    BY DEF ShownWasApproved
  <2>1. OnlyKeptIsShown
    BY CutShows DEF EditorialInv
  <2>2. TakesAreApproved
    BY DEF EditorialInv, TInv
  <2>3. CoverIsAgreed
    BY CoverShows DEF EditorialInv, DressInv
  <2>4. TitleIsAgreed
    BY TitleShows DEF EditorialInv, DressInv
  <2>5. GradeIsWhole
    BY WholeFilmIsGraded DEF EditorialInv
  <2> QED
    BY <2>1, <2>2, <2>3, <2>4, <2>5 DEF DressedAsAgreed
<1> QED
  BY <1>1, EditorialInvariant, PTL

\* Times are kept in ticks, milliseconds in the code: of two frames within a tick, only one
\* can be named by a time, and the end of such a recording may be rounded behind its last
\* frame.
AtMostAFrameATick ==
    /\ \A r \in Recordings : r.rate <= Second
    /\ \A content \in Contents : MediaOf[content].rate <= Second

\* No plan asks for a frame that its recording does not have (rough_cut.py,
\* take_sequence_timeline_mapping.py, broll.py), for all recordings of at most a
\* frame a tick.
THEOREM FramesExistHolds ==
    ASSUME AtMostAFrameATick
    PROVE  Spec => []FramesExist
<1>1. EditorialInv => CutFramesExist /\ TakeFramesExist
  <2> SUFFICES ASSUME EditorialInv PROVE CutFramesExist /\ TakeFramesExist
    OBVIOUS
  <2>1. CutFramesExist
    BY CutExists DEF EditorialInv, AtMostAFrameATick
  <2>2. TakeFramesExist
    BY TakeExists DEF EditorialInv, AtMostAFrameATick
  <2> QED
    BY <2>1, <2>2
<1>2. CutFramesExist /\ TakeFramesExist /\ CoverFramesExist => FramesExist
  BY DEF FramesExist
<1> QED
  BY <1>1, <1>2, EditorialInvariant, CoverFramesExistHolds, PTL

\* No word is lost between the proposal and the timeline (audio_analysis.py, rough_cut.py,
\* pause_compaction.py): for any silences, durations, frame rates and offsets that are not
\* negative, for any sample rate of which a window is a whole number of samples, and where
\* the context that is kept around a word is at least half a frame of its recording, and
\* with the window around it two frames, which is what a placement needs to be shown.
THEOREM NoWordIsLostHolds ==
    ASSUME ContextShows
    PROVE  Spec => []NoWordIsLost
<1>1. EditorialInv => NoWordIsLost
  BY WordsShown DEF EditorialInv, NoWordIsLost
<1> QED
  BY <1>1, EditorialInvariant, PTL

\* The webcam stays behind the screen by its offset and its lead, whatever they are, and
\* nothing drifts (synchronized_pair.py, pause_compaction.py, take_sequence_timeline_mapping.py):
\* for any offset, any lead, any cuts, however many, any takes and any whole frame rates of
\* the recordings and of the timeline.  The two are together where the offset is minus the
\* lead, and only there.
THEOREM StaysInStepHolds == Spec => []StaysInStep
<1>1. EditorialInv => StaysInStep
  BY CutSteps, TakeSteps DEF EditorialInv, StaysInStep
<1> QED
  BY <1>1, EditorialInvariant, PTL
=============================================================================
