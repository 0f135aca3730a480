SPECIFICATION Spec
CONSTANTS
  Second = 100
  Paths = {"a", "b", "c"}
  NameOf <- MCNames
  Contents = {"first", "second"}
  MediaOf <- MCMedia
  Shots <- MCShots
  Tolerance = 5
  TimelineRates = {25, 30}
  MaxReviewers = 2
  MaxTouches = 1
  MaxSelections = 2
  MaxBindings = 1
  FirstFiles <- MCFirst
  None = None
  Window = 10
  Windows = 8
  SampleRates = {200, 25}
  MinPause = 20
  Context = 5
  MinOverlap = 3
  MaxPairs = 1
  Silences <- MCSilences
  Offsets <- MCOffsets
  WebcamLead = 22
  Recordings <- MCRecordings
  Rates = {25, 30}
  Talk = Talk
  Others = {Pilot}
  BaselineRuns <- MCRuns
  MaxMeddling = 1
  NoFile = NoFile
  FinalItems <- MCFinal
  Leads = {0, 5}
  FilmRate = 30
  Assets <- MCAssets
  Wishes <- MCWishes
  MaxTrims = 1
  Nothing = Nothing
INVARIANTS TypeOK ShownWasApproved NoWordIsLost StaysInStep FramesExist DeliveredWasInspected
CHECK_DEADLOCK FALSE
