\* Two episodes to a process, with and without interruptions.
CONSTANTS
  Modes = {"stepping", "realtime"}
  Limit = 2
  Settings = {normal, fast}
  Default = normal
  StepLen = 2
  Interrupts = {FALSE, TRUE}
  MaxTime = 4
  MaxSteps = 2
  MaxEpisodes = 3
  MaxProcs = 3
SPECIFICATION FairSpec
INVARIANTS
  TypeOK
  HandlesOwned
  TuningSurvives
  EpisodeLimit
  ViewIsTrue
  FaultHasCause
PROPERTIES
  SuspectNeverPlays
  CloseEndsAll
\* After close() the session does nothing more.
CHECK_DEADLOCK FALSE
