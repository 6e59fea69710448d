\* Two games, in one worker or two.
CONSTANTS
  NGames = 2
  GroupSizes = {1, 2}
  Remotes = {FALSE, TRUE}
  MaxAsked = 2
  Torn = Torn
SPECIFICATION FairSpec
INVARIANTS
  TypeOK
  AnswersMatch
PROPERTIES
  CallsReturn
\* Messages are bounded, and after close() the session does nothing more.
CHECK_DEADLOCK FALSE
