\* Two games, in one local worker or two.
CONSTANTS
  NGames = 2
  GroupSizes = {1, 2}
  Remotes = {FALSE}
  MaxAsked = 2
  Torn = Torn
SPECIFICATION Spec
INVARIANTS
  ExitsAreTold
\* Messages are bounded, and after close() the session does nothing more.
CHECK_DEADLOCK FALSE
