\* Two callers, every interleaving with the game thread.
CONSTANTS
  Callers = {c1, c2}
  NoCaller = NoCaller
SPECIFICATION FairSpec
INVARIANTS
  TypeOK
  JobSound
  NoLostWakeup
PROPERTIES
  CallReturns
  ImplementsCall
