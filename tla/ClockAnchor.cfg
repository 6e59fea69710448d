\* One reader, two writers.
CONSTANTS
  Readers = {r1}
  Writers = {w1, w2}
  NoWriter = NoWriter
  Speeds = {1, 4}
  MaxTime = 2
  MaxWrites = 2
SPECIFICATION Spec
INVARIANTS
  TypeOK
  ReadIsWhole
  BackOnlyAfterRace
  SleepersWake
SYMMETRY WriterSymmetry
\* The clock may stand frozen, with every reader asleep.
CHECK_DEADLOCK FALSE
