\* Two players, rings of two and one, words that wrap at four.
CONSTANTS
  Players = {p1, p2}
  EvCap = 2
  OrdCap = 1
  Word = 4
  MaxRecords = 4
  NoNews = NoNews
  NoRecord = NoRecord
SPECIFICATION Spec
SYMMETRY PlayerSymmetry
INVARIANTS
  TypeOK
PROPERTIES
  ImplementsLog
