\* Two units and two groups, two micro calls in flight, and replies of one line.
CONSTANTS
  Units = {u1, u2}
  Groups = {g1, g2}
  Types = {t1}
  Ways = {nowhere, camp}
  Texts = {fight}
  Nowhere = nowhere
  NoGoal = NoGoal
  MaxCalls = 2
  MaxVersion = 3
  MaxLines = 1
SPECIFICATION Spec
SYMMETRY Symmetries
INVARIANTS
  TypeOK
  CommandStands
  AnswerStands
  CastLeftAlone
