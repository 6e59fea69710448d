\* A follow-up cast whose unit macro has commanded since.
CONSTANTS
  Units = {u1, u2}
  Groups = {g1, g2}
  Types = {t1}
  Ways = {nowhere, camp}
  Texts = {fight, keep}
  Nowhere = nowhere
  NoGoal = NoGoal
  MaxCalls = 2
  MaxVersion = 3
  MaxLines = 1
SPECIFICATION Spec
SYMMETRY Symmetries
INVARIANTS
  AnswersAreCurrent
