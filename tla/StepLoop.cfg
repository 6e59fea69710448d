\* Live games and a recording of three turns, steps that may outlast their request,
\* realtime play and resets over two simulations, and a game that may tear its
\* simulation down in a step.
CONSTANTS
  HoldAt = 2
  StepTurns = {1, 2}
  ProduceMax = 1
  StallFrames = 2
  Recordings = {0, 3}
  Troubles = {"late", "closes"}
  Agents = {a1}
  MaxTime = 4
  MaxSims = 2
SPECIFICATION FairSpec
INVARIANTS
  TypeOK
  ReplyTruthful
  HeldAtStart
PROPERTIES
  StillBetweenSteps
  OrdersBeforeTurns
  TurnsInBounds
  StepAnswered
\* Between steps nothing moves until the client asks, and it may never ask.
CHECK_DEADLOCK FALSE
