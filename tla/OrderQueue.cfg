\* Two workers of a player and a shop; a packet takes one order.
CONSTANTS
  p1 = p1
  nobody = nobody
  u1 = u1
  u2 = u2
  v1 = v1
  Players = {p1}
  Units = {u1, u2, v1}
  NoUnit = NoUnit
  Owner <- MCOwner
  s1 = s1
  s2 = s2
  Sites = {s1, s2}
  Commands = {"stop", "drop", "produce"}
  ActRecords = 10
  PacketBytes = 48
  MaxSites = 1
  SiteLife = 2
  TimeWrap = 16
  MaxTime = 2
  MaxOrders = 2
  MaxRecords = 8
  MaxEpisodes = 1
SPECIFICATION Spec
SYMMETRY Symmetry
INVARIANTS
  TypeOK
  BuffersHold
PROPERTIES
  SitesHeld
  ImplementsOrders
\* With its orders and time spent the model stops.
CHECK_DEADLOCK FALSE
