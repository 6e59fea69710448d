\* Queued sites of a worker whose next action is refused.
CONSTANTS
  p1 = p1
  nobody = nobody
  u1 = u1
  u2 = u2
  v1 = v1
  Players = {p1}
  Units = {u1, u2, v1}
  NoUnit = NoUnit
  Owner <- MCOwner
  s1 = s1
  s2 = s2
  Sites = {s1, s2}
  Commands = {"stop", "drop", "produce"}
  ActRecords = 10
  PacketBytes = 48
  MaxSites = 2
  SiteLife = 1
  TimeWrap = 16
  MaxTime = 1
  MaxOrders = 2
  MaxRecords = 10
  MaxEpisodes = 1
SPECIFICATION Spec
SYMMETRY Symmetry
INVARIANT
  SitesRemembered
\* With its orders and time spent the model stops.
CHECK_DEADLOCK FALSE
