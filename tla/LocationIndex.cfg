\* Two records of one state, two placements on two nodes.
SPECIFICATION LocSpec
CONSTANTS
  None = None
  States = {s1}
  Workers = {w1}
  Boots = {b1}
  RecordIds = {r1, r2}
  PublishedLifecycles = {"AVAILABLE"}
  TombstoneFlags = {TRUE, FALSE}
  MaxGen = 2
  MaxEpoch = 2
  MaxInvalidations = 1
  Placements = {p1, p2}
  Nodes = {n1, n2}
  MaxLocGen = 1
  MaxLocationCount = 4
INVARIANTS
  LocTypeOK
  IndexMissesNothing
  EveryLocationCounted
PROPERTIES
  OnlyCurrentMoves
