\* One state, three records, two incarnations: every publication, restart,
\* invalidation and tombstone order over generations 1..3.
SPECIFICATION Spec
CONSTANTS
  None = None
  States = {s1}
  Workers = {w1}
  Boots = {b1, b2}
  RecordIds = {r1, r2, r3}
  PublishedLifecycles = {"AVAILABLE", "FAILED"}
  TombstoneFlags = {TRUE, FALSE}
  MaxGen = 3
  MaxEpoch = 2
  MaxInvalidations = 2
SYMMETRY Symmetry
INVARIANTS
  TypeOK
  AuthorityMirrorsCurrent
  CurrentIsServable
  CurrentIsHighest
  FloorHolds
  HistoryComplete
PROPERTIES
  HistoryNotRewritten
  OnlyFreshBecomesCurrent
  ImplementsAbstractIndex
