\* A boot dies as holder; its successor publishes a lower generation.
SPECIFICATION Spec
CONSTANTS
  None = None
  States = {s1}
  Workers = {w1}
  Boots = {b1, b2}
  RecordIds = {r1, r2}
  PublishedLifecycles = {"AVAILABLE"}
  TombstoneFlags = {TRUE}
  MaxGen = 2
  MaxEpoch = 1
  MaxInvalidations = 1
PROPERTY FreshIncarnationNotFenced
