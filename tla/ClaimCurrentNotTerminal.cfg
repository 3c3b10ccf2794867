\* Publish, then tombstone with the flag unset.
SPECIFICATION Spec
CONSTANTS
  None = None
  States = {s1}
  Workers = {w1}
  Boots = {b1}
  RecordIds = {r1, r2}
  PublishedLifecycles = {"AVAILABLE"}
  TombstoneFlags = {TRUE, FALSE}
  MaxGen = 2
  MaxEpoch = 1
  MaxInvalidations = 1
INVARIANT CurrentIsNotTerminal
