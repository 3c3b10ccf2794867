SPECIFICATION PersistSpec
CONSTANTS
  None = None
  States = {s1}
  Workers = {w1}
  Boots = {b1}
  RecordIds = {1, 2}
  PublishedLifecycles = {"AVAILABLE"}
  TombstoneFlags = {TRUE}
  MaxGen = 2
  MaxEpoch = 1
  MaxInvalidations = 1
  WriteOutcomes = {"whole", "short"}
  MayOutgrow = {}
PROPERTY WritesAreAtomic
