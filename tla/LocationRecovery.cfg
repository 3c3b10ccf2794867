\* Two records of one state over two placements, one node in machine-local
\* memory and one not; load accepts one location of a record.
SPECIFICATION LocRecSpec
CONSTANTS
  None = None
  States = {s1}
  Workers = {w1}
  Boots = {b1}
  RecordIds = {1, 2}
  PublishedLifecycles = {"AVAILABLE"}
  TombstoneFlags = {TRUE, FALSE}
  MaxGen = 2
  MaxEpoch = 1
  MaxInvalidations = 0
  WriteOutcomes = {"whole", "short", "lost"}
  MayOutgrow = {1, 2}
  Placements = {p1, p2}
  Nodes = {gpu, nvme}
  VolatileNodes = {gpu}
  MaxLocGen = 1
  MaxLocationCount = 2
  LocationLimit = 1
INVARIANTS
  FreshMeansReported
  RecoveredIndexMissesNothing
  RecoveredLocationsCounted
  SavedLocationsHold
SYMMETRY PlacementSymmetry
CONSTRAINT NotHalfLoaded
