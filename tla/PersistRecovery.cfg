\* Crashes, saves and loads around one state: two records, one of which may
\* outgrow what load accepts, two epochs, a write that may fail.
SPECIFICATION PersistSpec
CONSTANTS
  None = None
  States = {s1}
  Workers = {w1}
  Boots = {b1}
  RecordIds = {1, 2}
  PublishedLifecycles = {"AVAILABLE"}
  TombstoneFlags = {TRUE, FALSE}
  MaxGen = 2
  MaxEpoch = 2
  MaxInvalidations = 1
  WriteOutcomes = {"whole", "short", "lost"}
  MayOutgrow = {2}
INVARIANTS
  PersistTypeOK
  RecoveredServiceSound
  RecoveryRestoresCurrent
  SavedStateHolds
