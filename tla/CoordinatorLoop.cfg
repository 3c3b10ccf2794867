\* Three processes of two workers, one record: every connection order,
\* death and restart around HELLO and two further requests each.
SPECIFICATION CoordSpec
CONSTANTS
  None = None
  w1 = w1
  w2 = w2
  b1 = b1
  b2 = b2
  States = {s1}
  Workers = {w1, w2}
  Boots = {b1, b2}
  RecordIds = {1}
  PublishedLifecycles = {"AVAILABLE"}
  TombstoneFlags = {TRUE}
  MaxGen = 1
  MaxEpoch = 1
  MaxInvalidations = 0
  WriteOutcomes = {"whole", "lost"}
  MayOutgrow = {}
  Procs <- MCProcs
  MaxRequests = 3
INVARIANTS
  CoordTypeOK
  OnlyServedIsLive
  WaitersAreHeard
  TerminateLeavesAll
PROPERTIES
  EveryWorkerEnds
