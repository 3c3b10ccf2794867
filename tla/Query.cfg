\* Two states of which one may depend on the other, three records, two
\* incarnations: what ten queries answer in every state of the engine.
SPECIFICATION QuerySpec
CONSTANTS
  None = None
  s1 = s1
  s2 = s2
  k1 = k1
  k2 = k2
  o1 = o1
  n1 = n1
  n2 = n2
  NaN = NaN
  States = {s1, s2}
  Workers = {w1}
  Boots = {b1, b2}
  RecordIds = {1, 2, 3}
  PublishedLifecycles = {"AVAILABLE"}
  TombstoneFlags = {TRUE, FALSE}
  MaxGen = 2
  MaxEpoch = 1
  MaxInvalidations = 1
  Kinds = {k1, k2}
  Owners = {o1}
  Nodes = {n1, n2}
  Offers <- MCOffers
  MaxOffers = 1
  Payloads <- MCPayloads
  Queries <- MCQueries
SYMMETRY Symmetry
CONSTRAINTS
  OnlyS1Withdrawn
  OnlyS1Ages
  OnlyFirstMoves
  ThirdOnlyRanks
INVARIANTS
  QueryTypeOK
  CurrentAnswersAuthority
  HistoryReachable
  DependentsFollow
  OutcomeTellsWhy
  RankingIsTotal
PROPERTIES
  RefusalIsFinal
