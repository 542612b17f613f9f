SPECIFICATION FairSpec
CONSTANTS
  NoKey = NoKey
  NoLane = NoLane
  NoLayer = NoLayer
  a = a
  Layer = {a}
  MaxOps = 14
  Plans <- MCPlans
  Key <- MCKey
  Lane <- MCLane
  Cap <- MCCap
INVARIANTS
  LiveShows
  BusyEnds
  LanesExact
  LatestWins
PROPERTIES
  NewestShown
  LateResultsDropped
  RefreshEnds
