\* One file in up to two layers, both of whose stores are stale and scanned on
\* opening, where one layer is recovered; it may be re-imported while a job of
\* it is under way.
SPECIFICATION FairSpec
CONSTANTS
  a1 = a1
  a2 = a2
  b1 = b1
  c1 = c1
  a = a
  b = b
  c = c
  NoLayer = NoLayer
  Layer = {a1, a2}
  Source = {a}
  SourceOf <- SplitFile
  Worker = {1, 2, 3}
  Cap = 2
  MaxScans = 1
  ParsedLayers = {}
  StaleLayers <- BothStale
  DeadLayers = {a1}
  Overlap = TRUE
  MaxRequests = 1
  MaxBatch = 1
  MaxCancels = 0
  MaxSplit = 1
  MaxRemovals = 2
  MaxDeeds = 3
INVARIANTS
  TypeOK
  OneBuildPerSource
  SourceJobsExact
  ScansExact
  TokensRunning
PROPERTIES
  ScansDrain
CHECK_DEADLOCK FALSE
