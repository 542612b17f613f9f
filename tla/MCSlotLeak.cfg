\* A layer is rebuilt while its build is under way.
SPECIFICATION FairSpec
CONSTANTS
  a1 = a1
  a2 = a2
  b1 = b1
  c1 = c1
  a = a
  b = b
  c = c
  NoLayer = NoLayer
  Layer = {a1, a2}
  Source = {a}
  SourceOf <- SplitFile
  Worker = {1, 2, 3}
  Cap = 2
  MaxScans = 1
  ParsedLayers = {}
  StaleLayers <- NoStale
  DeadLayers = {a1}
  Overlap = TRUE
  MaxRequests = 1
  MaxBatch = 1
  MaxCancels = 0
  MaxSplit = 0
  MaxRemovals = 0
  MaxDeeds = 1
PROPERTY
  BusySettles
CHECK_DEADLOCK FALSE
