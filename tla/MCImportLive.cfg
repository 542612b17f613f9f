\* Three files: one is imported again when the project opens, another may be split into
\* two layers.  No re-import of a file under way.
SPECIFICATION FairSpec
CONSTANTS
  a1 = a1
  a2 = a2
  b1 = b1
  c1 = c1
  a = a
  b = b
  c = c
  NoLayer = NoLayer
  Layer = {a1, a2, b1, c1}
  Source = {a, b, c}
  SourceOf <- ThreeFiles
  Worker = {1, 2, 3}
  Cap = 2
  MaxScans = 1
  ParsedLayers = {}
  StaleLayers <- NoStale
  DeadLayers = {c1}
  Overlap = FALSE
  MaxRequests = 2
  MaxBatch = 2
  MaxCancels = 2
  MaxSplit = 1
  MaxRemovals = 1
  MaxDeeds = 3
INVARIANTS
  QueueBooks
  EveryJobCounted
PROPERTIES
  SilentAfterCancel
  BusySettles
  BatchReported
  StartedSettles
CHECK_DEADLOCK FALSE
