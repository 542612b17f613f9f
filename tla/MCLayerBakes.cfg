SPECIFICATION FairSpec
CONSTANTS
  s1 = s1
  s2 = s2
  u1 = u1
  f1 = f1
  f2 = f2
  Layer = {s1, s2, u1}
  Source = {f1, f2}
  Modality <- MCModality
  ModalityOf <- MCModalityOf
  SourceOf <- MCSourceOf
  InOrder <- MCInOrder
  MaxConcurrent = 1
  Customized <- MCCustomized
  Plans <- PlansBakes
INVARIANTS
  BatchBooks
  OneWriter
  BaselineKept
  StoresTrue
PROPERTIES
  LateNotCommitted
  BakesSettle
