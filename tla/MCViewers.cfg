SPECIFICATION FairSpec
CONSTANTS
  NoKey = NoKey
  NoLane = NoLane
  NoLine = NoLine
  a = a
  b = b
  Line = {a, b}
  Dry = {b}
  Band = {1, 2}
  Param = {1, 2}
  MaxOps = 12
  Plans <- MCPlans
  Key <- MCKey
  Lane <- MCLane
  Cap <- MCCap
INVARIANTS
  RowsTrue
  TracesTrue
  OneOutcome
  BooksExact
PROPERTIES
  ViewersSettle
