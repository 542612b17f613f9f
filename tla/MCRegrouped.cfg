SPECIFICATION ProjectSpec
CONSTANTS
  Node <- MCNode
  CountOf <- MCCount
  Wide <- MCWide
  Widths = {2, 5}
  NoNode = 0
  NoGroup = NoGroup
  Plans <- MCPlans
  Allowances <- MCAllowances
  Errands <- ErrandsRegroup
INVARIANTS
  Reopens
CHECK_DEADLOCK FALSE
