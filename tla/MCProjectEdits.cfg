SPECIFICATION ProjectSpec
CONSTANTS
  Node <- MCNode
  CountOf <- MCCount
  Wide <- MCWide
  Widths = {2, 5}
  NoNode = 0
  NoGroup = NoGroup
  Plans <- MCPlans
  Allowances <- MCAllowances
  Errands <- ErrandsEdit
INVARIANTS
  EdgesSound
  TopoComplete
  Reopens
  ContactsDistinct
CHECK_DEADLOCK FALSE
