SPECIFICATION ParsedSpec
CONSTANTS
  Path = {p1, p2}
  Writer = {w1, w2}
  Scanner = {s1, s2}
  Missing = Missing
  Imported = Imported
  NoIndex = NoIndex
  Hole = Hole
  MaxRecords = 2
  ReplaceOpen = FALSE
  Plans <- PlansPublish
SYMMETRY Alike
INVARIANTS FooterHarmless IndexIsOfTheStore
PROPERTY PublishedWhole
CHECK_DEADLOCK FALSE
