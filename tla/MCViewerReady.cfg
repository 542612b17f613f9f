SPECIFICATION Spec
CONSTANTS
  NoKey = NoKey
  NoLane = NoLane
  NoLine = NoLine
  a = a
  b = b
  Line = {a, b}
  Dry = {b}
  Band = {1, 2}
  Param = {1, 2}
  MaxOps = 12
  Plans <- SwitchPlan
  Key <- MCKey
  Lane <- MCLane
  Cap <- MCCap
INVARIANT
  ReadyIsCurrent
