SPECIFICATION Spec
CONSTANTS
  Agents = {a1}
  Values = {0, 1}
  IdleTimeout = 1
  Interval = 1
  MaxGap = 2
  MaxTime = 7
  MaxErrors = 2
  MaxRestarts = 1
  Null = Null
INVARIANTS
  OpenIsOwned
  SessionsDisjoint
  ActivityGapBounded
PROPERTY RowsAreFinal
CHECK_DEADLOCK FALSE
