SPECIFICATION Spec
CONSTANTS
  Pollers = {p1}
  NQuotas = 2
  Values = {0, 1}
  Hour = 2
  Grace = 1
  Leads <- MCLeads
  Window = 2
  MaxTime = 3
  MaxErrors = 1
  MaxRestarts = 1
  Null = Null
INVARIANTS
  OneActiveCycle
  CyclesInOrder
  PeakIsOwnReading
  DeltaAccounted
PROPERTY HistoryIsStable
CHECK_DEADLOCK FALSE
