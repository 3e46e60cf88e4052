CONSTANTS
  Events = {e1}
  NoEvent = NoEvent
  Lengths = {3, 4}
  MaxRead = 4
  MaxPartial = 2
  MaxAlerts = 1
  MaxLines = 3
  MaxFails = 1
  MaxReplaced = 1
SPECIFICATION FairSpec
CHECK_DEADLOCK FALSE
INVARIANT PassedIsStored
INVARIANT PartialIsWhole
PROPERTY EventuallyStored
