SPECIFICATION FairSpec
CONSTANTS
  Runs = {r1}
  Handlers = {h1}
  Accounts = {x1}
  Agents = {i1, i2, i3}
  MaxVersion = 2
  MaxErrors = 0
  MaxPanics = 0
  Null = Null
CHECK_DEADLOCK FALSE
PROPERTY StopAllEnds
