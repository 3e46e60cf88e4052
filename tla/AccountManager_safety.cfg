SPECIFICATION FairSpec
CONSTANTS
  Runs = {r1, r2}
  Handlers = {h1, h2}
  Accounts = {x1}
  Agents = {i1, i2, i3, i4}
  MaxVersion = 2
  MaxErrors = 1
  MaxPanics = 1
  Null = Null
INVARIANTS
  ListedNotCancelled
  NoOrphanUnlessRaced
  AppliedUnlessRaced
CHECK_DEADLOCK FALSE
PROPERTY ReloadReturnsUnlessRaced
