CONSTANTS
  minimax = minimax
  zai = zai
  m1 = m1
  m2 = m2
  Keys = {minimax, zai}
  Accounts = {m1}
  Owner <- MCOwner
  Catalog <- MCCatalog
  Handlers = {h1, h2}
  Main = main
  Callers = {h1, h2, main}
  Runs = {r1, r2}
  MaxRequests = 2
  MaxFailures = 1
  None = None
SYMMETRY Symmetry
SPECIFICATION SettingsSpec
CHECK_DEADLOCK FALSE
INVARIANT SwitchKept
INVARIANT OnIsPolled
INVARIANT RunsEndAtClose
PROPERTY PollsAsIntended
