SPECIFICATION Spec
CONSTANTS
  Provider = "anthropic"
  Accounts = {a1}
  Default = a1
  Quotas = {q1, q2}
  MaxPolls = 4
  MaxErrors = 1
  MaxRestarts = 1
  MaxReloads = 1
INVARIANTS
  AtMostOncePerCycle
  SilencedOnlyIfSent
CHECK_DEADLOCK FALSE
