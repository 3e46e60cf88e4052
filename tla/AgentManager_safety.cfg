SPECIFICATION FairSpec
CONSTANTS
  Keys = {k1, k2}
  Callers = {c1, c2}
  Runs = {r1, r2, r3}
  None = None
INVARIANTS
  RegisteredRunIsLive
  NoOrphanWithoutOverlap
PROPERTIES
  EntryLeavesOnlyFor
  TakenRunEnds
CHECK_DEADLOCK FALSE
