SPECIFICATION MCFairSpec
CONSTANTS
  Task = {t1, t2}
  Continuation = {k1, k2}
  None = None
  MaxCalls = 4
  N = 3
INVARIANTS
  Sound
  Verdict
PROPERTIES
  ResumesOnce
  KeepsPromise
  Ends
CHECK_DEADLOCK FALSE
