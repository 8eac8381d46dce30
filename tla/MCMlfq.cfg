CONSTANTS
  NPROC = 3
  CPU = {c1, c2}
  TicksAllowed <- MCTicksAllowed
  WaitTime = 3
  MaxTicks = 4
SPECIFICATION Spec
INVARIANT NoPanic
