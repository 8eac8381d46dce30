SPECIFICATION LiveSpec
CONSTANTS
  Writer = {w1, w2}
  Reader = {r1}
  Killable = {w1, r1}
  MaxKills = 1
  Byte = {0, 1}
  MaxN = 2
  PIPESIZE = 2
  Wrap = 4
CHECK_DEADLOCK FALSE
INVARIANTS SleepersAreBlocked
PROPERTIES QueueSpec CallsReturn
