CONSTANTS
  p1 = p1
  p2 = p2
  k1 = k1
  k2 = k2
  k3 = k3
  Proc = {p1, p2}
  NBUF = 2
  Block = {k1, k2, k3}
  LogBlock = {k1}
  Logged = {k2}
  Opens <- MCOpens
  Value = {0, 1}
  NUM = 6
  Queue = {4, 6}
  NoProc = NoProc
  NoBlock = NoBlock
SPECIFICATION Spec
INVARIANTS BcacheInv DriverInv
PROPERTIES StoreSpec SleepersWake
