SPECIFICATION LiveSpec
CONSTANTS
  Proc = {p1, p2}
  Block = {b1, b2, b3}
  Value = {v0, v1}
  InitValue = v0
  Torn = Torn
  NoBuf = NoBuf
  NoBlock = NoBlock
  MAXOPBLOCKS = 2
  LOGSIZE = 4
  nlog = 4
  OpBlocks = 1
INVARIANTS LogInv NoPanic
PROPERTIES AtomicSpec LogSettles
