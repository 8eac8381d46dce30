CONSTANTS
  Proc = {p1, p2}
  NoProc = NoProc
  Name = {"a", "d"}
  FileName = "a"
  DirName = "d"
  NINODES = 5
  NINODE = 4
  NBLOCK = 6
  NDIRECT = 1
  NINDIRECT = 1
  Calls <- MCCalls
  NFILE = 2
  NOFILE = 2
  MaxWrite = 2
  MaxCalls = 3
  MaxCrash = 1
SPECIFICATION Spec
SYMMETRY Sym
CHECK_DEADLOCK FALSE
INVARIANTS CallInv RefExact DiskInv
PROPERTIES FreedUnused
