CONSTANTS
  Proc = {p1}
  NoProc = NoProc
  Name = {"a", "d"}
  FileName = "a"
  DirName = "d"
  NINODES = 5
  NINODE = 4
  NBLOCK = 6
  NDIRECT = 1
  NINDIRECT = 1
  Calls <- MCCalls
  NFILE = 2
  NOFILE = 2
  MaxWrite = 2
  MaxCalls = 3
  MaxCrash = 0
SPECIFICATION Spec
CHECK_DEADLOCK FALSE
INVARIANT IlockFindsType
