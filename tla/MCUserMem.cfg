SPECIFICATION Spec
CONSTANTS
  NPROC = 3
  NPAGES = 22
  PGSIZE = 2
  MaxSz = 8
  Images <- MCImages
CHECK_DEADLOCK FALSE
INVARIANTS Accounting SizeIsMapped
PROPERTIES FailureCost
