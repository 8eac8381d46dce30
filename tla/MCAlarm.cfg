SPECIFICATION LiveSpec
CONSTANTS
  Builds = {"RR", "PBS"}
  MaxTicks = 2
  MaxNow = 3
  MaxDepth = 2
INVARIANTS NotReentrant
PROPERTIES Resumes NotEarly GoesOff
