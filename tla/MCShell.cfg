SPECIFICATION Spec
CONSTANTS
  MAXARGS = 3
  NOFILE = 5
  MaxFails = 1
  MaxLen = 4
  Scripts <- MCScripts
CHECK_DEADLOCK FALSE
INVARIANTS ParseAgrees Wired ForegroundDone
PROPERTIES PromptReturns
