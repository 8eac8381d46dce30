CONSTANTS
  Readers = {p1, p2}
  Writers = {p3, p4}
  NoProc = NoProc
  Intr = Intr
  INPUT_BUF_SIZE = 2
  UART_TX_BUF_SIZE = 2
  MOD = 4
  Keys = {"x", "nl", "eof", "kill", "erase", "list"}
  Lengths = {2}
  Bounds <- MCBounds
SPECIFICATION Spec
CHECK_DEADLOCK FALSE
INVARIANTS OutputInOrder NoLostWakeup
PROPERTIES LineSpec OutputDrains
