CONSTANTS
  NPROC = 3
  CPU = {c1, c2}
  clockCpu = c1
  Builds = {"FCFS", "PBS", "LBS"}
  Priorities = {0, 100}
  Tickets <- MCTickets
  MaxCalls <- MCMaxCalls
SPECIFICATION Spec
CHECK_DEADLOCK FALSE
INVARIANTS TimeInv RunsOnce ChoiceInv
PROPERTIES WorkConserving
