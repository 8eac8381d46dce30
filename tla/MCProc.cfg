SPECIFICATION Spec
CONSTANTS
  NPROC = 3
  CPU = {c1, c2}
  Machines = {{c1}, {c1, c2}}
INVARIANTS LockInv NoZombieUnderSleeper NoOrphan
PROPERTIES LifeCycle ZombiesOfInitReaped WaitReturns
