CONSTANTS
  Threads = {t1, t2, t3}
  Names = {f}
  MaxCount = 3
  Amounts = {1}
  MaxFaults = 0
  MaxOps = 7
SPECIFICATION Spec
INVARIANTS NoSleeperLeft
CHECK_DEADLOCK FALSE
