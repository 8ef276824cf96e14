CONSTANTS
  Threads = {t1, t2}
  Names = {f, g}
  MaxCount = 3
  Amounts = {1, 2}
  MaxFaults = 1
  MaxOps = 5
SPECIFICATION Spec
INVARIANTS SemaphoresExact
PROPERTIES CallsEnd
CHECK_DEADLOCK FALSE
