SPECIFICATION FairSpec
CONSTANTS
  kproc = kproc
  Proc = {kproc, p1, p2}
  File = {f}
  Dir = {d1}
  NumEntries = 2
  OpenMax = 4
  CountMod = 8
  MaxOffset = 1
  MaxProc = 3
  Images <- MCImages
  Codes <- MCCodes
  MaxFail = 1
  MaxRefs = 2
INVARIANTS ProcessesSound StatusDelivered VnodesCounted
PROPERTIES ExitReported
CHECK_DEADLOCK FALSE
