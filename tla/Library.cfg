CONSTANTS
  Subjects <- MCSubjects
  Lists = {runqueue, wchan}
  Members = {t1, t2, t3}
  Nil = Nil
  BITS_PER_WORD = 2
  Sizes <- MCSizes
  Pointers = {p, q}
  Unset = Unset
  MaxItems = 5
  MaxObjects = 2
  Cpus = {c1, c2, c3}
  Locks = {k1, k2, k3}
  Handled = {k1}
  Taken = {c1}
  Null = Null
  Processors = {1, 2}
  BootCpu = 1
  Tasks = {"menu", "hatch", "user"}
  FirstTask <- MCFirstTask
  Nowhere = "nowhere"
  Threads = {h1, h2}
  NumPages = 4
  PageSize = 8
  BlockSizes <- MCBlockSizes
  NumRoots = 1
  RefsPerPage = 2
  Requests <- MCRequests
  MaxLive = 3
  MaxFail = 0
SPECIFICATION Spec
SYMMETRY Symmetry
INVARIANTS StructuresExact SpinlocksSound DeadlocksFound TrapsSound HeapKept
PROPERTIES PromisesKept
CHECK_DEADLOCK FALSE
