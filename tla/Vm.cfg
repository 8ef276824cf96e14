SPECIFICATION Spec
CONSTANTS
  PageSize = 4
  StackPages = 1
  SizeOuter = 2
  SizeInner = 2
  UserStack = 16
  Cpus = {c1, c2}
  NumTlb = 2
  Frames = {1, 2}
  Images <- MCImages
  Addrs <- MCAddrs
  Lengths <- MCLengths
  LoadFails <- MCUser
SYMMETRY Symmetry
INVARIANTS PagingSound LoadExact CopyRecovers
PROPERTIES PagingInvisible
CHECK_DEADLOCK FALSE
