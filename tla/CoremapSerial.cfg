CONSTANTS
    UserThreads = {u1}
    KernelThreads = {k1}
    NoAs = NoAs
    Pages = {p1, p2, p3, p4}
    VaZero = VaZero
    NFrames = 5
    FirstFree = 2
    MaxReq = 1
SPECIFICATION SerialSpec
INVARIANTS NoLostPage
PROPERTIES PoolSpec
SYMMETRY PageSymmetry
