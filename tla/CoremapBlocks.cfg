CONSTANTS
    UserThreads = {u1, u2}
    KernelThreads = {k1}
    NoAs = NoAs
    Pages = {p1, p2}
    VaZero = VaZero
    NFrames = 5
    FirstFree = 2
    MaxReq = 2
SPECIFICATION SerialFairSpec
INVARIANTS PageFrameSound KernelBlocksIntact IInv
PROPERTIES ScanTerminates RoundRobin
