CONSTANTS
    a = a
    b = b
    p1 = p1
    p2 = p2
    p3 = p3
    zero = zero
    one = one
    Procs = {a, b}
    Pages = {p1, p2, p3}
    NumPages = 2
    Contents = {zero, one}
    Fresh <- FreshPages
    NoPage = NoPage
    MaxOpens = 2
SPECIFICATION SerialSpec
INVARIANTS SlotsDistinct IInv
PROPERTIES MemorySpec
CHECK_DEADLOCK FALSE
