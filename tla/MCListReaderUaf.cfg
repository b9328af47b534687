CONSTANTS
    ListHead = ListHead
    Garbage = Garbage
    n1 = n1
    n2 = n2
    Nodes = {n1, n2}
    StaleDel = FALSE
SPECIFICATION RSpec
INVARIANT NoUseAfterFree
