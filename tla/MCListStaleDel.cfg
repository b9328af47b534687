CONSTANTS
    ListHead = ListHead
    Garbage = Garbage
    n1 = n1
    n2 = n2
    n3 = n3
    Nodes = {n1, n2, n3}
    StaleDel = TRUE
SPECIFICATION Spec

PROPERTY
    ListRefinesSpec
