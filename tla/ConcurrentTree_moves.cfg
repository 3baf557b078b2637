SPECIFICATION Spec
CONSTANTS
    Requests = {r1, r2}
    Ids = {n1, n2, n3}
    Root = root
    NoParent = NoParent
    Names = {x, y}
    Destinations = {n1, n2}
    MaxDepth = 4
    MaxStart = 2
INVARIANTS TreeAcyclic
CHECK_DEADLOCK FALSE
