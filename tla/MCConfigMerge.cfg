SPECIFICATION Spec
CONSTANTS
    a = a
    b = b
    val = val
    stack = stack
    Heap = {n1, n2, n3, n4, n5}
    Node <- MCNode
    Nil = Nil
    Frame = stack
    Bases <- MCBases
    SubPaths <- MCSubPaths
    Vals = {val}
    Docs <- MCDocs
    Care = {"memory", "orphan"}
INVARIANTS TreeIntact
SYMMETRY Symmetry
CHECK_DEADLOCK FALSE
