SPECIFICATION Spec
CONSTANTS
    a = a
    b = b
    val = val
    stack = stack
    Heap = {n1, n2, n3, n4}
    Node <- MCNode
    Nil = Nil
    Frame = stack
    Bases <- MCBases
    SubPaths <- MCSubPaths
    Vals = {val}
    Docs <- MCDocs
    Care = {"memory", "orphan", "shadow"}
INVARIANT TreeAsMap
SYMMETRY Symmetry
CHECK_DEADLOCK FALSE
