SPECIFICATION Spec
CONSTANTS
    Node = {n1, n2, n3, n4, n5}
    Nil = Nil
    Names = {a, b}
    MaxPos = 2
    AnySwitch = FALSE
INVARIANTS WellLinked OrderAsAsked WalksComplete
SYMMETRY Symmetry
CHECK_DEADLOCK FALSE
