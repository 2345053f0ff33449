CONSTANTS
    Byte = {0, 1}
    Zero = 0
    Junk = Junk
    MaxSize = 4
    MaxBlock = 2
    Alloc = {TRUE, FALSE}
    Unit = 2
    SizeMax = 63
    Requests = {1, 2, 3}
    StackWords = {0}
SPECIFICATION UseSpec
CHECK_DEADLOCK FALSE
INVARIANTS TypeOK FindFirst PrepareSuffices
PROPERTIES ImplementsDeque FrontInPlace
