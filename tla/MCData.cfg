CONSTANTS
    Builtin <- MCBuiltin
    CoreInterfaces <- MCCoreInterfaces
    InterfaceBase = 128
    InterfaceAdd = 131
    InterfaceMax = 132
    DynamicBase = 192
    DynamicMax = 255
    MetaBase = 256
    MetaMax = 259
    ValueAdd = 2304
    ValueMax = 2306
    Chunk = 2
    TypeNames <- MCTypeNames
    ShortNames = {"log"}
    MaxGrants = 4
    Idents = {1, 2}
    Addresses = {101, 102, 103}
    IdentNames <- MCNames
    Sizes = {0, 8, 13}
    ValSize = 2
    Header = 1
    NewSize = 6
    SizeMax = 12
    LenMax = 12
    WordBits <- MCWordBits
    GraphChars = {1}
    FieldMax = 3
    MaxText = 4
    DestSize = 3
    MaxBytes = 4
    MaxParts = 3
    IdBase = 4
    IdBytes = 3
SPECIFICATION Spec
CHECK_DEADLOCK FALSE
INVARIANTS TypesKept ConvertExact TextsRead PartsJoined ElementProperties ValuesInOrder IdentifierKept
           ValuesAsStored VisibleDrawn
