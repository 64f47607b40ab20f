CONSTANTS
    NodeCap = 4
    ChildCap = 2
    SlotCap = 1
    SlotSize = 2
    Names <- MCNames
    Aliases <- MCAliases
SPECIFICATION Spec
INVARIANTS TreeOK FoundByName SlotsExact GapsAreZero
