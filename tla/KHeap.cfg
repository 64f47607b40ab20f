CONSTANTS
    PageSize = 4
    PageCount = 7
    Header = 1
    Sizes = {1, 2, 4}
    Usable <- MCUsable
    Reserved <- MCReserved
SPECIFICATION Spec
INVARIANTS BlocksTile FullyCoalesced
PROPERTIES ImplementsAllocator
