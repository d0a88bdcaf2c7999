CONSTANTS
    K = 1
    Ids = {1, 2, 3}
    Counts = {1}
    Prices <- MCPrices
    TCount = 2
    SmallN = 2
    LargeN = 3
    ElementsCount <- MCElementsCount
    HalfRange = 1
    Capacity = 4
    NoThread = NoThread
SPECIFICATION Spec
INVARIANT
    MapSlotsAgree
CHECK_DEADLOCK FALSE
