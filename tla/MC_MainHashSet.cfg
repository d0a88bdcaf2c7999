CONSTANTS
    K = 1
    Ids = {1, 2, 3}
    Counts = {1, 2}
    Prices <- MCPrices
    TCount = 2
    SmallN = 2
    LargeN = 3
    ElementsCount <- MCElementsCount
    HalfRange = 1
    NoThread = NoThread
SPECIFICATION Spec
INVARIANT
    SetIndexed
CHECK_DEADLOCK FALSE
