CONSTANTS
    Threads = {"t1", "t2"}
    Ids = {1, 2, 3, 4}
    Counts = {1}
    K = 2
    NoThread = NoThread
    DupFields = FALSE
    Prices <- MCPrices
    Owns <- MCOwnsWriter
SPECIFICATION SnapSpec
INVARIANT
    BidsWalkIsSnapshot
