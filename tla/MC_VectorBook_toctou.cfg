CONSTANTS
    Threads = {"t1", "t2"}
    Ids = {1, 2}
    Counts = {1, 2}
    K = 1
    Capacity = 3
    Readers = {"t1"}
    NoThread = NoThread
    DupFields = FALSE
    Prices <- MCPricesTwo
    Owns <- MCOwnsWriter
SPECIFICATION StoredSpec
INVARIANT
    ListedWereStored
