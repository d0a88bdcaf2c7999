CONSTANTS
    Threads = {"t1", "t2", "t3"}
    Ids = {1}
    Counts = {1}
    K = 1
    NoThread = NoThread
    DupFields = FALSE
    Prices <- MCPrices
    Owns <- MCOwnsRemover
SPECIFICATION SpecStrongErase
PROPERTY
    OpsComplete
