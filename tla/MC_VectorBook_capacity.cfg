CONSTANTS
    Threads = {"t1", "t2"}
    Ids = {1, 2}
    Counts = {1}
    K = 1
    Capacity = 2
    Readers = {"t1"}
    NoThread = NoThread
    DupFields = FALSE
    Prices <- MCPrices
    Owns <- MCOwnsDisjoint
SPECIFICATION StoredSpec
INVARIANT
    MapSlotsAgree
