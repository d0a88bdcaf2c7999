CONSTANTS
    Threads = {"t1", "t2"}
    Ids = {1, 2}
    Counts = {1}
    K = 2
    NoThread = NoThread
    DupFields = FALSE
    Prices <- MCPrices
    Owns <- MCOwnsDisjoint
SPECIFICATION TopSpec
INVARIANTS
    TypeOK
    IndexSound
    SetIndexed
    UndisturbedWalkIsOracle
PROPERTY
    MutationsImplementAbstractBook
