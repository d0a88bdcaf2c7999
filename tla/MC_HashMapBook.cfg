CONSTANTS
    Threads = {"t1", "t2"}
    Ids = {1, 2}
    Counts = {1}
    K = 1
    NoThread = NoThread
    Prices <- MCPrices
    Owns <- MCOwnsDisjoint
SPECIFICATION Spec
INVARIANTS
    TypeOK
    QuiescentOneSide
PROPERTIES
    ImplementsAbstractBook
