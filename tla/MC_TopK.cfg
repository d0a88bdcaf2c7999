CONSTANTS
    K = 2
    MaxLen = 3
    Ids = {1, 2, 3, 4}
    Counts = {1, 2}
    Sides = {"BUY", "SELL"}
    Prices <- MCPrices
SPECIFICATION Spec
INVARIANTS
    PrefixSelected
    ComparatorsStrict
    OracleAgrees
CHECK_DEADLOCK FALSE
