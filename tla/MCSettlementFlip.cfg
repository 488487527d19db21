SPECIFICATION MCSpec
CONSTANTS
    Traders = {a, b, c}
    Pools = {}
    Sizes = {1}
    QuotePrices = {10}
    OraclePrices = {10, 12}
    LpBand = 1
    OiCap = 0
    BreakerLots = 0
    Holds = {}
    MaxBatch = 1
    MaxFills = 3
    HeldFills = 0
PROPERTIES ReduceOnlyNeverFlips
CHECK_DEADLOCK FALSE
