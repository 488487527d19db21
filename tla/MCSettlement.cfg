SPECIFICATION MCSpec
CONSTANTS
    Traders = {a, b}
    Pools = {lp}
    Sizes = {1, 2}
    QuotePrices = {10}
    OraclePrices = {10, 12}
    LpBand = 1
    OiCap = 3
    BreakerLots = 3
    Holds = {"haircut", "lpSlots", "lpFees"}
    MaxBatch = 2
    MaxFills = 3
    HeldFills = 2
INVARIANTS OiExact OiCapHolds ReduceOnlyMakerSafe
PROPERTIES FillsSettleOrWait
CHECK_DEADLOCK FALSE
