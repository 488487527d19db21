SPECIFICATION Spec
CONSTANTS
    Traders = {a, b}
    LimitPrices = {1, 2}
    BandPrices = {1}
    OrderSizes = {1, 2}
    MinLots = 1
    MaxPrice = 2
    MaxSeq = 3
    InitNodes = 1
    MaxNodes = 2
    WalkLimit = 1
    ScanFactor = 2
    MaxCancels = 2
    MaxReap = 2
    MarketStatuses = {"Active"}
    RoFlags = {FALSE, TRUE}
    FlagSets <- RestOrRevert
    LastSlot = 2
    MaxArrivals = 3
SYMMETRY TraderSymmetry
VIEW BookView
INVARIANTS HeaderExact
PROPERTIES ResidualUncrossed OrdersLeaveForCause TakerRespectsPriority
CHECK_DEADLOCK FALSE
