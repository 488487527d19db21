SPECIFICATION MCSpec
CONSTANTS
    Markets = {m1}
    LPs = {a, b}
    Singleton = single
    Amounts = {2, 5}
    PartBurns = {3}
    Prices = {3, 4}
    PostPrices = {3}
    Sizes = {1}
    Purse = {0, 3}
    MinHold = 1
    RefreshMin = 1
    Bps = 4
    MaxDev = 1
    Growth = 4
    Lambda = 2
    Spread = 1
    FeeBps = 1
    RebateBps = 1
    MaxSlot = 1
    MaxDeposits = 2
    MaxFills = 2
    MaxQuotes = 2
    MaxMoves = 1
    Depositors = {a, b}
    Strategist = strat
    VaultAmounts = {2, 3}
    Pnls <- MCPnls
    UsdUnit = 10
    FeeDenom = 4
    PerfFees = {1, 2}
    OrderMargin = 1
    MaxVaultDeposits = 3
    MaxTrades = 4
    MaxDonated = 1
SYMMETRY HolderSymmetry
CHECK_DEADLOCK FALSE
INVARIANTS LpAccountsSound SharesSound
PROPERTIES LpNoDilution VaultHoldersWhole
