SPECIFICATION MCSpec
CONSTANTS
    Keys = {a, b, c}
    NoKey = NoKey
    Lots = {1, 2}
    Bounds = {0, 1}
    HealBounds = {1}
    Ratios = {1, 2}
    HalfRatio = 3
    Timelock = 1
    MaxTime = 2
    Prices = {4, 6}
    Confs = {0, 3}
    Caps = {2}
    Windows = {1, 2}
    Maintenances = {3, 5}
    LiqFees = {0}
    MinMm = 3
    MinLiq = 1
    Unit = 8
    MaxCap = 4
    MaxNotional = 40
    MaxConf = 2
    MaxDispersion = 2
    MaxAge = 1
    FeedConf = 2
    FeedAge = 1
    SettleMin = 1
    MaxPrints = 2
    MaxClock = 3
    v1 = v1
    v2 = v2
    v3 = v3
    v4 = v4
    r1 = r1
    r2 = r2
    Validators = {v1, v2, v3, v4}
    Faulty = {v3, v4}
    Committees <- MCCommittees
    Thresholds = {2, 3}
    Batches <- MCBatches
    ZeroRoot = r0
    MaxEpoch = 2
    MaxSigned = 4
SYMMETRY KeySymmetry
INVARIANTS SlashingSound
PROPERTIES AuthorityByConsent NoticeGiven UpdateSurvivable PricesGenuine CommitsHaveHonestSigner
CHECK_DEADLOCK FALSE
