SPECIFICATION Spec
CONSTANTS
    Traders = {t1, t2}
    Sizes = {1, 2}
    FillPrices = {2, 3}
    Marks = {1, 4}
    FeeTerms <- MCFeeTerms
    Shares = {1}
    ContributionPct = 50
    PauseThreshold = 1
    Amounts = {1}
    IndexSteps = {3}
    SeedSteps <- MCSeedSteps
    FundingOne = 2
    HDenom = 100
    MaxVault = 2
    MaxFills = 2
    MaxIndex = 3
    MaxResidual = 1
INVARIANTS ClaimsBacked HaircutSound
PROPERTY IsolationProtectsCross
CHECK_DEADLOCK FALSE
SYMMETRY Symmetry
