SPECIFICATION Spec
CONSTANTS
    TriggerIds = {0, 1, 2}
    TwapIds = {0}
    IcebergIds = {0}
    TriggerTerms <- MCTriggerTerms
    BracketTerms <- MCBracketTerms
    TwapTerms <- MCTwapTerms
    IcebergTerms <- MCIcebergTerms
    ModifyTerms <- MCModifyTerms
    OraclePrices = {1, 3}
    InitPositions = {2}
    Backing = 6
    ImBps = 1
    BpsDenom = 1
    MinLots = 1
    Ttl = 1
    MaxSlot = 3
    MaxSeq = 3
    MaxPlaced = 2
    MaxFills = 2
INVARIANTS AccountsSound TwapPaced IcebergHidden
PROPERTIES ExitsNeverOvershoot
CHECK_DEADLOCK FALSE
