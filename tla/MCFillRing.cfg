SPECIFICATION Spec
CONSTANTS
    Traders = {t1, t2}
    LpPool = lp
    Sizes = {2}
    RingCapLimit = 3
    LogSafeBatch = 2
    OutboxInitCap = 2
    InflightSlots = 1
    MaxCap = 4
    MaxProduced = 4
SYMMETRY TraderSymmetry
INVARIANTS CountersExact PendingIntact ExactlyOnceFifo OutboxDelivers
PROPERTIES QueueSpec
CHECK_DEADLOCK FALSE
