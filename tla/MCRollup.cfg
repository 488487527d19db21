SPECIFICATION LiveSpec
CONSTANTS
    StallTimeout = 0
    CensorTimeout = 1
    VolumeCap = 1
    MaxPlaced = 2
    MaxFills = 2
    Absent = Absent
INVARIANTS NothingLost EscapeArmed
PROPERTIES CounterRecovers TrapEnds
CHECK_DEADLOCK FALSE
