SPECIFICATION ResSpec
CONSTANTS
    Solo = a
    TraderAccounts = {a}
    Amounts = {1}
    Margins = {1}
    Floors = {0}
    MaxVault = 1
    MaxOrders = 1
    MaxResets = 0
    MaxFaults = 1
    None = None
PROPERTIES ReservationAlwaysFreed
CHECK_DEADLOCK FALSE
