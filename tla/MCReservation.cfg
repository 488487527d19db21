SPECIFICATION MCSpec
CONSTANTS
    Solo = a
    TraderAccounts = {a, b}
    Amounts = {1}
    Margins = {1}
    Floors = {0, 1}
    MaxVault = 2
    MaxOrders = 2
    MaxResets = 1
    MaxFaults = 2
    None = None
INVARIANTS AttestationsSound
PROPERTIES OwnerLeavesReserved ReservationsFollowOrders
CHECK_DEADLOCK FALSE
