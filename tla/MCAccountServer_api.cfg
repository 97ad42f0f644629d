CONSTANTS
    alice = alice
    bob = bob
    desk = desk
    laptop = laptop
    NoOne = NoOne
    Users = {alice, bob}
    Devices = {desk}
    Requests = {1, 2, 3}
    RowIds = {1, 2, 3, 4}
    FreeAttempts = 1
    OperatorToken = FALSE
    OpenAtFirst = FALSE
    MayRestart = TRUE
SPECIFICATION Spec
INVARIANTS
    OneFreeAccount
    HeldByTheirOwner
    RotationLeavesAToken
CHECK_DEADLOCK FALSE
