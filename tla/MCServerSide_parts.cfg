CONSTANTS
    desk = desk
    phone = phone
    stray = stray
    ours = ours
    theirs = theirs
    None = None
    Devices = {desk, phone, stray}
    AccountOf <- WithStray
    Throttled = TRUE
    MaxSocket = 3
    MaxQueue = 1
SPECIFICATION MCSpec
INVARIANTS
    RelayWithinAccount
    NoGhosts
PROPERTIES
    EvictsOnlyItself
    RelayIsRenewed
CHECK_DEADLOCK FALSE
