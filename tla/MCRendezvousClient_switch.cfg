CONSTANTS
    desk = desk
    phone = phone
    pad = pad
    ours = ours
    None = None
    Host = desk
    Devices = {desk, phone, pad}
    AccountOf <- TwoViewers
    Throttled = FALSE
    Tray = FALSE
    Severable = {}
    MaxSevered = 0
    MaxOffer = 2
    Watchdog = 1
    MaxSocket = 3
    MaxQueue = 1
SPECIFICATION Spec
INVARIANTS ReplayIsOneConnection
CHECK_DEADLOCK FALSE
