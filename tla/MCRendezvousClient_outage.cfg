CONSTANTS
    desk = desk
    phone = phone
    pad = pad
    ours = ours
    None = None
    Host = desk
    Devices = {desk, phone}
    AccountOf <- OneViewer
    Throttled = FALSE
    Tray = FALSE
    Severable = {desk, phone}
    MaxSevered = 1
    MaxOffer = 3
    Watchdog = 1
    MaxSocket = 3
    MaxQueue = 1
SPECIFICATION FairSpec
PROPERTIES
    WatchdogSparesReported
    AnnouncingViewerHears
CHECK_DEADLOCK FALSE
