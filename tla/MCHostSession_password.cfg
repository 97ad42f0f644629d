CONSTANTS
    alice = alice
    bob = bob
    NoOne = NoOne
    shift = shift
    NoKey = NoKey
    Viewers <- TwoViewers
    Keys = {shift}
    MaxSession = 2
    MaxEvents = 2
    MaxCmds = 2
    RequireAuth = FALSE
    Authorized <- OnlyAlice
    PasswordSet = TRUE
    KnowsPassword <- OnlyAlice
    ThrottleAfter = 2
    Traffic <- PasswordTraffic
    ScreenLive = FALSE
SPECIFICATION Spec
PROPERTIES ObeysOnlyTheAccepted
