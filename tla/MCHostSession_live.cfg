CONSTANTS
    alice = alice
    bob = bob
    NoOne = NoOne
    shift = shift
    NoKey = NoKey
    Viewers <- OnlyAlice
    Keys = {shift}
    MaxSession = 2
    MaxEvents = 2
    MaxCmds = 2
    RequireAuth = TRUE
    Authorized <- OnlyAlice
    PasswordSet = FALSE
    KnowsPassword <- OnlyAlice
    ThrottleAfter = 2
    Traffic <- SessionTraffic
    ScreenLive = TRUE
SPECIFICATION FairSpec
INVARIANT ActiveIsReported
PROPERTIES LossEndsSession RebuildReachesSignaling
