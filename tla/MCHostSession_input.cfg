CONSTANTS
    alice = alice
    bob = bob
    NoOne = NoOne
    shift = shift
    NoKey = NoKey
    Viewers <- TwoViewers
    Keys = {shift}
    MaxSession = 3
    MaxEvents = 2
    MaxCmds = 2
    RequireAuth = TRUE
    Authorized <- OnlyAlice
    PasswordSet = FALSE
    KnowsPassword <- OnlyAlice
    ThrottleAfter = 2
    Traffic <- InputTraffic
    ScreenLive = FALSE
SPECIFICATION Spec
INVARIANTS AckReachesItsViewer ViewOnlyHoldsNothing AuthorizedIsCurrent
PROPERTIES ObeysOnlyTheAccepted
