CONSTANTS
    None = None
    NoOne = NoOne
    alice = alice
    bob = bob
    old = old
    new = new
    thumb = thumb
    index = index
    MaxLosses = 2
    AsksPassword = TRUE
    Users = {alice, bob}
    MaxKeys = 2
    Passwords = {old, new}
    MaxFaults = 3
    MaxOffers = 2
    Fingers = {1, 2, 3, 4}
    Elsewhere = {4}
    Interrupts = {"cancel", "attach"}
    Thumbs = {thumb, index}
    WordLengths = {1, 2}
    Extras = {}
    MaxText = 3
SPECIFICATION MCSpec
INVARIANTS
    NoRebuildStorm
    ShowsWhatIsPinned
    OneLiveSession
    FollowsTheFingers
    KeyboardIsTrue
PROPERTIES
    DialSettles
    Authenticates
CHECK_DEADLOCK FALSE
