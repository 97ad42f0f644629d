CONSTANTS
    Runs = {1, 2, 3}
    Flock = TRUE
    LockMayFail = FALSE
    NoOne = NoOne
    None = None
    alice = alice
    bob = bob
    carol = carol
    mallory = mallory
    shift = shift
    letter = letter
    left = left
    desk = desk
    tv = tv
    hello = hello
    world = world
    Attempts = {alice, bob, carol, mallory}
    SecretOf <- Codes
    MayQuit = {bob, mallory}
    Backends = {"uinput", "xtest"}
    Keys = {shift, letter}
    Buttons = {left}
    Modifiers = {shift}
    Unit = 3
    Width = 7
    AbsMax = 255
    EmitFails = FALSE
    Rects <- Monitors
    Displays = {desk, tv}
    MaxViewers = 2
    MayFail = {}
    Queue = 2
    Texts = {hello, world}
    MaxCopies = 3
    MaxLinks = 2
SPECIFICATION MCSpec
INVARIANTS
    IdentityIsKept
    NoLostUpdate
    PairedIsMutual
    InjectsWhatWasMeant
    RequestsAreKept
    NoEcho
PROPERTIES
    BothUnlessCut
    PictureRecovers
CHECK_DEADLOCK FALSE
