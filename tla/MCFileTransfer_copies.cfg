CONSTANTS
    tx1 = tx1
    tx2 = tx2
    notes = notes
    photo = photo
    Parts = {"window", "resume"}
    Windowed <- Sizes
    Nothing = Nothing
    Hole = Hole
    Transfers = {tx1, tx2}
    Names = {notes, photo}
    NameOf <- TwoNames
    Contents <- Anything
    Window = 2
    AckEvery = 2
    Failing = {}
    Inodes = {1, 2}
    MaxFlight = 3
    Faults = {"host"}
    MaxFaults = 1
SPECIFICATION MCSpec
INVARIANTS
    EndsAgree
PROPERTIES
    CopiesWholeFiles
    TransfersEnd
CHECK_DEADLOCK FALSE
