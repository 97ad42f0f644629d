CONSTANTS
    tx1 = tx1
    tx2 = tx2
    notes = notes
    photo = photo
    Parts = {"window"}
    Windowed <- TwoFiles
    Nothing = Nothing
    Hole = Hole
    Transfers = {tx1, tx2}
    Names = {notes}
    NameOf <- SameName
    Contents <- TwoFiles
    Window = 2
    AckEvery = 1
    Failing = {}
    Inodes = {1, 2, 3}
    MaxFlight = 3
    Faults = {}
    MaxFaults = 0
SPECIFICATION MCSpec
PROPERTIES DeliveredIsVerified
CHECK_DEADLOCK FALSE
