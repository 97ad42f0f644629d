CONSTANTS
    ann = ann
    ben = ben
    Sessions = {ann, ben}
    NoAgent = NoAgent
    Gated = {ann}
    Flaky = {ann}
    MaxQueue = 1
SPECIFICATION FairSpec
INVARIANTS LockedAtRest
PROPERTIES OnlyTheActiveCounts CaptureEndsWithTheViewer HandoverResumes

