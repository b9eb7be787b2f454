SPECIFICATION FairSpec
CONSTANTS
    Capacity = 1
    Page = 1
    NoteRoom = 1
    FrameRoom = 1
    NoCursor = NoCursor
    MaxPeer = 2
    MaxLocal = 1
    MaxFaults = 1
INVARIANTS NoSkip NoHole
PROPERTIES Delivers Recovers
CHECK_DEADLOCK FALSE
