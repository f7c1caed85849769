\* two devices, of which one has two screens; a surface has three buffers
CONSTANTS
    NumDevs = 2
    NumBos = 3
    Screens <- TwoAndNone
SPECIFICATION Spec
CONSTRAINT OneTrouble
INVARIANTS TypeOK Layered Freed FbsOwned FramesKept
PROPERTIES ImplementsPool
CHECK_DEADLOCK FALSE
