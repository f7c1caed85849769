\* two cards of one make, every screen working
CONSTANTS
    Cards = {k1, k2}
    k1 = k1
    k2 = k2
    CrtcIds = {1, 2, 3, 4}
    MaxMgrs = 2
    None = None
    Hardware <- OneMake
SPECIFICATION Spec
INVARIANT ScreensNumbered
CHECK_DEADLOCK FALSE
