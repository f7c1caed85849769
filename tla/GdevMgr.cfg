\* two managers in turn, two cards of the same or of different makes
CONSTANTS
    Cards = {k1, k2}
    k1 = k1
    k2 = k2
    CrtcIds = {1, 2, 3, 4}
    MaxMgrs = 2
    None = None
    Hardware <- TwoMakes
SPECIFICATION Spec
INVARIANTS TypeOK RegsAccounted EventsReachLive IdsContiguous Restored
SYMMETRY CardSymmetry
CHECK_DEADLOCK FALSE
