\* two processes, one after the other or at the same time
CONSTANTS
    Insts = {i1, i2}
    i1 = i1
    i2 = i2
    None = None
SPECIFICATION FairSpec
INVARIANTS TypeOK QuitNotLost NoDeadPath
PROPERTIES EndsOnSignal Serves
CHECK_DEADLOCK FALSE
