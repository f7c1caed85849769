\* buffers of two messages, enough of them sent to fill both and one more
CONSTANTS
    Paths = {p1, p2}
    Capacity = 2
    MaxSent = 6
    Quit = Quit
    Junk = Junk
SPECIFICATION FairSpec
INVARIANTS TypeOK Skew SoundUntilAbandoned ServiceFree
PROPERTIES CallEnds
CHECK_DEADLOCK FALSE
