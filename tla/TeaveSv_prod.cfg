\* prod mode: three connections of two processes, failures inside the service
CONSTANTS
    Mode = "prod"
    Conns = {c1, c2, c3}
    Procs = {p1, p2}
    Cards = {k1}
    DevReqs <- NoReq
    Sigs = {}
    Backlog = 2
    MaxQueue = 1
    NodeReuse = TRUE
    FdsExhaust = TRUE
    None = None
    Bogus = Bogus
    Foreign = Foreign
    Junk = Junk
    tty = tty
    input = input
SPECIFICATION Spec
SYMMETRY Symmetry
INVARIANTS TypeOK ConnsAccounted MasterBacked LentToMaster
PROPERTIES Exclusive OnlyHolderEnds ImplementsLease ImplementsConn
