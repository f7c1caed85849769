\* an event outlives its registration
CONSTANTS
    Mode = "prod"
    Conns = {c1, c2}
    Procs = {p1, p2}
    Cards = {k1}
    DevReqs <- VtReq
    Sigs = {}
    Backlog = 2
    MaxQueue = 2
    NodeReuse = TRUE
    FdsExhaust = FALSE
    None = None
    Bogus = Bogus
    Foreign = Foreign
    Junk = Junk
    tty = tty
    input = input
SPECIFICATION Spec
INVARIANT EventsAreLive
