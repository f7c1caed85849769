\* progress: a client waits for its answer while others come, go and hang up
CONSTANTS
    Mode = "prod"
    Conns = {c1, c2}
    Procs = {p1, p2}
    Cards = {}
    DevReqs <- VtReq
    Sigs = {"INT"}
    Backlog = 2
    MaxQueue = 1
    NodeReuse = FALSE
    FdsExhaust = FALSE
    None = None
    Bogus = Bogus
    Foreign = Foreign
    Junk = Junk
    tty = tty
    input = input
SPECIFICATION FairSpec
PROPERTIES Answered HungUpDropped QuitHeard
