\* dev mode: two connections, a card and the terminal, every signal, failures
CONSTANTS
    Mode = "dev"
    Conns = {c1, c2}
    Procs = {p1, p2}
    Cards = {k1}
    DevReqs <- VtReq
    Sigs = {"HUP", "INT"}
    Backlog = 2
    MaxQueue = 2
    NodeReuse = TRUE
    FdsExhaust = TRUE
    None = None
    Bogus = Bogus
    Foreign = Foreign
    Junk = Junk
    tty = tty
    input = input
SPECIFICATION Spec
SYMMETRY Symmetry
INVARIANTS LentToMaster AnswerMatches
PROPERTIES Revoked ImplementsLease
