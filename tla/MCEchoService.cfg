SPECIFICATION FairSpec
CONSTANTS
    c1 = c1
    c2 = c2
    Clients <- MCClients
    NoClient = NoClient
    Servers = {"echo", "threads", "forks"}
    Backlog = 1
    MaxLines <- MCMaxLines
    MaxBytes = 2
INVARIANTS
    EchoInOrder
PROPERTIES
    ForkIsolates
    LinesAnswered
CHECK_DEADLOCK FALSE
