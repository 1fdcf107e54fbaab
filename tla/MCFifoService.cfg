SPECIFICATION FairSpec
CONSTANTS
    Clients = {c1, c2}
    Servers = {"basic", "m", "mod"}
    Output = 2
    Capacity = 2
    Room = 1
    TRIES = 2
    MaxCmds = 2
    NoClient = NoClient
INVARIANTS
    AnswerWhole
    RequestAccounted
PROPERTIES
    Served
CHECK_DEADLOCK FALSE
