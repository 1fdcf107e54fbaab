SPECIFICATION FairSpec
CONSTANTS
    Programs = {"mod", "test"}
    Clients = {c1, c2}
    NoClient = NoClient
    MaxServers = 2
    MaxSignals = 1
    TRIES = 2
INVARIANTS
    OneServer
PROPERTIES
    ServiceReturns
    InterruptedClientEnds
CHECK_DEADLOCK FALSE
