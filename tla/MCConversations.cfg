SPECIFICATION FairSpec
CONSTANTS
    Servers = {s1, s2}
    Clients = {c1, c2}
    Parent = s1
    Child = c1
    NoOne = NoOne
    Programs = {"socketpair", "spair", "sock_c_u", "exchange"}
    Rounds = 2
INVARIANTS
    TypeOK
    EndsComplete
    ListenerIsFound
PROPERTIES
    CallsReturn
CHECK_DEADLOCK FALSE
