SPECIFICATION FairSpec
CONSTANTS
    Runs = {p1, p2, p3}
    COUNT = 2
    Seconds = {"zeroRead", "zeroMade", "range", "release"}
    MaxSets = 2
INVARIANTS
    OneProducer
    Alternates
PROPERTIES
    SessionEnds
CHECK_DEADLOCK FALSE
