SPECIFICATION FairSpec
CONSTANTS
    PlainSenders = {s1}
    ModSenders = {s2}
    PlainReceivers = {r1}
    ModReceivers = {r2}
    Generators = {g1}
    Numbers <- MCNumbers
    Capacity = 2
    MaxLines = 2
    MaxQueues = 2
INVARIANTS
    CleanExitMeansAccepted
PROPERTIES
    ImplementsTypedQueue
    NobodyHangs
CHECK_DEADLOCK FALSE
