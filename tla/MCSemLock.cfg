SPECIFICATION FairSpec
CONSTANTS
    Demo = {d1, d2}
    DemoMod = {}
    Creator = {c1}
    Remover = {r1}
    MAX_RETRIES = 2
    SEMVMX = 2
    MaxSets = 2
INVARIANTS
    MutualExclusion
    ReadyMeansInitialised
    LockConserved
PROPERTIES
    ImplementsLockService
    WaitsEnd
CHECK_DEADLOCK FALSE
