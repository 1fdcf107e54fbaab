SPECIFICATION Spec
CONSTANTS
    Demo = {d1}
    DemoMod = {m1}
    Creator = {}
    Remover = {}
    MAX_RETRIES = 2
    SEMVMX = 3
    MaxSets = 1
INVARIANTS
    MutualExclusion
CHECK_DEADLOCK FALSE
