SPECIFICATION FairSpec
CONSTANTS
    Runs = {r1, r2}
    NoRun = NoRun
    Programs = {"main", "changer", "byte_changer", "mod_create", "create", "attach"}
    MAX_SEGMENTS = 2
    Table = 3
INVARIANTS
    TypeOK
    NothingLeft
    ReportFromOutside
    ShownIsFinal
PROPERTIES
    RunsEnd
CHECK_DEADLOCK FALSE
