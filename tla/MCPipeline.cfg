SPECIFICATION FairSpec
CONSTANTS
    Programs = {"cmdpipe_modified", "whosortpipe", "converterpipe", "cmdpipe"}
    MaxCmds = 3
    Amounts = {1, 3}
    Capacity = 2
    Kinds = {"lines", "sort", "head"}
INVARIANTS
    NothingTruncated
PROPERTIES
    ShellReturns
CHECK_DEADLOCK FALSE
