SPECIFICATION FairSpec
CONSTANTS
    Players = {p1, p2}
    NoOne = NoOne
    Letters = {g, r, x}
    Word = {g, r}
    NoLetter = NoLetter
    maxlives = 2
    MaxTyped = 2
INVARIANTS
    TypeOK
    JudgedFairly
    NobodyDropped
PROPERTIES
    QueueMoves
CHECK_DEADLOCK FALSE
