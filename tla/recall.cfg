SPECIFICATION FairSpec
CONSTANTS
    c = c
    s = s
    x1 = x1
    x2 = x2
    None = None
    Scale = 1
    Ids = {c, s}
    Candidates = {c}
    Reads = {x1, x2}
    Requests <- MCRequests
    Facts <- MCFacts
    ExcerptSize <- MCExcerptSize
INVARIANTS
    TypeOK
    ItemsAreAdmissible
    NeverWithItsReplacement
    SelectionIsGreedy
    UsesAreCounted
PROPERTIES
    ReadsEnd
CHECK_DEADLOCK FALSE
