SPECIFICATION Spec
CONSTANTS
    c1 = c1
    c2 = c2
    c3 = c3
    s1 = s1
    s2 = s2
    Chats = {c1, c2, c3}
    Sessions = {s1, s2}
    HistoryLimit = 3
SYMMETRY Symmetry
INVARIANTS
    RepliesFollowQuestions
    ReportedIsRemembered
CHECK_DEADLOCK FALSE
