SPECIFICATION Spec
CONSTANTS
    e1 = e1
    k1 = k1
    k2 = k2
    w1 = w1
    w2 = w2
    p1 = p1
    p2 = p2
    x1 = x1
    x2 = x2
    x3 = x3
    None = None
    Calls = {x1, x2, x3}
    Requests <- WriteBackRequests
    EventIds = {e1}
    Keys = {k1, k2}
    Workspaces = {w1, w2}
    Payloads = {p1, p2}
    MessageLimit = 2
PROPERTY
    AdvanceIsCompareAndSet
CHECK_DEADLOCK FALSE
