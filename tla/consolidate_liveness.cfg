SPECIFICATION FairSpec
CONSTANTS
    w1 = w1  w2 = w2  t1 = t1
    e1 = e1  e2 = e2  e3 = e3
    x1 = x1  x2 = x2  x3 = x3
    NoEvent = NoEvent  NoTask = NoTask  NoBatch = NoBatch
    NoMemory = NoMemory  NoExecution = NoExecution
    Workspaces = {w1}
    Tasks = {t1}
    Events = {e1}
    Executions = {x1, x2}
    WorkspaceOf <- OneWorkspace
    TaskOf <- SomeTask
    Speaking <- TwoSpeak
    TargetOf <- AllTargetOne
    MaxSequence = 2
PROPERTIES
    ExecutionsEnd
    RequestedEventIsSettled
CHECK_DEADLOCK FALSE
