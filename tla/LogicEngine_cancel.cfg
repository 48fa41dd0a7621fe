SPECIFICATION Spec
CONSTANTS
    Ctx = {c1}
    Req = {}
    Queue = {}
    None = None
    Immediate = {}
    TickMax = 1
    MaxCount = 0
    MaxActions = 1
    MaxCalls = 1
    OpCalls = {}
    Inserts = {"tail", "head", "after"}
    CommitFrees = FALSE
PROPERTY CancelStays
CHECK_DEADLOCK FALSE
