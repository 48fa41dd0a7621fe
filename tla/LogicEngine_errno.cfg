SPECIFICATION Spec
CONSTANTS
    Ctx = {c1}
    Req = {r1}
    Queue = {}
    None = None
    Immediate = {}
    TickMax = 1
    MaxCount = 0
    MaxActions = 2
    MaxCalls = 1
    OpCalls = {}
    Inserts = {"tail", "head", "after"}
    CommitFrees = FALSE
INVARIANT ErrnoKeepsFlow
CHECK_DEADLOCK FALSE
