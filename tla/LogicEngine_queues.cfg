SPECIFICATION Spec
CONSTANTS
    Ctx = {c1, c2, c3}
    Req = {r1}
    Queue = {q1}
    None = None
    Immediate = {}
    TickMax = 2
    MaxCount = 2
    MaxActions = 1
    MaxCalls = 1
    OpCalls = {"free", "execute", "cancel", "enqueue"}
    Inserts = {"tail", "head", "after"}
    CommitFrees = TRUE
SYMMETRY Slots
INVARIANTS NoneLost OnlyHeadRuns
PROPERTY PendingInOrder
CHECK_DEADLOCK FALSE
