SPECIFICATION Spec
CONSTANTS
    Ctx = {c1, c2}
    Req = {r1, r2}
    Queue = {}
    None = None
    Immediate = {c2}
    TickMax = 1
    MaxCount = 0
    MaxActions = 2
    MaxCalls = 1
    OpCalls = {"free", "execute", "cancel", "errno"}
    Inserts = {"tail", "head", "after"}
    CommitFrees = FALSE
SYMMETRY Requires
INVARIANTS TypeOK WaitsAgree NoDangling LinkedOnce CommitOnce
CHECK_DEADLOCK FALSE
PROPERTY LifeSpec
