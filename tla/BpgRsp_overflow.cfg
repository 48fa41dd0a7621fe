SPECIFICATION RspSpec
CONSTANTS
    Ctx = {c1, c2}
    Req = {r1}
    Queue = {q2}
    Bounded = {q2}
    None = None
    Immediate = {}
    TickMax = 2
    MaxCount = 1
    MaxActions = 2
    MaxCalls = 1
    OpCalls = {}
    Inserts = {"tail"}
    CommitFrees = TRUE
INVARIANT OverflowIgnored
CHECK_DEADLOCK FALSE
