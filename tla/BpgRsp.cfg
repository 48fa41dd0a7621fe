SPECIFICATION RspFairSpec
CONSTANTS
    Ctx = {c1, c2}
    Req = {r1}
    Queue = {q1, q2}
    Bounded = {q2}
    None = None
    Immediate = {}
    TickMax = 2
    MaxCount = 1
    MaxActions = 2
    MaxCalls = 1
    OpCalls = {}
    Inserts = {"tail"}
    CommitFrees = TRUE
INVARIANTS RspTypeOK OneAtATime NoCrash
PROPERTIES AnsweredOnce PendingServed QueueServed RequestEnds
CHECK_DEADLOCK FALSE
