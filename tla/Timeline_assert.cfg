SPECIFICATION Spec
CONSTANTS
    Tl = {t1}
    Event = {}
    None = None
    Mute = {}
    ActionMax = 3
    Asserts = TRUE
    MaxTime = 0
    MaxSpan = 0
    MaxRepeat = 1
    MaxCount = 1
    MaxCalls = 1
INVARIANT AssertHolds
CHECK_DEADLOCK FALSE
