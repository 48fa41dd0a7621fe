SPECIFICATION Spec
CONSTANTS
    Tl = {t1, t2, t3}
    Event = {e1}
    None = None
    Mute = {t3}
    ActionMax = 4
    Asserts = FALSE
    MaxTime = 0
    MaxSpan = 0
    MaxRepeat = 1
    MaxCount = 2
    MaxCalls = 2
PROPERTY FifoSpec
CHECK_DEADLOCK FALSE
