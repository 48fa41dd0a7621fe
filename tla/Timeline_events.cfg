SPECIFICATION FairSpec
CONSTANTS
    Tl = {t1}
    Event = {e1, e2}
    None = None
    Mute = {}
    ActionMax = 2
    Asserts = FALSE
    MaxTime = 2
    MaxSpan = 1
    MaxRepeat = 2
    MaxCount = 1
    MaxCalls = 2
INVARIANTS TypeOK EventsLinked ScheduleKept
PROPERTIES QueueIsStable TimeNeverGoesBack DueServed
CHECK_DEADLOCK FALSE
