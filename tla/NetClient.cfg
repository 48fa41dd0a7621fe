SPECIFICATION FairSpec
CONSTANTS
    Req = {1, 2}
    Ctx = {c1}
    Timed = {}
    Id = {1, 2}
    None = None
    Capacity = 2
    MaxDisables = 1
INVARIANTS TypeOK TimerHasOwner WaitingIsTimed WatcherAgrees RetriesAfterError SoundUnlessDisabled Told
CHECK_DEADLOCK FALSE
PROPERTIES RequireEnds Flushed Reconnects
