CONSTANTS
    Works = {w1, w2}
    Rearm = {w1}
    Plunger = plunger
    Drivers = {d1, d2}
    Helpers = {h1, h2}
    Timers = {t1}
    MaxDispatch = 2
    Ops = {"queue", "flush"}
    SubmitMayFail = FALSE
    None = None
    MaxCalls = 3
SPECIFICATION LiveSpec
PROPERTIES
    QueuedIsTaken
    FlushReturns
CHECK_DEADLOCK FALSE
