CONSTANTS
    Works = {w1, w2}
    Rearm = {}
    Plunger = plunger
    Drivers = {d1}
    Helpers = {h1, h2}
    Timers = {t1}
    MaxDispatch = 1
    Ops = {"queue", "cancel_sync", "destroy"}
    SubmitMayFail = TRUE
    None = None
    MaxCalls = 6
SPECIFICATION LiveSpec
PROPERTIES
    DestroyReturns
CHECK_DEADLOCK FALSE
