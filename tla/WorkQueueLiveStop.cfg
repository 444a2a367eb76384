CONSTANTS
    Works = {w1}
    Rearm = {}
    Plunger = plunger
    Drivers = {d1, d2}
    Helpers = {h1, h2}
    Timers = {t1}
    MaxDispatch = 1
    Ops = {"queue", "queue_delayed", "cancel_sync", "cancel_delayed_sync", "destroy"}
    SubmitMayFail = FALSE
    None = None
    MaxCalls = 4
SPECIFICATION LiveSpec
PROPERTIES
    CancelReturns
    DestroyReturns
CHECK_DEADLOCK FALSE
