CONSTANTS
    Works = {w1, w2}
    Rearm = {}
    Plunger = plunger
    Drivers = {d1, d2}
    Helpers = {h1, h2}
    Timers = {t1}
    MaxDispatch = 2
    Ops = {"queue", "cancel_sync", "flush", "destroy"}
    SubmitMayFail = TRUE
    None = None
SYMMETRY Symmetry
SPECIFICATION Spec
INVARIANTS
    Accounting
    CancelGuarantee
    FlushGuarantee
    PlungerAlive
    PostingAccounted
    NoStrandedWork
    
CHECK_DEADLOCK FALSE
