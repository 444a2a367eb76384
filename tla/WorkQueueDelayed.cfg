CONSTANTS
    Works = {w1}
    Rearm = {w1}
    Plunger = plunger
    Drivers = {d1, d2}
    Helpers = {h1, h2}
    Timers = {t1, t2}
    MaxDispatch = 2
    Ops = {"queue_delayed", "cancel_sync", "cancel_delayed_sync", "cancel_delayed", "flush"}
    SubmitMayFail = FALSE
    None = None
SYMMETRY Symmetry
SPECIFICATION Spec
INVARIANTS
    TypeOK
    PendingOwner
    CancelGuarantee
    FlushGuarantee
