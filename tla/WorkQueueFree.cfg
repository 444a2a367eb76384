CONSTANTS
    Works = {w1, w2}
    Rearm = {}
    Plunger = plunger
    Drivers = {d1}
    Helpers = {h1, h2}
    Timers = {t1}
    MaxDispatch = 1
    Ops = {"queue", "destroy"}
    SubmitMayFail = FALSE
    None = None
SYMMETRY Symmetry
SPECIFICATION Spec
INVARIANTS
    NoUseAfterFree
CHECK_DEADLOCK FALSE
