CONSTANTS
    Heads = {h1}
    Rearm = {}
    Readers = {r1, r2, r3}
    Callers = {c1, c2}
    Timers = {t1, t2}
    Tasklet = tasklet
    Ops = {"call", "synchronize", "cleanup"}
    None = None
SPECIFICATION Spec
SYMMETRY Symmetry
INVARIANTS
    TypeOK
    GracePeriod
    TimerWatch
    AnotherChance
    UnloadClean
CHECK_DEADLOCK FALSE
