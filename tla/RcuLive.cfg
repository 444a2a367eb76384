CONSTANTS
    Heads = {h1}
    Rearm = {h1}
    Readers = {r1, r2}
    Callers = {c1}
    Timers = {t1}
    Tasklet = tasklet
    Ops = {"call", "synchronize"}
    None = None
SPECIFICATION FairSpec
PROPERTIES
    CallbackIsCalled
    SynchronizeCompletes
