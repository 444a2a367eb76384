CONSTANTS
    Heads = {h1}
    Rearm = {}
    Readers = {r1}
    Callers = {c1}
    Timers = {t1}
    Tasklet = tasklet
    Ops = {"call"}
    None = None
SPECIFICATION FairSpec
PROPERTIES
    AgedIsCalled
