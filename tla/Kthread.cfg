SPECIFICATION Spec
CONSTANTS
    d1 = d1  d2 = d2  k1 = k1  k2 = k2  i1 = i1  c1 = c1  stop = stop
    None = None
    Tasks = {d1, d2, k1, k2}
    Kthreads = {k1, k2}
    Irqs = {i1}
    Creators = {d1}
    Signalled = {d1,k1}
    Waited = {c1}
    Completions = {k1,k2, stop, c1}
    Single = {k1,k2, stop, c1}
    Stop = stop
    Workloads <- MCWorkloads
    MaxComplete = 2
INVARIANTS TypeOK CompletionsConserved NoLostWakeup StorageAlive HandedOutStarted StopResult
PROPERTIES CreateEnds StopEnds TimedCallsEnd
CHECK_DEADLOCK FALSE
