SPECIFICATION FairSpec
CONSTANTS
    c1 = c1  c2 = c2  a1 = a1  a2 = a2  p1 = p1  p2 = p2
    None = None  Worker = Worker
    Cmds = {c1, c2}
    Timed = {c1}
    Aborters = {a1, a2}
    PCPUs = {p1, p2}
    QueueDepth = 2
    Early = FALSE
    Ties = FALSE
INVARIANTS TypeOK OnePlace  HeldNotFreed BhPending  BusyCount
PROPERTIES LifeSpec DoneIsCompleted
CHECK_DEADLOCK FALSE
