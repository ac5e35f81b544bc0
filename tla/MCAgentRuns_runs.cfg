\* One run, two processes, any three requests or troubles: who may touch the run, and when.
CONSTANTS
    p1 = p1
    p2 = p2
    t1 = t1
    t2 = t2
    t3 = t3
    Procs = {p1, p2}
    Tasks = {t1, t2, t3}
    NumRuns = 1
    MAX_ATTEMPTS = 2
    MAX_ACTIVE_WORKERS = 1
    MaxOps = 3
    MaxTroubles = 3
    MaxEvents = 3
SPECIFICATION Spec
SYMMETRY Symmetry
\* Every run may be settled.
CHECK_DEADLOCK FALSE
INVARIANTS
    TypeOK
    SoleExecutor

    
