\* One worker, the managed database, one write, two faults.
CONSTANTS
    NumWorkers = 1
    FAILOVER_FAIL_STREAK = 1
    Managed = TRUE
    SlowBoot = TRUE
    MaxWrites = 1
    MaxTerm = 2
    MaxTroubles = 2
    ByHand = TRUE
SPECIFICATION Spec
CHECK_DEADLOCK FALSE
CONSTRAINT Whole
INVARIANTS
    TypeOK
    IdentityIsOwn
    InterimOutranks
    FenceIsTimed
PROPERTIES
    ReclaimKeepsWrites
