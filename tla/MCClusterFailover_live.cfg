\* Two workers and a database without replication: one fault, then the leader returns.
CONSTANTS
    NumWorkers = 2
    FAILOVER_FAIL_STREAK = 2
    Managed = FALSE
    SlowBoot = FALSE
    MaxWrites = 0
    MaxTerm = 2
    MaxTroubles = 1
    ByHand = FALSE
SPECIFICATION FairSpec
CHECK_DEADLOCK FALSE
PROPERTIES
    LeaderReturns
