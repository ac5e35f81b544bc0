\* Both kinds of turns over one draft, two commits, two requests, pushes or faults.
SPECIFICATION FairSpec
CONSTANTS
    Rows = {"r1", "r2"}
    Verifies = {"v1", "v2"}
    MAX_ATTEMPTS = 2
    AutoDeploy = TRUE
    Agents = {"repair", "feature"}
    Ops = {"apply", "reject", "redo", "sort", "chat", "push", "direct"}
    MaxWrites = 2
    MaxTip = 2
    MaxEvents = 2
INVARIANTS TypeOK OnlyMissedIsLost
PROPERTIES ClosedIsFinal CommitPasses DeployingSettles
CHECK_DEADLOCK FALSE
