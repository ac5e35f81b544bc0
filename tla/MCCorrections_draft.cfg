\* A turn of the user and a deployment by the user: the draft a deployment saves
\* is not the draft it resets.
SPECIFICATION Spec
CONSTANTS
    Rows = {"r1", "r2"}
    Verifies = {"v1", "v2"}
    MAX_ATTEMPTS = 2
    AutoDeploy = TRUE
    Agents = {"repair", "feature"}
    Ops = {"chat", "direct"}
    MaxWrites = 2
    MaxTip = 2
    MaxEvents = 2
INVARIANT DraftIsSaved
CHECK_DEADLOCK FALSE
