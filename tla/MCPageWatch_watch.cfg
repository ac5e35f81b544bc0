\* Two processes, overlapping checks, an edit.
CONSTANTS
    Procs = {p1, p2}
    Tasks = {t1, t2}
    Urls = {1}
    Kinds = {"change", "condition"}
    MaxContent = 1
    MAX_FAILURES = 2
    MaxChanges = 1
    MaxEvents = 2
SPECIFICATION FairSpec
\* A deleted watch stays.
CHECK_DEADLOCK FALSE
INVARIANTS
    TypeOK
PROPERTIES
    NoAlertTwice
    DueIsChecked
