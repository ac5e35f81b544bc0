\* Four updates and four faults anywhere in them, up to the first overlap.
SPECIFICATION FairSpec
CONSTANTS
    Starts = {"s1", "s2"}
    Scripts = {"w1", "w2"}
    MaxOld = 4
    MaxFaults = 4
CONSTRAINT UntilOverlap
INVARIANTS TypeOK NeverStranded
PROPERTIES BackInService JobSettles
CHECK_DEADLOCK FALSE
