\* A routine executed twice at once, an agent, two commands one after the other.
SPECIFICATION FairSpec
CONSTANTS
    Commands = {"c1", "c2"}
    Routines = {"routine"}
    Agents = {"agent"}
    Slots = {"s1", "s2"}
    States = {"A", "B"}
    Scenarios = {{"routine"}, {"agent"}, {"c1", "c2"}}
    MaxEvents = 2
INVARIANTS TypeOK OncePerOccurrence
PROPERTIES RepeatNeedsOverlap ChangeIsRun DueIsRun
CHECK_DEADLOCK FALSE
