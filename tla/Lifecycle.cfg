\* Two requests at a time, three altogether, two nodes, one fault.
CONSTANTS
    Kinds <- MCEveryKind
    Nodes = {1, 2}
    Primary = 1
    Callers = {1, 2}
    MaxCalls = 3
    MaxFaults = 1
    Parents <- MCParents
SPECIFICATION Spec
CHECK_DEADLOCK FALSE
INVARIANTS
    SettledWhenQuiet
    ActiveIsApplied
    GoneIsRemoved
