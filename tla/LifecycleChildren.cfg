\* A webroot that still has FQDNs is deleted.
CONSTANTS
    Kinds = {"webroot"}
    Nodes = {1, 2}
    Primary = 1
    Callers = {1, 2}
    MaxCalls = 2
    MaxFaults = 0
    Parents <- MCParents
SPECIFICATION Spec
CHECK_DEADLOCK FALSE
INVARIANT DeletionSettles
