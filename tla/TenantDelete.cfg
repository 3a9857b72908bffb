\* One request, a deletion.
CONSTANTS
    n1 = n1
    n2 = n2
    n3 = n3
    a = a
    b = b
    Shards = {"web1", "web2"}
    NodesOf <- MCNodesOf
    Home = "web1"
    Targets = {"web2"}
    Web = {}
    CrossShard = {"database"}
    Zones = {}
    Callers = {a}
    MaxEvents = 1
    MaxMoves = 0
    MaxFaults = 0
SPECIFICATION Spec
CHECK_DEADLOCK FALSE
PROPERTIES
    DeletionCompletes
