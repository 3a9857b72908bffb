\* Three requests (or two and a fault), two at a time, up to two migrations,
\* also to the shard the tenant is on: from a shard of one node to one of two.
CONSTANTS
    n1 = n1
    n2 = n2
    n3 = n3
    a = a
    b = b
    Shards = {"web1", "web2"}
    NodesOf <- MCNodesOf
    Home = "web2"
    Targets = {"web1", "web2"}
    Web = {}
    CrossShard = {"zone"}
    Zones = {"zone"}
    Callers = {a, b}
    MaxEvents = 3
    MaxMoves = 2
    MaxFaults = 1
SPECIFICATION Spec
CHECK_DEADLOCK FALSE
SYMMETRY MCSymmetry
INVARIANTS
    SettledWhenQuiet
    SuspendedIsLocked
    AccountsMatchRow
    UnsuspendRestores
