SPECIFICATION Spec
CONSTANTS
    Databases = {"db"}
    Instances = {}
    Shards = {"s1", "s2"}
    Layouts <- MCLocal
    Writes = {"w1"}
    MaxMigrations = 1
    MaxFaults = 0
INVARIANT MovedHasData
CHECK_DEADLOCK FALSE
