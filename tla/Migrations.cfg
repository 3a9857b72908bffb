SPECIFICATION Spec
CONSTANTS
    Databases = {"db"}
    Instances = {"kv"}
    Shards = {"s1", "s2"}
    Layouts <- MCLayouts
    Writes = {"w1", "w2"}
    MaxMigrations = 2
    MaxFaults = 1
INVARIANT DataSurvives
CHECK_DEADLOCK FALSE
