\* Two incidents, reopened, relapsed or of two disks; two events.
CONSTANTS
    d1 = d1
    d2 = d2
    disk = disk
    cron = cron
    Api = Api
    Keys <- MCKeys
    Types <- MCTypes
    TypeOf <- MCTypeOf
    Monitors = {cron}
    Watches <- MCWatches
    MaxIncidents = 2
    BatchLimit = 2
    MaxConcurrent = 1
    FollowerConcurrent = 1
    MaxEvents = 2
SPECIFICATION FairSpec
INVARIANTS
    TypeOK
    InvestigatedOnce
    GroupPaced
PROPERTIES
    HumanKeepsIncident
    NeglectEnds
    RecoveredIsClosed
    IllIsReported
