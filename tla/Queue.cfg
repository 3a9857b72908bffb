\* Four queued tasks and batches of two: a batch fills up twice.
CONSTANTS
    q1 = q1
    q2 = q2
    q3 = q3
    q4 = q4
    d1 = d1
    Tasks <- MCFourAndDirect
    Direct <- MCDirect
    Unregistered = {}
    MaxOps = 2
    NoTask = NoTask
SPECIFICATION FairSpec
CHECK_DEADLOCK FALSE
INVARIANTS
    TypeOK
    OneAtATime
    StartedInOrder
    LossNeedsFullBatch
    WaitingHasRun
PROPERTIES
    ImplementsExecutor
    RunsUnlessDropped
