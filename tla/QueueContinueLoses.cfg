\* Three queued tasks and a batch of two: the third may be dropped.
CONSTANTS
    q1 = q1
    q2 = q2
    q3 = q3
    q4 = q4
    d1 = d1
    Tasks <- MCThreeAndDirect
    Direct <- MCDirect
    Unregistered = {}
    MaxOps = 2
    NoTask = NoTask
SPECIFICATION FairSpec
CHECK_DEADLOCK FALSE
PROPERTIES
    EveryAcceptedTaskRuns
