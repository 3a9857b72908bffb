SPECIFICATION Spec
CONSTANTS
    q1 = q1
    q2 = q2
    Requests = {q1, q2}
    MaxFaults = 2
SYMMETRY Symmetry
INVARIANTS RefusedHasNoEffect AcceptedTakesEffect DeleteRemoves
CHECK_DEADLOCK FALSE
