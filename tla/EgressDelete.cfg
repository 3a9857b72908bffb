\* Three rules, two nodes, up to three syncs under way or due.
CONSTANTS
    r1 = r1
    r2 = r2
    r3 = r3
    n1 = n1
    n2 = n2
    Rules <- MCRules
    Nodes <- MCNodes
    MaxSyncs = 3
SPECIFICATION Spec
CHECK_DEADLOCK FALSE
SYMMETRY MCSymmetry
INVARIANTS
    DeletedIsGone
