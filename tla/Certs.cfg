SPECIFICATION FairSpec
CONSTANTS
    Certs = {c1, c2, c3, c4}
    Nodes = {n1}
    MaxUploads = 1
    MaxBinds = 1
    MaxFaults = 1
    MaxAgings = 1
INVARIANT ActiveIsInstalled
PROPERTY ExpiringIsRenewed
CHECK_DEADLOCK FALSE
