SPECIFICATION Spec
CONSTANTS
    Zones = {"ex", "www.ex"}
    Fqdns = {"www"}
    Mails = {"m1"}
    Customs = {"c1", "c2"}
    Tenants = {"t1", "t2"}
    TenantOf <- MCTenantOf
    Candidates <- MCCandidates
    FqdnOf <- MCFqdnOf
    CustomAt <- MCCustomAt
    Contents = {"v1"}
    LBAddresses <- MCLBAddresses
    MailRecords <- MCMailRecords
    Starts <- MCStarts
    MaxOps = 4
    MaxOpen = 2
    MaxFaults = 1
INVARIANTS UnboundIsUnserved AutoServedUnlessOverridden
CHECK_DEADLOCK FALSE
