SPECIFICATION Spec
CONSTANTS
    Zones = {"ex"}
    Fqdns = {"www"}
    Mails = {}
    Customs = {"c1"}
    Tenants = {"t1"}
    TenantOf <- MCOneTenant
    Candidates <- MCCandidates
    FqdnOf <- MCFqdnOf
    CustomAt <- MCCustomAt
    Contents = {"v1", "v2"}
    LBAddresses <- MCLBAddresses
    MailRecords <- MCMailRecords
    Starts <- MCEmpty
    MaxOps = 3
    MaxOpen = 2
    MaxFaults = 0
INVARIANT CustomIsServed
CHECK_DEADLOCK FALSE
