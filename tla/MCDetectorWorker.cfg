CONSTANTS
    j1 = j1
    j2 = j2
    w1 = w1
    w2 = w2
    orgA = orgA
    orgB = orgB
    NoOrg = NoOrg
    Jobs = {j1, j2}
    Orgs = {orgA, orgB}
    OrgOf <- MCOrgOf
    Rejected = {}
    Workers = {w1, w2}
    NumFindings = 1
    MaxReceive = 2
SPECIFICATION LostSpec
INVARIANTS
    AckedJobsStored
    BoundIsTransactionTenant
PROPERTY EventuallySettled
CHECK_DEADLOCK FALSE
