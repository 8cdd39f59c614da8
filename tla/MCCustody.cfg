SPECIFICATION Spec
CONSTANTS
    Files = {"f", "g"}
    Requests <- SampleRequests
    MaxChanges = 3
    Pubs = {"m", "e1", "b1", "e2"}
    First = {"m", "e1", "b1"}
    MaxReplaced = 2
    OsLimit = 38
    CleanupReserve = 8
    MaxFaults = 1
    MaxRaised = 1
    kindOf <- Kinds
    orderOf <- Orders
    Ids = {1, 2, 3}
    Snapshots = {"s1"}
    Calls = {c1, c2}
    RunIds = {r1}
    None = None
    MaxVersion = 2
    MaxDamaged = 2
    Inputs <- Records
INVARIANTS
    CaptureIsWhole
    
    
    FlipsAreSound
    VerifyIsSound
PROPERTIES
    OneWay
CHECK_DEADLOCK FALSE
