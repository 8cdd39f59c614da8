CONSTANTS
    s1 = s1
    s2 = s2
    t1 = t1
    t2 = t2
    k1 = k1
    keyOf <- MCKeyOf
    Jobs = {s1, s2}
    Tasks = {t1, t2}
    NumArtifacts = 2
    MaxReceive = 2
SPECIFICATION LostSpec
INVARIANTS
    ReadyIsComplete
    DeletedIsReady
PROPERTY EventuallySettled
CHECK_DEADLOCK FALSE
