CONSTANTS
    j1 = j1
    j2 = j2
    r1 = r1
    d1 = d1
    d2 = d2
    f1 = f1
    u1 = u1
    x1 = x1
    m1 = m1
    m2 = m2
    m3 = m3
    k1 = k1
    k2 = k2
    Detection = Detection
    NoCall = NoCall
    Jobs = {j1, j2}
    Calls = {r1, d1, d2, f1, u1, x1}
    Verified = {r1, d1, d2, f1, x1}
    jobOf <- MCJobOf
    statusOf <- MCStatusOf
    Messages = {m1, m2, m3}
    keyOf <- MCKeyOf
    Consumers = {q1, q2}
    MaxReceive = 2
    MaxAbandoned = 1
    Bindings = {b1}
    MaxAttempts = 2
    MaxRuns = 2
    MaxCleanups = 2
    LeaseTicks = 2
    InitialBackoff = 1
    MaxBackoff = 1
    RetainTicks = 1
    CleanupTicks = 1
SPECIFICATION WorkSpec
INVARIANTS
    TerminalReportsHold
    MessagesAreKept
    ExecutionIsOwned
PROPERTIES
    ImplementsJobStates
    ImplementsLeases
    WorkEnds
CHECK_DEADLOCK FALSE
