CONSTANTS
    v1 = v1
    v2 = v2
    a1 = a1
    a2 = a2
    None = None
    Policies = {policy}
    Activations = {a1, a2}
    Events = {v1, v2}
    dimensionOf <- MCDimensionOf
    Lifecycles = {"open", "resolved"}
    MaxRegistry = 3
    MaxRevision = 3
    k1 = k1
    k2 = k2
    a = a
    b = b
    x = x
    e1 = e1
    e2 = e2
    c = c
    ab = ab
    ba = ba
    ax = ax
    p1 = p1
    Detectors = {a, b, x}
    Registered = {a, b}
    detectorsOf <- MCDetectorsOf
    commitOf <- MCCommitOf
    pinOf <- MCPinOf
    Keys = {k1, k2}
    Bodies = {ab, ba, ax, p1}
    Envs = {e1, e2}
    MaxSpec = 2
    MaxPosts = 2
    MaxFaults = 1
    MaxRestarts = 1
    PolicyDocs <- MCPolicyDocs
    CheckpointDocs <- MCCheckpointDocs
    Unreliable = {"worker"}
    Window = 0
    LeaseTicks = 1
    MaxTime = 2
    MaxTokens = 2
    MaxEvents = 2
SPECIFICATION DecisionSpec
SYMMETRY IdSymmetry
INVARIANTS
    ScanIsSubmittedOnce
    DecisionsAreCurrent
    LedgerIsConsistent
PROPERTIES
    LinkIsOfNow
    UsedIsCurrent
CHECK_DEADLOCK FALSE
