SPECIFICATION EffectSpec
CONSTANTS
    s1 = s1
    s2 = s2
    r1 = r1
    r2 = r2
    m1 = m1
    m2 = m2
    NoScope = NoScope
    Scopes <- MCScopes
    Pubs <- MCPubs
    scopeOf <- MCScopeOf
    parentOf <- MCParentOf
    MaxLosses = 0
INVARIANT ResidueIsSetAside
CHECK_DEADLOCK FALSE
