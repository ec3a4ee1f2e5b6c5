SPECIFICATION Spec
CONSTANTS
    NoKey = NoKey
    Keys = {k1, k2}
    Workers = {w1, w2}
    TokenTTL = 1
    CacheTTL = 1
    Margin = 1
    MaxDelay = 1
    MaxClock = 4
    InitialActive = {}
SYMMETRY Symmetry
INVARIANTS
    TypeOK
    LiveTokenKeyPublished
    CachedJwksVerifies
    AuditTrail
PROPERTIES
    LifeCycle
