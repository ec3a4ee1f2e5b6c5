SPECIFICATION Spec
CONSTANTS
    NoKey = NoKey
    Keys = {k1, k2, k3}
    Workers = {w1, w2}
    TokenTTL = 1
    CacheTTL = 1
    Margin = 1
    MaxDelay = 1
    MaxClock = 4
    InitialActive = {k1}
SYMMETRY Symmetry
INVARIANTS
    AtMostOneActive
