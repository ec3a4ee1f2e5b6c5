SPECIFICATION Spec
CONSTANTS
    Clients = {a, b}
    Codes = {c1, c2}
    Tokens = {t1, t2, t3}
    Requests = {r1, r2}
    NoClient = NoClient
    NoCredential = NoCredential
SYMMETRY Symmetry
CONSTRAINT Bounds
INVARIANTS
    TypeOK
    OwnClient
    OneSuccessor
    ForksBounded
PROPERTIES
    RevokedStays
    LineOfCredentials
