SPECIFICATION Spec
CONSTANTS
    Users = {u, v}
    Requests = {r1, r2, r3}
    Sessions = {s1, s2}
    NoUser = NoUser
    NoRequest = NoRequest
SYMMETRY Symmetry
INVARIANTS
    TypeOK
    OnePending
    LinksOpenPages
    CountsAgree
PROPERTIES
    DecidedOnce
