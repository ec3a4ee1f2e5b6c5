SPECIFICATION Spec
CONSTANTS
    Users = {u, v}
    Requests = {r1, r2}
    Sessions = {s1, s2}
    NoUser = NoUser
    NoRequest = NoRequest
SYMMETRY Symmetry
INVARIANTS
    GrantsApproved
