SPECIFICATION Spec
CONSTANTS
    Clients = {a}
    Pages = {p, q}
    Secrets = {s1, s2, s3, s4}
    Requests = {r1, r2}
    Forms <- MCForms
    NoSecret = NoSecret
    NoForm = NoForm
    NoClient = NoClient
SYMMETRY Symmetry
INVARIANTS
    TypeOK
    CodeFlowPossible
    SecretFitsMethod
    DisabledStopsNew
PROPERTIES
    SecretChangesShown
