SPECIFICATION Spec
CONSTANTS
    Browsers = {b1, b2}
    Tabs = {t1, t2}
    Users = {u}
    Tokens = {n1, n2}
    Keys = {k1}
    Targets = {"login", "register", "consent", "logout", "redirect"}
    NoUser = NoUser
    NoToken = NoToken
    NoTab = NoTab
SYMMETRY Symmetry
CONSTRAINT OneTroubled
INVARIANTS
    TypeOK
    OwnAccount
    LogoutSticks
PROPERTIES
    ReplayRefused
