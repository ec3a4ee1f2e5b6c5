SPECIFICATION FairSpec
CONSTANTS
    m1 = m1
    M1 = M1
    m2 = m2
    Ids = {a, b, c}
    Pages = {p, q}
    Logins = {x, y}
    Mails <- MCMails
    lower <- mclower
    Passwords = {w}
    None = None
    NoId = NoId
INVARIANTS
    TypeOK
    OneAccountPerName
    MainHasRoot
PROPERTY
    WizardEnds
