SPECIFICATION Spec
CONSTANTS
    m1 = m1
    M1 = M1
    m2 = m2
    Ids = {a, b}
    Pages = {p, q}
    Logins = {x}
    Mails <- MCMails
    lower <- mclower
    Passwords = {w1, w2}
    None = None
    NoId = NoId
PROPERTY CurrentRequired
