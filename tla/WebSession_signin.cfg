SPECIFICATION FairSpec
CONSTANTS
    Browsers = {b}
    Tabs = {t1, t2}
    Users = {u}
    Tokens = {n1, n2}
    Keys = {k}
    Targets = {"login", "logout", "redirect"}
    NoUser = NoUser
    NoToken = NoToken
    NoTab = NoTab
PROPERTY SignInCompletes
