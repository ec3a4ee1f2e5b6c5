SPECIFICATION Spec
CONSTANTS
    K1s = {k1, k2}
    Wallets = {a, b}
    Users = {u, v}
    Callbacks = {c1, c2}
    NoWallet = NoWallet
    NoUser = NoUser
    NoAction = NoAction
    NoK1 = NoK1
SYMMETRY Symmetry
PROPERTY AttemptConsumes
