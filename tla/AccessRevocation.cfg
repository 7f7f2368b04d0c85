SPECIFICATION Spec
CONSTANTS
    Jti = {j1, j2}
    Account = {}
    IP = {}
    AccountLimit = 1
    IPLimit = 1
    Window = 1
    MaxTTL = 3
    MaxTime = 6
    Req = {r1, r2}
    AccessTTL = 3
    Leeway = 1
SYMMETRY Symmetry
INVARIANTS
    RevokedUntilExpiry
    LoggedOutIsStored
