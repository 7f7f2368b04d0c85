SPECIFICATION Spec
CONSTANTS
    Jti = {j1}
    Account = {}
    IP = {}
    AccountLimit = 1
    IPLimit = 1
    Window = 1
    MaxTTL = 3
    MaxTime = 6
    Req = {r1, r2}
    AccessTTL = 3
    Leeway = 1
SYMMETRY SymmetryReq
INVARIANTS
    LogoutRejectsAccess
