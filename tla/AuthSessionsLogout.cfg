SPECIFICATION Spec
CONSTANTS
    User = {u1}
    Password = {p1, p2}
    Jti = {j1, j2}
    Req = {r1, r2}
    None = None
    MaxVersion = 1
SYMMETRY Symmetry
INVARIANTS
    LogoutEndsSession
