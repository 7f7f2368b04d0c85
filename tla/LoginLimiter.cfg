SPECIFICATION Spec
CONSTANTS
    Jti = {}
    Account = {a1, a2}
    IP = {i1}
    AccountLimit = 2
    IPLimit = 3
    Window = 2
    MaxTTL = 0
    MaxTime = 4
    Req = {r1, r2, r3}
SYMMETRY Symmetry
INVARIANTS
    BoundedOverrun
PROPERTIES
    FixedWindow
