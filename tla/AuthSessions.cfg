SPECIFICATION Spec
CONSTANTS
    User = {u1}
    Password = {p1, p2}
    Jti = {j1, j2, j3}
    Req = {r1, r2}
    None = None
    MaxVersion = 2
SYMMETRY Symmetry
INVARIANTS
    TypeOK
    SingleUse
    OneLivePerFamily
    ReplayEndsFamily
    AcceptedWasValid
PROPERTIES
    RotationIsCurrent
    RevocationIsFinal
    ImplementsSessions
