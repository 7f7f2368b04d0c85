SPECIFICATION LiveSpec
CONSTANTS
    User = {u1}
    Password = {p1, p2}
    Jti = {j1, j2, j3}
    Req = {r1, r2}
    None = None
    MaxVersion = 2
    Owner = u1
    First = j1
    Second = j2
PROPERTIES
    EveryRequestEnds
CONSTANT Initial = p1
