SPECIFICATION Spec
CONSTANTS
    Name = {n1, n2}
    Req = {r1, r2}
    None = None
    MaxId = 2
SYMMETRY Symmetry
INVARIANTS
    RegisteredIsPlainUser
