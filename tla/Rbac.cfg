SPECIFICATION Spec
CONSTANTS
    Name = {n1, n2}
    Req = {r1, r2}
    None = None
    MaxId = 3
SYMMETRY Symmetry
INVARIANTS
    TypeOK
    OneBootstrapPerVacancy
    AccountsKeepRoles
    AuthorizationWasTrue
PROPERTIES
    RolesAsRequested
