SPECIFICATION StoresSpec
CONSTANTS
    Jti = {j1}
    Account = {a1, a2}
    IP = {i1}
    AccountLimit = 2
    IPLimit = 3
    Window = 2
    MaxTTL = 2
    MaxTime = 4
    MaxFailures = 4
INVARIANTS
    EveryKeyExpires
PROPERTIES
    ImplementsAuthState
    MemoryImplementsAuthState
