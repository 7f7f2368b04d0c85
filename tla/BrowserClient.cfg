SPECIFICATION BrowserFairSpec
CONSTANTS
    User = {u1}
    Jti = {j1, j2, j3}
    None = None
    Tab = {t1, t2}
    Call = {authorization}
    Authorize = authorization
    WebLocks = TRUE
    MaxEvents = 1
INVARIANTS
    BrowserTypeOK
    ReplayOnlyAfterLoss
    LoggedOutStaysOut
CHECK_DEADLOCK FALSE
PROPERTIES
    PageGoesOn
