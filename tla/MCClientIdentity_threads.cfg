SPECIFICATION Spec
CONSTANTS
    Threads = {t1, t2}
    Own = Own
    A = A
    B = B
    None = None
    Values <- MCValues
    Credentials <- TwoScopes
    CanRefresh = TRUE
INVARIANTS
    ReplayKeepsClaims
