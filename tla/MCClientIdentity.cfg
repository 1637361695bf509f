SPECIFICATION FairSpec
CONSTANTS
    Threads = {t1}
    Own = Own
    A = A
    B = B
    None = None
    Values <- MCValues
    Credentials <- AllCredentials
    CanRefresh = TRUE
INVARIANTS
    IdentityInv
    ExecutedOnce
    ReplayKeepsSubject
    ReplayKeepsClaims
    OriginalStillPasses
PROPERTIES
    CallEnds
