SPECIFICATION FairSpec
CONSTANTS
    Threads = {t1, t2}
    NoThread = NoThread
    MaxAssertion = 3
    SourceRepeats = FALSE
    Remembered = 2
    MaxAttempts = 2
    RefreshMargin = 1
    Lifetime = 2
    MaxTime = 3
INVARIANTS
    AssertionSentOnce
    FederationInv
PROPERTIES
    TokensNeverGoBack
    Implements
    TransientFailuresAreHidden
    LockIsReleased
