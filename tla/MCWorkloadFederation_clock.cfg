SPECIFICATION Spec
CONSTANTS
    Threads = {t1}
    NoThread = NoThread
    MaxAssertion = 2
    SourceRepeats = FALSE
    Remembered = 2
    MaxAttempts = 2
    RefreshMargin = 1
    Lifetime = 4
    MaxTime = 6
PROPERTIES
    KeptTokenIsUnexpired
