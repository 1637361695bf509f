SPECIFICATION FairSpec
CONSTANTS
    Callers = {c1, c2}
    Connections = {k1, k2}
    NoConnection = NoConnection
    Turns = {t1, t2}
    NoTurn = NoTurn
    PaddedTurn = PaddedTurn
    MaxSequence = 2
    MaxCursor = 1
    PreemptibleGuard = FALSE
    Base = 3
    MaxPosition = 16
    Width = 3
    Names = {"lead", "support"}
    BadNames = {" lead"}
    MaxVoices = 2
    MaxTones = 3
INVARIANTS
    SendIsDurable
    AcceptanceIsGenuine
    SavedCheckpointIsResumable
    SubmissionInv
    RestartKeepsFields
PROPERTIES
    AcceptanceIsFinal
    NoSendAfterAcceptance
    Implements
    EventuallyAccepted
