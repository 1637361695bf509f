SPECIFICATION Spec
CONSTANTS
    Callers = {c1, c2}
    Connections = {k1, k2}
    NoConnection = NoConnection
    Turns = {t1}
    NoTurn = NoTurn
    PaddedTurn = PaddedTurn
    MaxSequence = 1
    MaxCursor = 1
    PreemptibleGuard = TRUE
    Base = 3
    MaxPosition = 16
    Width = 3
    Names = {"lead", "support"}
    BadNames = {" lead"}
    MaxVoices = 2
    MaxTones = 3
INVARIANTS
    StorageInv
