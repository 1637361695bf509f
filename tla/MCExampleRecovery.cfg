CONSTANTS
    Process = {p1, p2}
    NoFile = NoFile
    Torn = Torn
    Keys = {"a", "b"}
    Trigger = "a"
    Programs = {"task_result", "account_brief", "probe"}
    MaxLog = 2
SYMMETRY Symmetry
CONSTRAINT OneRequest
SPECIFICATION Spec
INVARIANTS
    RecoveryInv
    FileAdmitsRequests
    ProjectionIsTrue
    NoEndMissed
PROPERTIES
    AcceptanceKept
