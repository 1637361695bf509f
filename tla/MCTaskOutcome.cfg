SPECIFICATION Spec
CONSTANTS
    Kinds = {"approval", "input"}
    Approval = "approval"
    Failures = {"failed"}
    Tokens = {p, q, r}
    FirstPage = ""
    MaxPages = 3
    MaxCursor = 4
CONSTRAINT TwoChanges
SYMMETRY TokenSymmetry
INVARIANTS
    OutcomeInv
    OutcomeWasTrue
    RequestFound
    DecisionInformed
