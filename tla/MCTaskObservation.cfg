SPECIFICATION Spec
CONSTANTS
    Observers = {o1}
    OwnEvents <- OwnOfFour
    MaxHead = 4
    PageSize = 2
    MaxPages = 2
    MaxReconnects = 1
INVARIANTS
    NoEventLost
    ObservationInv
PROPERTIES
    Implements
