SPECIFICATION FairSpec
CONSTANTS
    Observers = {o1}
    OwnEvents <- OwnOfTwo
    MaxHead = 2
    PageSize = 1
    MaxPages = 1
    MaxReconnects = 1
PROPERTIES
    WaitReturns
    EventuallyDelivered
