SPECIFICATION FairSpec
CONSTANTS
    Reqs = {q1}
    NoReq = NoReq
    GuestPolls = 1
    Slots = 1
    PageSize = 1
    MaxMessages = 2
    MaxLost = 1
    MaxRestarts = 1
PROPERTIES
    EntryReachesPage
    RemovedPageStops
CHECK_DEADLOCK FALSE
