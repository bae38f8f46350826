SPECIFICATION Spec
SYMMETRY Symmetry
CONSTANTS
    Reqs = {q1, q2}
    NoReq = NoReq
    GuestPolls = 1
    Slots = 1
    PageSize = 1
    MaxMessages = 3
    MaxLost = 1
    MaxRestarts = 0
INVARIANTS
    TypeOK
    ListedOrWoken
    LandingInBetweenWakes
PROPERTY
    FeedKept
CHECK_DEADLOCK FALSE
