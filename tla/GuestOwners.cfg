SPECIFICATION Spec
CONSTANTS
    Groups = {grp}
    ExtRooms = {}
    Users = {u1, u2}
    GuestIds = {g1}
    w = w
    op = op
    Words <- TwoWords
    Typed <- PlainAndOperator
    OperatorWords = {op}
    Joins = {j1}
    Calls = {c1}
    Polls = {p1}
    Reconciler = rec
    MaxGuests = 1
    MaxTail = 2
    MaxLinks = 2
    MaxRestarts = 0
INVARIANT IInv
PROPERTY LivingRoomIsKept
CHECK_DEADLOCK FALSE
