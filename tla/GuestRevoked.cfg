SPECIFICATION Spec
CONSTANTS
    Groups = {grp}
    ExtRooms = {}
    Users = {u1}
    GuestIds = {g1}
    w = w
    op = op
    Words <- OneWord
    Typed <- PlainOnly
    OperatorWords = {}
    Joins = {j1}
    Calls = {c1}
    Polls = {}
    Reconciler = rec
    MaxGuests = 1
    MaxTail = 2
    MaxLinks = 1
    MaxRestarts = 0
PROPERTY RevokedTakesNobodyNew
CHECK_DEADLOCK FALSE
