SPECIFICATION FairSpec
CONSTANTS
    Groups = {}
    ExtRooms = {x}
    Users = {u1}
    GuestIds = {g1}
    w = w
    op = op
    Words <- OneWord
    Typed <- PlainOnly
    OperatorWords = {}
    Joins = {j1}
    Calls = {c1}
    Polls = {}
    Reconciler = rec
    MaxGuests = 1
    MaxTail = 2
    MaxLinks = 1
    MaxRestarts = 0
PROPERTY GoneGuestsForgotten
CHECK_DEADLOCK FALSE
