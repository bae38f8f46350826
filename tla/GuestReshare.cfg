SPECIFICATION Spec
CONSTANTS
    Groups = {grp}
    ExtRooms = {}
    Users = {u1}
    GuestIds = {g1}
    w = w
    op = op
    Words <- OneWord
    Typed <- PlainOnly
    OperatorWords = {}
    Joins = {}
    Calls = {c1}
    Polls = {}
    Reconciler = rec
    MaxGuests = 1
    MaxTail = 2
    MaxLinks = 2
    MaxRestarts = 0
PROPERTY GivenLinkIsSaved
CHECK_DEADLOCK FALSE
