SPECIFICATION Spec
SYMMETRY Symmetry
CONSTANTS
    Groups = {grp}
    ExtRooms = {}
    Users = {u1}
    GuestIds = {g1, g2}
    w = w
    op = op
    Words <- OneWord
    Typed <- PlainAndMarked
    OperatorWords = {}
    Joins = {j1, j2}
    Calls = {c1}
    Polls = {}
    Reconciler = rec
    MaxGuests = 1
    MaxTail = 2
    MaxLinks = 2
    MaxRestarts = 1
INVARIANTS
    TypeOK
    AtMostMaxGuests
    OneNameOnePerson
    ActiveGuestIsMember
CHECK_DEADLOCK FALSE
