\* Three accounts, one group and a grace period of two ticks.
CONSTANTS
    u1 = u1
    u2 = u2
    u3 = u3
    Users = {u1, u2, u3}
    Rooms = {r1}
    Added <- MCAdded
    NameLess <- MCNameLess
    Grace = 2
    MaxLapsed = 1
    MaxChanges = 3
    MaxMoves = 3
SPECIFICATION Spec
INVARIANTS TypeOK RoomHasOwner RetiredIsOut MostStay
PROPERTIES NotRetiredEarly
