-------------------------- MODULE GuestSeatsProofs --------------------------
(***************************************************************************)
(* The cap and the names of GuestRooms hold for any number of rooms,       *)
(* guests and requests.  Both are checked once, under the room's lock, and *)
(* relied on four calls to ejabberd later, when the guest is written: the  *)
(* invariant says that what the check found still holds until then,        *)
(* because nothing but a join under the same lock adds a guest.            *)
(***************************************************************************)
EXTENDS GuestRoomsProofs

SeatInv ==
    /\ LockInv
    /\ RoomForOneMore
    /\ NameStillFree
    /\ AtMostMaxGuests
    /\ OneNameOnePerson

\* Guests may go or be marked removed; nobody comes and nobody is renamed.
FewerGuests ==
    \A g \in GuestIds :
       \/ guests'[g].st = "none"
       \/ /\ guests[g].st # "none"
          /\ guests'[g].st = "active" => guests[g].st = "active"
          /\ guests'[g].room = guests[g].room
          /\ guests'[g].name = guests[g].name
          /\ guests'[g].nick = guests[g].nick

\* Joins alone touch the locks and add guests.
LEMMA OthersAddNobody ==
    ASSUME TypeOK, Next,
           ~ \E j \in Joins : JoinBegins(j) \/ JoinSteps(j), ~ Restart
    PROVE  UNCHANGED <<join, lock>> /\ FewerGuests
<1>guests. guests \in [GuestIds -> GuestRow]
    BY DEF TypeOK
<1>same. UNCHANGED guests => FewerGuests
    BY <1>guests DEF FewerGuests
<1>1. ASSUME NEW c \in Calls, CallBegins(c)
      PROVE  UNCHANGED <<join, lock, guests>>
    <2>1. ASSUME NEW u \in Users, NEW r \in Rooms, CreateRoom(c, u, r) \/ CreateUnanswered(c, u, r)
          PROVE  UNCHANGED <<join, lock, guests>>
        BY <2>1 DEF CreateRoom, CreateUnanswered, store
    <2>2. ASSUME NEW u \in Users, NEW r \in Rooms, ShareReads(c, u, r)
          PROVE  UNCHANGED <<join, lock, guests>>
        BY <2>2 DEF ShareReads, store
    <2>3. ASSUME NEW u \in Users, NEW r \in Rooms, NEW kind \in RoomKinds, RoomReads(c, u, r, kind)
          PROVE  UNCHANGED <<join, lock, guests>>
        BY <2>3 DEF RoomReads, store
    <2>4. ASSUME NEW g \in GuestIds, LeaveReads(c, g)
          PROVE  UNCHANGED <<join, lock, guests>>
        BY <2>4 DEF LeaveReads, store
    <2> QED
        BY <1>1, <2>1, <2>2, <2>3, <2>4 DEF CallBegins
<1>2. ASSUME NEW c \in Calls, CallSteps(c)
      PROVE  UNCHANGED <<join, lock>> /\ FewerGuests
    <2>1. CASE LinkAnswered(c) \/ CreatePuts(c) \/ ShareChecks(c) \/ ShareLinks(c)
        BY <2>1, <1>same DEF LinkAnswered, CreatePuts, ShareChecks, ShareLinks, store
    <2>2. CASE ShareOwns(c) \/ SharePuts(c) \/ RoomChecks(c) \/ RoomOwns(c)
        BY <2>2, <1>same DEF ShareOwns, SharePuts, RoomChecks, RoomOwns, store
    <2>3. CASE GetRoom(c) \/ NewLink(c) \/ RevokeLink(c) \/ DropKicks(c)
        BY <2>3, <1>same DEF GetRoom, NewLink, RevokeLink, DropKicks, store
    <2>4. ASSUME NEW g \in GuestIds, RemoveFinds(c, g)
          PROVE  UNCHANGED <<join, lock>> /\ FewerGuests
        BY <2>4, <1>same DEF RemoveFinds, store
    <2>5. CASE DropRemoves(c)
        BY <2>5, <1>guests DEF DropRemoves, FewerGuests, GuestRow
    <2> QED
        BY <1>2, <2>1, <2>2, <2>3, <2>4, <2>5 DEF CallSteps
<1>3. CASE SweepBegins
    BY <1>3, <1>same DEF SweepBegins, RoundStarts, PollFails, store
<1>4. ASSUME NEW s \in Sweeps, SweepSteps(s)
      PROVE  UNCHANGED <<join, lock>> /\ FewerGuests
    <2>1. ASSUME NEW r \in Rooms, SweepLooks(s, r)
          PROVE  UNCHANGED <<join, lock>> /\ FewerGuests
        BY <2>1, <1>same DEF SweepLooks, store
    <2>2. CASE SweepDropsGuests(s)
        <3>1. UNCHANGED <<join, lock>>
            BY <2>2 DEF SweepDropsGuests
        <3>2. CASE UNCHANGED guests
            BY <3>1, <3>2, <1>same
        <3>3. CASE guests' = [g \in GuestIds |-> IF g \in InRoom(sweep[s].room) THEN NoGuest
                                                 ELSE guests[g]]
            BY <3>1, <3>3, <1>guests DEF FewerGuests, NoGuest
        <3> QED
            BY <2>2, <3>2, <3>3 DEF SweepDropsGuests
    <2>3. CASE SweepDropsRoom(s)
        BY <2>3, <1>same DEF SweepDropsRoom
    <2> QED
        BY <1>4, <2>1, <2>2, <2>3 DEF SweepSteps
<1>5. CASE Environment
    BY <1>5, <1>same DEF Environment, DestroyRoom, AddOperator, PassOwnership, LinkExpires, store
<1> QED
    BY <1>1, <1>2, <1>3, <1>4, <1>5, <1>same DEF Next

\* Counting guests.
LEMMA GuestCount ==
    ASSUME NEW S \in SUBSET GuestIds
    PROVE  /\ Cardinality(S) \in Nat
           /\ \A T \in SUBSET GuestIds : S \subseteq T => Cardinality(S) <= Cardinality(T)
           /\ \A T \in SUBSET GuestIds, x \in GuestIds :
                 S \subseteq T \cup {x} => Cardinality(S) <= Cardinality(T) + 1
<1>1. \A T \in SUBSET GuestIds : IsFiniteSet(T)
    BY GuestAssumption, FS_Subset
<1>2. \A T \in SUBSET GuestIds : Cardinality(T) \in Nat
    BY <1>1, FS_CardinalityType
<1>3. ASSUME NEW T \in SUBSET GuestIds, S \subseteq T
      PROVE  Cardinality(S) <= Cardinality(T)
    BY <1>1, <1>3, FS_Subset
<1>4. ASSUME NEW T \in SUBSET GuestIds, NEW x \in GuestIds, S \subseteq T \cup {x}
      PROVE  Cardinality(S) <= Cardinality(T) + 1
    <2>1. T \cup {x} \in SUBSET GuestIds
        OBVIOUS
    <2>2. Cardinality(T \cup {x}) = Cardinality(T) \/ Cardinality(T \cup {x}) = Cardinality(T) + 1
        BY <1>1, FS_AddElement
    <2>3. Cardinality(S) <= Cardinality(T \cup {x})
        BY <1>1, <1>4, <2>1, FS_Subset
    <2> QED
        BY <2>1, <2>2, <2>3, <1>2
<1> QED
    BY <1>2, <1>3, <1>4

\* The joins that are past their check were past it before, as they are.
NoNewEntering ==
    \A j \in Joins : join'[j].pc \in Entering =>
       /\ join[j].pc \in Entering
       /\ join'[j].room = join[j].room
       /\ join'[j].name = join[j].name
       /\ join'[j].nick = join[j].nick

\* What the check found holds on while nobody comes.
LEMMA FewerGuestsKeep ==
    ASSUME TypeOK, SeatInv, FewerGuests, NoNewEntering
    PROVE  /\ RoomForOneMore' /\ NameStillFree'
           /\ AtMostMaxGuests' /\ OneNameOnePerson'
<1>1. \A r \in Rooms : InRoom(r)' \subseteq InRoom(r) /\ Active(r)' \subseteq Active(r)
    BY DEF FewerGuests, InRoom, Active
<1>2. \A r \in Rooms : Active(r) \in SUBSET GuestIds /\ Active(r)' \in SUBSET GuestIds
    BY DEF Active, InRoom
<1>3. \A r \in Rooms : Cardinality(Active(r)') <= Cardinality(Active(r))
    BY <1>1, <1>2, GuestCount
<1>4. \A r \in Rooms : Cardinality(Active(r)) \in Nat /\ Cardinality(Active(r)') \in Nat
    BY <1>2, GuestCount
<1>5. \A j \in Joins : join[j].room \in Rooms
    BY DEF TypeOK, JoinReq
<1>6. AtMostMaxGuests'
    BY <1>3, <1>4, GuestAssumption DEF SeatInv, AtMostMaxGuests
<1>7. RoomForOneMore'
    <2> SUFFICES ASSUME NEW j \in Joins, join'[j].pc \in Entering,
                        NEW r \in Rooms, r = join[j].room
                 PROVE  Cardinality(Active(r)') < MaxGuests
        BY <1>5 DEF RoomForOneMore, NoNewEntering, Active, InRoom
    <2>1. Cardinality(Active(r)) < MaxGuests
        BY DEF SeatInv, RoomForOneMore, NoNewEntering
    <2> QED
        BY <2>1, <1>3, <1>4, GuestAssumption
<1>8. NameStillFree'
    BY <1>1, <1>5 DEF SeatInv, NameStillFree, NoNewEntering, FewerGuests, InRoom, EqualFold
<1>9. OneNameOnePerson'
    BY DEF SeatInv, OneNameOnePerson, FewerGuests, EqualFold
<1> QED
    BY <1>6, <1>7, <1>8, <1>9

\* A join that moves on within the lock, or to it.
LEMMA LockKept ==
    ASSUME TypeOK, LockInv, NEW j \in Joins, UNCHANGED lock,
           \A k \in Joins : k # j => join'[k] = join[k],
           join'[j].pc \in Holding =>
              join[j].pc \in Holding /\ join'[j].room = join[j].room
    PROVE  LockInv'
BY DEF LockInv

\* A join that returns unlocks its own room and no other.
LEMMA UnlocksItsOwn ==
    ASSUME TypeOK, LockInv, NEW j \in Joins, join[j].pc \in Holding, JoinReturns(j)
    PROVE  LockInv' /\ NoNewEntering
<1>1. join \in [Joins -> JoinReq] /\ lock \in [Rooms -> Joins \cup {Nobody}]
    BY DEF TypeOK
<1>2. \A k \in Joins : join[k].room \in Rooms
    BY <1>1 DEF JoinReq
<1>3. join'[j].pc = "idle" /\ \A k \in Joins : k # j => join'[k] = join[k]
    BY <1>1 DEF JoinReturns, JoinIdle
<1>4. \A k \in Joins : k # j /\ join[k].pc \in Holding =>
         join[k].room # join[j].room /\ lock[join[k].room] = k
    BY DEF LockInv
<1>5. \A k \in Joins : k # j /\ join[k].pc \in Holding => lock'[join[k].room] = k
    BY <1>1, <1>2, <1>4 DEF JoinReturns, Unlock
<1>6. LockInv'
    BY <1>3, <1>5 DEF LockInv, Holding
<1> QED
    BY <1>3, <1>6 DEF NoNewEntering, Entering

LEMMA SeatNext == TypeOK /\ TypeOK' /\ SeatInv /\ [Next]_vars => SeatInv'
<1> SUFFICES ASSUME TypeOK, TypeOK', SeatInv, [Next]_vars PROVE SeatInv'
    OBVIOUS
<1>join. join \in [Joins -> JoinReq]
    BY DEF TypeOK
<1>lock. lock \in [Rooms -> Joins \cup {Nobody}]
    BY DEF TypeOK
<1>guests. guests \in [GuestIds -> GuestRow]
    BY DEF TypeOK
<1>jr. \A j \in Joins : join[j].room \in Rooms
    BY <1>join DEF JoinReq
<1>li. LockInv
    BY DEF SeatInv
<1>same. UNCHANGED guests => FewerGuests
    BY <1>guests DEF FewerGuests
<1>keep. FewerGuests /\ NoNewEntering /\ LockInv' => SeatInv'
    BY FewerGuestsKeep DEF SeatInv
<1>1. ASSUME NEW j \in Joins, NEW l \in 1..MaxLinks, NEW n \in Typed, JoinOpens(j, l, n)
      PROVE  SeatInv'
    <2>1. join'[j].pc = "lock" /\ \A k \in Joins : k # j => join'[k] = join[k]
        BY <1>1, <1>join DEF JoinOpens, JoinReq
    <2>2. LockInv'
        BY <1>1, <2>1, <1>li, LockKept DEF JoinOpens, Holding
    <2> QED
        BY <1>1, <2>1, <2>2, <1>same, <1>keep DEF JoinOpens, store, NoNewEntering, Entering
<1>2. ASSUME NEW j \in Joins, JoinLocks(j)
      PROVE  SeatInv'
    <2>1. /\ join'[j].pc = "check" /\ join'[j].room = join[j].room
          /\ \A k \in Joins : k # j => join'[k] = join[k]
        BY <1>2, <1>join DEF JoinLocks, JoinReq
    <2>2. \A k \in Joins : k # j /\ join[k].pc \in Holding => join[k].room # join[j].room
        BY <1>2, <1>li, GuestAssumption DEF JoinLocks, LockFree, LockInv, Requests
    <2>3. LockInv'
        BY <1>2, <2>1, <2>2, <1>lock, <1>jr, <1>li DEF JoinLocks, LockInv
    <2> QED
        BY <1>2, <2>1, <2>3, <1>same, <1>keep DEF JoinLocks, store, NoNewEntering, Entering
<1>3. ASSUME NEW j \in Joins, JoinRefused(j) \/ JoinUndoes(j) \/ JoinTells(j)
      PROVE  SeatInv'
    <2>1. join[j].pc \in Holding /\ JoinReturns(j) /\ UNCHANGED guests
        BY <1>3 DEF JoinRefused, JoinUndoes, JoinTells, Holding, store
    <2> QED
        BY <2>1, <1>li, <1>same, <1>keep, UnlocksItsOwn
<1>4. ASSUME NEW j \in Joins, JoinAffiliates(j) \/ JoinSubscribes(j) \/ JoinEnablesPush(j)
      PROVE  SeatInv'
    <2>1. /\ UNCHANGED <<lock, guests>>
          /\ join[j].pc \in Entering
          /\ \E pc \in {"sub", "push", "put", "undo"} : join' = [join EXCEPT ![j].pc = pc]
        BY <1>4 DEF JoinAffiliates, JoinSubscribes, JoinEnablesPush, AfterPushFailure, Entering, store
    <2>2. /\ \A k \in Joins : k # j => join'[k] = join[k]
          /\ join'[j].room = join[j].room /\ join'[j].name = join[j].name
          /\ join'[j].nick = join[j].nick
        BY <2>1, <1>join DEF JoinReq
    <2>3. LockInv'
        BY <2>1, <2>2, <1>li, LockKept DEF Holding, Entering
    <2> QED
        BY <2>1, <2>2, <2>3, <1>same, <1>keep DEF NoNewEntering
<1>5. ASSUME NEW j \in Joins, NEW g \in GuestIds, JoinAdmitted(j, g)
      PROVE  SeatInv'
    <2>r. PICK r \in Rooms : r = join[j].room
        BY <1>jr
    <2>1. PICK nick \in GuestNick(join[j].name, {guests[x].nick : x \in InRoom(r)}) :
             join' = [join EXCEPT ![j] = [@ EXCEPT !.pc = "aff", !.id = g, !.nick = nick]]
        BY <1>5, <2>r DEF JoinAdmitted
    <2>2. /\ UNCHANGED <<lock, guests>> /\ join[j].pc = "check"
          /\ ~NameTaken(r, join[j].name) /\ ~Full(r)
        BY <1>5, <2>r DEF JoinAdmitted, store
    <2>3. /\ \A k \in Joins : k # j => join'[k] = join[k]
          /\ join'[j].room = r /\ join'[j].name = join[j].name /\ join'[j].nick = nick
        BY <2>1, <2>r, <1>join DEF JoinReq
    <2>4. LockInv'
        BY <2>2, <2>3, <2>r, <1>li, LockKept DEF Holding
    <2>5. \A x \in Rooms : Active(x)' = Active(x) /\ InRoom(x)' = InRoom(x)
        BY <2>2 DEF Active, InRoom
    <2>6. nick \notin {guests[x].nick : x \in InRoom(r)}
        <3>1. join[j].name \in Name
            BY <1>join DEF JoinReq
        <3> QED
            BY <3>1, GuestNickFree
    <2>7. Cardinality(Active(r)) < MaxGuests
        <3>1. Active(r) \in SUBSET GuestIds
            BY DEF Active, InRoom
        <3>2. Cardinality(Active(r)) \in Nat
            BY <3>1, GuestCount
        <3> QED
            BY <2>2, <3>2, GuestAssumption DEF Full
    <2>8. RoomForOneMore'
        BY <2>3, <2>5, <2>7, <1>jr DEF SeatInv, RoomForOneMore
    <2>9. NameStillFree'
        BY <2>2, <2>3, <2>5, <2>6, <1>jr DEF SeatInv, NameStillFree, NameTaken
    <2>10. AtMostMaxGuests' /\ OneNameOnePerson'
        BY <2>2, <2>5 DEF SeatInv, AtMostMaxGuests, OneNameOnePerson
    <2> QED
        BY <2>4, <2>8, <2>9, <2>10 DEF SeatInv
<1>6. ASSUME NEW j \in Joins, JoinPuts(j), UNCHANGED guests
      PROVE  SeatInv'
    <2>1. /\ UNCHANGED lock /\ join[j].pc = "put"
          /\ \E pc \in {"tell", "undo"} : join' = [join EXCEPT ![j].pc = pc]
        BY <1>6 DEF JoinPuts
    <2>2. /\ \A k \in Joins : k # j => join'[k] = join[k]
          /\ join'[j].room = join[j].room /\ join'[j].pc \in {"tell", "undo"}
        BY <2>1, <1>join DEF JoinReq
    <2>3. LockInv'
        BY <2>1, <2>2, <1>li, LockKept DEF Holding
    <2> QED
        BY <1>6, <2>2, <2>3, <1>same, <1>keep DEF NoNewEntering, Entering
<1>7. ASSUME NEW j \in Joins, JoinPuts(j), guests' # guests
      PROVE  SeatInv'
    <2>r. PICK r \in Rooms, id \in GuestIds : r = join[j].room /\ id = join[j].id
        BY <1>join DEF JoinReq
    <2>1. /\ UNCHANGED lock /\ join[j].pc = "put"
          /\ join' = [join EXCEPT ![j].pc = "tell"]
          /\ guests' = [guests EXCEPT ![id] = [st |-> "active", room |-> r,
                              name |-> join[j].name, nick |-> join[j].nick]]
        BY <1>7, <2>r DEF JoinPuts
    <2>2. /\ \A k \in Joins : k # j => join'[k] = join[k]
          /\ join'[j].room = r /\ join'[j].pc = "tell"
        BY <2>1, <2>r, <1>join DEF JoinReq
    <2>4. LockInv'
        BY <2>1, <2>2, <2>r, <1>li, LockKept DEF Holding
    <2>5. /\ guests'[id].st = "active" /\ guests'[id].room = r
          /\ guests'[id].name = join[j].name /\ guests'[id].nick = join[j].nick
          /\ \A g \in GuestIds : g # id => guests'[g] = guests[g]
        BY <2>1, <1>guests
    <2>6. \A k \in Joins : join'[k].pc \in Entering =>
             k # j /\ join[k].pc \in Entering /\ join[k].room # r /\ join'[k] = join[k]
        BY <2>1, <2>2, <2>r, <1>li DEF LockInv, Entering, Holding
    <2>7. /\ Active(r)' \subseteq Active(r) \cup {id}
          /\ \A x \in Rooms : x # r =>
                Active(x)' \subseteq Active(x) /\ InRoom(x)' \subseteq InRoom(x) \ {id}
        BY <2>5 DEF Active, InRoom
    <2>8. \A x \in Rooms : /\ Active(x) \in SUBSET GuestIds /\ Active(x)' \in SUBSET GuestIds
                           /\ Cardinality(Active(x)) \in Nat /\ Cardinality(Active(x)') \in Nat
        <3>1. \A x \in Rooms : Active(x) \in SUBSET GuestIds /\ Active(x)' \in SUBSET GuestIds
            BY DEF Active, InRoom
        <3> QED
            BY <3>1, GuestCount
    <2>9. \A x \in Rooms : x # r => Cardinality(Active(x)') <= Cardinality(Active(x))
        BY <2>7, <2>8, GuestCount
    <2>10. Cardinality(Active(r)') <= Cardinality(Active(r)) + 1
        BY <2>7, <2>8, GuestCount
    <2>11. Cardinality(Active(r)) < MaxGuests
        BY <2>1, <2>r DEF SeatInv, RoomForOneMore, Entering
    <2>12. AtMostMaxGuests'
        BY <2>8, <2>9, <2>10, <2>11, GuestAssumption DEF SeatInv, AtMostMaxGuests
    <2>13. RoomForOneMore'
        <3> SUFFICES ASSUME NEW k \in Joins, join'[k].pc \in Entering,
                            NEW x \in Rooms, x = join[k].room
                     PROVE  Cardinality(Active(x)') < MaxGuests
            BY <2>6, <1>jr DEF RoomForOneMore, Active, InRoom
        <3>1. Cardinality(Active(x)) < MaxGuests /\ x # r
            BY <2>6 DEF SeatInv, RoomForOneMore
        <3> QED
            BY <3>1, <2>8, <2>9, GuestAssumption
    <2>14. NameStillFree'
        BY <2>5, <2>6, <2>7, <1>jr DEF SeatInv, NameStillFree, EqualFold, InRoom
    <2>15. \A g \in InRoom(r) : /\ guests[g].nick # join[j].nick
                                /\ ~EqualFold(guests[g].name, join[j].name)
        BY <2>1, <2>r DEF SeatInv, NameStillFree, Entering
    <2>16. OneNameOnePerson'
        BY <2>5, <2>15 DEF SeatInv, OneNameOnePerson, InRoom, EqualFold
    <2> QED
        BY <2>4, <2>12, <2>13, <2>14, <2>16 DEF SeatInv
<1>8. CASE Restart
    <2>1. \A j \in Joins : join'[j].pc = "idle"
        BY <1>8 DEF Restart, JoinIdle
    <2> QED
        BY <1>8, <2>1, <1>same, <1>keep
        DEF Restart, LockInv, Holding, NoNewEntering, Entering, store
<1>9. CASE UNCHANGED vars
    BY <1>9, <1>li, <1>same, <1>keep DEF vars, LockInv, NoNewEntering
<1>10. CASE Next /\ ~ Restart /\ ~ \E j \in Joins : JoinBegins(j) \/ JoinSteps(j)
    <2>1. UNCHANGED <<join, lock>> /\ FewerGuests
        BY <1>10, OthersAddNobody
    <2> QED
        BY <2>1, <1>li, <1>keep DEF LockInv, NoNewEntering
<1> QED
    BY <1>1, <1>2, <1>3, <1>4, <1>5, <1>6, <1>7, <1>8, <1>9, <1>10
    DEF JoinBegins, JoinSteps

LEMMA SeatInit == TypeOK /\ Init => SeatInv
<1> SUFFICES ASSUME TypeOK, Init PROVE SeatInv
    OBVIOUS
<1>1. \A j \in Joins : join[j].pc = "idle"
    BY DEF Init, JoinIdle
<1>2. \A g \in GuestIds : guests[g].st = "none"
    BY DEF Init, NoGuest
<1>3. \A r \in Rooms : Active(r) = {}
    BY <1>2 DEF Active, InRoom
<1>4. AtMostMaxGuests
    BY <1>3, FS_EmptySet, GuestAssumption DEF AtMostMaxGuests
<1> QED
    BY <1>1, <1>2, <1>4
    DEF SeatInv, LockInv, RoomForOneMore, NameStillFree, OneNameOnePerson, Holding, Entering

\* What the check under the lock found holds until the guest is written.
THEOREM SeatsKept == Spec => []SeatInv
    BY InitTypeOK, SeatInit, TypeCorrect, SeatNext, PTL DEF Spec

\* joinGuest's cap: never more than maxGuests people from outside in a room.
THEOREM CapHolds == Spec => []AtMostMaxGuests
<1>1. SeatInv => AtMostMaxGuests
    BY DEF SeatInv
<1> QED
    BY <1>1, SeatsKept, PTL

\* joinGuest's "one name, one person", with guestNick's choice of a nick.
THEOREM NamesHold == Spec => []OneNameOnePerson
<1>1. SeatInv => OneNameOnePerson
    BY DEF SeatInv
<1> QED
    BY <1>1, SeatsKept, PTL
=============================================================================
