------------------------- MODULE GuestMembersProofs -------------------------
(***************************************************************************)
(* What ejabberd knows of the guests of GuestRooms, for any number of      *)
(* rooms, guests and requests.  joinGuest writes the guest after three     *)
(* calls to ejabberd and dropGuest marks it before one: that a guest in    *)
(* the store is a member of the room rests on accounts being drawn once    *)
(* (AccountInv), on rooms being made once (RoomInv), and on what a join    *)
(* has done so far (EnteringInv).  That roomGone spares the living rests   *)
(* on a destroyed room staying destroyed (SweepInv).                       *)
(***************************************************************************)
EXTENDS GuestSeatsProofs

-----------------------------------------------------------------------------
(* Rooms.                                                                  *)

\* A room is made once and destroyed once.
RoomsGoOn ==
    \A r \in Rooms : /\ muc[r] # "none" => muc'[r] # "none"
                     /\ muc[r] = "destroyed" => muc'[r] = "destroyed"

\* Only these four calls make or destroy a room.
LEMMA RoomsMadeOnce == TypeOK /\ [Next]_vars => RoomsGoOn
<1> SUFFICES ASSUME TypeOK, [Next]_vars PROVE RoomsGoOn
    OBVIOUS
<1>muc. muc \in [Rooms -> {"none", "alive", "destroyed"}]
    BY DEF TypeOK
<1>same. UNCHANGED muc => RoomsGoOn
    BY DEF RoomsGoOn
<1>1. ASSUME NEW j \in Joins, JoinBegins(j) \/ JoinSteps(j)
      PROVE  UNCHANGED muc
    <2>1. CASE JoinBegins(j) \/ JoinLocks(j) \/ JoinRefused(j)
        BY <2>1 DEF JoinBegins, JoinOpens, JoinLocks, JoinRefused, ejabberd
    <2>2. CASE \E g \in GuestIds : JoinAdmitted(j, g)
        BY <2>2 DEF JoinAdmitted, ejabberd
    <2>3. CASE JoinAffiliates(j) \/ JoinSubscribes(j) \/ JoinEnablesPush(j)
        BY <2>3 DEF JoinAffiliates, JoinSubscribes, JoinEnablesPush
    <2>4. CASE JoinPuts(j) \/ JoinUndoes(j) \/ JoinTells(j)
        BY <2>4 DEF JoinPuts, JoinUndoes, JoinTells, ejabberd
    <2> QED
        BY <1>1, <2>1, <2>2, <2>3, <2>4 DEF JoinSteps
<1>2. ASSUME NEW c \in Calls, CallBegins(c)
      PROVE  RoomsGoOn
    <2>1. ASSUME NEW u \in Users, NEW r \in Rooms, CreateRoom(c, u, r) \/ CreateUnanswered(c, u, r)
          PROVE  RoomsGoOn
        BY <2>1, <1>muc DEF CreateRoom, CreateUnanswered, RoomsGoOn
    <2>2. ASSUME NEW u \in Users, NEW r \in Rooms, ShareReads(c, u, r)
          PROVE  UNCHANGED muc
        BY <2>2 DEF ShareReads, ejabberd
    <2>3. ASSUME NEW u \in Users, NEW r \in Rooms, NEW kind \in RoomKinds, RoomReads(c, u, r, kind)
          PROVE  UNCHANGED muc
        BY <2>3 DEF RoomReads, ejabberd
    <2>4. ASSUME NEW g \in GuestIds, LeaveReads(c, g)
          PROVE  UNCHANGED muc
        BY <2>4 DEF LeaveReads, ejabberd
    <2> QED
        BY <1>2, <1>same, <2>1, <2>2, <2>3, <2>4 DEF CallBegins
<1>3. ASSUME NEW c \in Calls, CallSteps(c)
      PROVE  RoomsGoOn
    <2>1. CASE CreatePuts(c)
        BY <2>1, <1>muc DEF CreatePuts, RoomsGoOn
    <2>2. CASE LinkAnswered(c) \/ ShareChecks(c) \/ ShareLinks(c)
        BY <2>2, <1>same DEF LinkAnswered, ShareChecks, ShareLinks, ejabberd
    <2>3. CASE ShareOwns(c) \/ SharePuts(c) \/ RoomChecks(c) \/ RoomOwns(c)
        BY <2>3, <1>same DEF ShareOwns, SharePuts, RoomChecks, RoomOwns, ejabberd
    <2>4. CASE GetRoom(c) \/ NewLink(c) \/ RevokeLink(c) \/ DropRemoves(c) \/ DropKicks(c)
        BY <2>4, <1>same DEF GetRoom, NewLink, RevokeLink, DropRemoves, DropKicks, ejabberd
    <2>5. CASE \E g \in GuestIds : RemoveFinds(c, g)
        BY <2>5, <1>same DEF RemoveFinds, ejabberd
    <2> QED
        BY <1>3, <2>1, <2>2, <2>3, <2>4, <2>5 DEF CallSteps
<1>4. CASE SweepBegins
    BY <1>4, <1>same DEF SweepBegins, RoundStarts, PollFails, ejabberd
<1>5. ASSUME NEW s \in Sweeps, SweepSteps(s)
      PROVE  RoomsGoOn
    BY <1>5, <1>same DEF SweepSteps, SweepLooks, SweepDropsGuests, SweepDropsRoom, ejabberd
<1>6. CASE Environment
    BY <1>6, <1>same, <1>muc
    DEF Environment, DestroyRoom, AddOperator, PassOwnership, LinkExpires, ejabberd, RoomsGoOn
<1>7. CASE Restart \/ UNCHANGED vars
    BY <1>7, <1>same DEF Restart, vars, ejabberd
<1> QED
    BY <1>1, <1>same, <1>2, <1>3, <1>4, <1>5, <1>6, <1>7 DEF Next

\* The parts of RoomInv, as they hold after a step in which rooms go on.
LEMMA RoomsKept ==
    ASSUME TypeOK, TypeOK', RoomInv, RoomsGoOn,
           \A r \in Rooms : ext'[r].st # "none" => ext[r].st # "none" \/ muc[r] # "none",
           \A g \in GuestIds : guests'[g].st # "none" =>
              \/ guests[g].st # "none" /\ guests'[g].room = guests[g].room
              \/ muc[guests'[g].room] # "none",
           \A j \in Joins : join'[j].pc # "idle" =>
              \/ join[j].pc # "idle" /\ join'[j].room = join[j].room
              \/ muc[join'[j].room] # "none",
           \A c \in Calls : call'[c].pc \in {"put", "sharePut"} =>
              call'[c] = call[c] \/ muc'[call'[c].room] # "none",
           \A s \in Sweeps : \A r \in sweep'[s].todo : r \in sweep[s].todo \/ muc[r] # "none"
    PROVE  RoomInv'
<1>1. \A g \in GuestIds : guests[g].room \in Rooms /\ guests'[g].room \in Rooms
    BY DEF TypeOK, GuestRow
<1>2. \A j \in Joins : join[j].room \in Rooms /\ join'[j].room \in Rooms
    BY DEF TypeOK, JoinReq
<1>3. \A c \in Calls : call[c].room \in Rooms
    BY DEF TypeOK, CallReq
<1>4. \A s \in Sweeps : sweep'[s].todo \subseteq Rooms
    BY DEF TypeOK, SweepReq
<1>5. \A r \in Rooms : ext'[r].st # "none" => muc'[r] # "none"
    BY DEF RoomInv, RoomsGoOn
<1>6. \A g \in GuestIds : guests'[g].st # "none" => muc'[guests'[g].room] # "none"
    BY <1>1 DEF RoomInv, RoomsGoOn
<1>7. \A j \in Joins : join'[j].pc # "idle" => muc'[join'[j].room] # "none"
    BY <1>2 DEF RoomInv, RoomsGoOn
<1>8. \A c \in Calls : call'[c].pc \in {"put", "sharePut"} => muc'[call'[c].room] # "none"
    BY <1>3 DEF RoomInv, RoomsGoOn
<1>9. \A s \in Sweeps : \A r \in sweep'[s].todo : muc'[r] # "none"
    BY <1>4 DEF RoomInv, RoomsGoOn
<1> QED
    BY <1>5, <1>6, <1>7, <1>8, <1>9 DEF RoomInv

LEMMA RoomNext == TypeOK /\ TypeOK' /\ RoomInv /\ [Next]_vars => RoomInv'
<1> SUFFICES ASSUME TypeOK, TypeOK', RoomInv, [Next]_vars PROVE RoomInv'
    OBVIOUS
<1>on. RoomsGoOn
    BY RoomsMadeOnce
<1>ext. ext \in [Rooms -> ExtRow]
    BY DEF TypeOK
<1>guests. guests \in [GuestIds -> GuestRow]
    BY DEF TypeOK
<1>join. join \in [Joins -> JoinReq]
    BY DEF TypeOK
<1>call. call \in [Calls -> CallReq]
    BY DEF TypeOK
<1>sweep. sweep \in [Sweeps -> SweepReq]
    BY DEF TypeOK
<1>ct. \A c \in Calls : call[c].room \in Rooms
    BY <1>call DEF CallReq
<1>st. Reconciler \in Sweeps /\ Polls \subseteq Sweeps
    BY DEF Sweeps
<1>1. ASSUME NEW j \in Joins, NEW l \in 1..MaxLinks, NEW n \in Typed, JoinOpens(j, l, n)
      PROVE  RoomInv'
    <2>1. PICK r \in Rooms : ext[r].st # "none" /\ join' = [join EXCEPT ![j] =
                [@ EXCEPT !.pc = "lock", !.room = r, !.name = n]]
        BY <1>1 DEF JoinOpens
    <2>2. join'[j].room = r /\ muc[r] # "none" /\ \A k \in Joins : k # j => join'[k] = join[k]
        BY <2>1, <1>join DEF JoinReq, RoomInv
    <2> QED
        BY <1>1, <2>2, <1>on, RoomsKept DEF JoinOpens, store
<1>2. ASSUME NEW j \in Joins, JoinLocks(j) \/ JoinRefused(j) \/ JoinUndoes(j) \/ JoinTells(j)
      PROVE  RoomInv'
    <2>1. UNCHANGED <<ext, guests, call, sweep>>
        BY <1>2 DEF JoinLocks, JoinRefused, JoinUndoes, JoinTells, store
    <2>2. \A k \in Joins : join'[k].pc # "idle" =>
             join[k].pc # "idle" /\ join'[k].room = join[k].room
        BY <1>2, <1>join
        DEF JoinLocks, JoinRefused, JoinUndoes, JoinTells, JoinReturns, JoinIdle, JoinReq
    <2> QED
        BY <2>1, <2>2, <1>on, RoomsKept
<1>3. ASSUME NEW j \in Joins, NEW g \in GuestIds, JoinAdmitted(j, g)
      PROVE  RoomInv'
    <2>1. UNCHANGED <<ext, guests, call, sweep>>
        BY <1>3 DEF JoinAdmitted, store
    <2>2. \A k \in Joins : join'[k].pc # "idle" =>
             join[k].pc # "idle" /\ join'[k].room = join[k].room
        BY <1>3, <1>join DEF JoinAdmitted, JoinReq
    <2> QED
        BY <2>1, <2>2, <1>on, RoomsKept
<1>4. ASSUME NEW j \in Joins, JoinAffiliates(j) \/ JoinSubscribes(j) \/ JoinEnablesPush(j)
      PROVE  RoomInv'
    <2>1. UNCHANGED <<ext, guests, call, sweep>>
        BY <1>4 DEF JoinAffiliates, JoinSubscribes, JoinEnablesPush, store
    <2>2. \A k \in Joins : join'[k].pc # "idle" =>
             join[k].pc # "idle" /\ join'[k].room = join[k].room
        BY <1>4, <1>join DEF JoinAffiliates, JoinSubscribes, JoinEnablesPush, JoinReq
    <2> QED
        BY <2>1, <2>2, <1>on, RoomsKept
<1>5. ASSUME NEW j \in Joins, JoinPuts(j)
      PROVE  RoomInv'
    <2>1. UNCHANGED <<ext, call, sweep>>
        BY <1>5 DEF JoinPuts
    <2>2. \A k \in Joins : join'[k].pc # "idle" =>
             join[k].pc # "idle" /\ join'[k].room = join[k].room
        BY <1>5, <1>join DEF JoinPuts, JoinReq
    <2>3. muc[join[j].room] # "none"
        BY <1>5 DEF JoinPuts, RoomInv
    <2>4. \A g \in GuestIds : guests'[g] = guests[g] \/ guests'[g].room = join[j].room
        BY <1>5, <1>guests DEF JoinPuts
    <2> QED
        BY <2>1, <2>2, <2>3, <2>4, <1>on, RoomsKept
<1>6. ASSUME NEW c \in Calls, NEW u \in Users, NEW r \in Rooms,
             CreateRoom(c, u, r) \/ CreateUnanswered(c, u, r)
      PROVE  RoomInv'
    <2>1. UNCHANGED <<ext, guests, join, sweep>>
        BY <1>6 DEF CreateRoom, CreateUnanswered, store
    <2>2. \A d \in Calls : call'[d] = call[d] \/ call'[d].room = r
        BY <1>6, <1>call, BlankTypes DEF CreateRoom, CreateUnanswered, Begin, CallReq
    <2>3. muc'[r] # "none"
        BY <1>6 DEF CreateRoom, CreateUnanswered, TypeOK
    <2> QED
        BY <2>1, <2>2, <2>3, <1>on, RoomsKept
<1>7. ASSUME NEW c \in Calls, NEW u \in Users, NEW r \in Rooms, ShareReads(c, u, r)
      PROVE  RoomInv'
    <2>1. UNCHANGED <<ext, guests, join, sweep>>
        BY <1>7 DEF ShareReads, store
    <2>2. \A d \in Calls : call'[d] = call[d] \/ call'[d].pc \notin {"put", "sharePut"}
        BY <1>7, <1>call, BlankTypes DEF ShareReads, Begin, CallReq
    <2> QED
        BY <2>1, <2>2, <1>on, RoomsKept
<1>8. ASSUME NEW c \in Calls, NEW u \in Users, NEW r \in Rooms, NEW kind \in RoomKinds,
             RoomReads(c, u, r, kind)
      PROVE  RoomInv'
    <2>1. UNCHANGED <<ext, guests, join, sweep>>
        BY <1>8 DEF RoomReads, store
    <2>2. \A d \in Calls : call'[d] = call[d] \/ call'[d].pc \notin {"put", "sharePut"}
        BY <1>8, <1>call, BlankTypes DEF RoomReads, Begin, CallReq
    <2> QED
        BY <2>1, <2>2, <1>on, RoomsKept
<1>9. ASSUME NEW c \in Calls, NEW g \in GuestIds, LeaveReads(c, g) \/ RemoveFinds(c, g)
      PROVE  RoomInv'
    <2>1. UNCHANGED <<ext, guests, join, sweep>>
        BY <1>9 DEF LeaveReads, RemoveFinds, store
    <2>2. LeaveReads(c, g) =>
             \A d \in Calls : call'[d] = call[d] \/ call'[d].pc \notin {"put", "sharePut"}
        BY <1>call, BlankTypes DEF LeaveReads, CallReq
    <2>3. RemoveFinds(c, g) =>
             \A d \in Calls : call'[d] = call[d] \/ call'[d].pc \notin {"put", "sharePut"}
        BY <1>call DEF RemoveFinds, CallReturns, CallIdle, CallReq
    <2> QED
        BY <1>9, <2>1, <2>2, <2>3, <1>on, RoomsKept
<1>10. ASSUME NEW c \in Calls, CreatePuts(c) \/ SharePuts(c)
      PROVE  RoomInv'
    <2>1. UNCHANGED <<guests, join, sweep>>
        BY <1>10 DEF CreatePuts, SharePuts
    <2>2. \A d \in Calls : call'[d] = call[d] \/ call'[d].pc \notin {"put", "sharePut"}
        BY <1>10, <1>call DEF CreatePuts, SharePuts, CallReturns, CallGives, CallIdle, CallReq
    <2>3. muc[call[c].room] # "none"
        BY <1>10 DEF CreatePuts, SharePuts, RoomInv
    <2>4. \A r \in Rooms : ext'[r] = ext[r] \/ r = call[c].room
        BY <1>10, <1>ext DEF CreatePuts, SharePuts
    <2> QED
        BY <2>1, <2>2, <2>3, <2>4, <1>on, RoomsKept
<1>11. ASSUME NEW c \in Calls, ShareChecks(c)
      PROVE  RoomInv'
    <2>1. UNCHANGED <<ext, guests, join, sweep, muc>>
        BY <1>11 DEF ShareChecks, store, ejabberd
    <2>2. CASE CallReturns(c)
        <3>1. \A d \in Calls : call'[d] = call[d] \/ call'[d].pc \notin {"put", "sharePut"}
            BY <2>2, <1>call DEF CallReturns, CallIdle
        <3> QED
            BY <2>1, <3>1, <1>on, RoomsKept
    <2>3. CASE ~ CallReturns(c)
        <3>1. muc[call[c].room] = "alive"
            BY <1>11, <2>3 DEF ShareChecks
        <3>2. \A d \in Calls : call'[d] = call[d] \/ call'[d].room = call[c].room
            BY <1>11, <2>3, <1>call DEF ShareChecks, CallReq
        <3> QED
            BY <2>1, <3>1, <3>2, <1>on, RoomsKept
    <2> QED
        BY <2>2, <2>3
<1>12. ASSUME NEW c \in Calls, ShareLinks(c) \/ ShareOwns(c) \/ NewLink(c)
      PROVE  RoomInv'
    <2>1. UNCHANGED <<guests, join, sweep>>
        BY <1>12 DEF ShareLinks, ShareOwns, NewLink
    <2>2. \A d \in Calls : call'[d] = call[d] \/ call'[d].pc \notin {"put", "sharePut"}
        BY <1>12, <1>call DEF ShareLinks, ShareOwns, NewLink, CallGives, CallReturns, CallIdle, CallReq
    <2>3. \A r \in Rooms : ext'[r].st # "none" => ext[r].st # "none"
        BY <1>12, <1>ext DEF ShareLinks, ShareOwns, NewLink, Linked, Owned
    <2> QED
        BY <2>1, <2>2, <2>3, <1>on, RoomsKept
<1>13. ASSUME NEW c \in Calls, RoomOwns(c) \/ RevokeLink(c)
      PROVE  RoomInv'
    <2>1. UNCHANGED <<guests, join, sweep>>
        BY <1>13 DEF RoomOwns, RevokeLink
    <2>2. \A d \in Calls : call'[d] = call[d] \/ call'[d].pc \notin {"put", "sharePut"}
        BY <1>13, <1>call DEF RoomOwns, RevokeLink, CallReturns, CallIdle, CallReq
    <2>3. \A r \in Rooms : ext'[r].st # "none" => ext[r].st # "none"
        BY <1>13, <1>ext DEF RoomOwns, RevokeLink, Owned, Revoked
    <2> QED
        BY <2>1, <2>2, <2>3, <1>on, RoomsKept
<1>14. ASSUME NEW c \in Calls, LinkAnswered(c) \/ RoomChecks(c) \/ GetRoom(c) \/ DropKicks(c)
      PROVE  RoomInv'
    <2>1. UNCHANGED <<ext, guests, join, sweep>>
        BY <1>14 DEF LinkAnswered, RoomChecks, GetRoom, DropKicks, store
    <2>2. \A d \in Calls : call'[d] = call[d] \/ call'[d].pc \notin {"put", "sharePut"}
        BY <1>14, <1>call DEF LinkAnswered, RoomChecks, GetRoom, DropKicks, CallReturns, CallIdle, CallReq
    <2> QED
        BY <2>1, <2>2, <1>on, RoomsKept
<1>15. ASSUME NEW c \in Calls, DropRemoves(c)
      PROVE  RoomInv'
    <2>1. UNCHANGED <<ext, join, sweep>>
        BY <1>15 DEF DropRemoves
    <2>2. \A d \in Calls : call'[d] = call[d] \/ call'[d].pc \notin {"put", "sharePut"}
        BY <1>15, <1>call DEF DropRemoves, CallReturns, CallIdle, CallReq
    <2>3. \A g \in GuestIds : guests'[g].st # "none" =>
             guests[g].st # "none" /\ guests'[g].room = guests[g].room
        BY <1>15, <1>guests DEF DropRemoves, GuestRow
    <2> QED
        BY <2>1, <2>2, <2>3, <1>on, RoomsKept
<1>16. CASE RoundStarts
    <2>1. UNCHANGED <<ext, guests, join, call>>
        BY <1>16 DEF RoundStarts, store
    <2>2. \A s \in Sweeps : sweep'[s] = sweep[s] \/ sweep'[s].todo = RoundRooms
        BY <1>16, <1>sweep, <1>st DEF RoundStarts, SweepReq
    <2>3. \A r \in RoundRooms : muc[r] # "none"
        BY DEF RoundRooms, RoomInv
    <2> QED
        BY <2>1, <2>2, <2>3, <1>on, RoomsKept
<1>17. ASSUME NEW s \in Polls, NEW g \in GuestIds, PollFails(s, g)
      PROVE  RoomInv'
    <2>1. UNCHANGED <<ext, guests, join, call>>
        BY <1>17 DEF PollFails, store
    <2>2. \A t \in Sweeps : sweep'[t] = sweep[t] \/ sweep'[t].todo = {guests[g].room}
        BY <1>17, <1>sweep, <1>st DEF PollFails, SweepReq
    <2>3. muc[guests[g].room] # "none"
        BY <1>17 DEF PollFails, RoomInv
    <2> QED
        BY <2>1, <2>2, <2>3, <1>on, RoomsKept
<1>18. ASSUME NEW s \in Sweeps, SweepSteps(s)
      PROVE  RoomInv'
    <2>1. ASSUME NEW todo \in SUBSET sweep[s].todo, Onward(s, todo)
          PROVE  \A t \in Sweeps : sweep'[t].todo \subseteq sweep[t].todo
        BY <2>1, <1>sweep DEF Onward, SweepIdle
    <2>2. ASSUME NEW r \in Rooms, SweepLooks(s, r)
          PROVE  RoomInv'
        <3>1. UNCHANGED <<ext, guests, join, call>>
            BY <2>2 DEF SweepLooks, store
        <3>2. CASE Onward(s, sweep[s].todo \ {r})
            BY <3>1, <3>2, <2>1, <1>on, RoomsKept
        <3>3. CASE ~ Onward(s, sweep[s].todo \ {r})
            <4>1. \A t \in Sweeps : sweep'[t].todo \subseteq sweep[t].todo
                BY <2>2, <3>3, <1>sweep DEF SweepLooks, SweepReq
            <4> QED
                BY <3>1, <4>1, <1>on, RoomsKept
        <3> QED
            BY <3>2, <3>3
    <2>3. CASE SweepDropsGuests(s)
        <3>1. UNCHANGED <<ext, join, call>>
            BY <2>3 DEF SweepDropsGuests
        <3>2. \A g \in GuestIds : guests'[g] = guests[g] \/ guests'[g].st = "none"
            BY <2>3, <1>guests DEF SweepDropsGuests, NoGuest
        <3>3. CASE Onward(s, sweep[s].todo)
            BY <3>1, <3>2, <3>3, <2>1, <1>on, RoomsKept
        <3>4. CASE ~ Onward(s, sweep[s].todo)
            <4>1. \A t \in Sweeps : sweep'[t].todo = sweep[t].todo
                BY <2>3, <3>4, <1>sweep DEF SweepDropsGuests, SweepReq
            <4> QED
                BY <3>1, <3>2, <4>1, <1>on, RoomsKept
        <3> QED
            BY <3>3, <3>4
    <2>4. CASE SweepDropsRoom(s)
        <3>1. UNCHANGED <<guests, join, call>> /\ Onward(s, sweep[s].todo)
            BY <2>4 DEF SweepDropsRoom
        <3>2. \A r \in Rooms : ext'[r] = ext[r] \/ ext'[r].st = "none"
            BY <2>4, <1>ext DEF SweepDropsRoom, NoExt
        <3> QED
            BY <3>1, <3>2, <2>1, <1>on, RoomsKept
    <2> QED
        BY <1>18, <2>2, <2>3, <2>4 DEF SweepSteps
<1>19. CASE Environment
    <2>1. UNCHANGED <<guests, join, call, sweep>>
        BY <1>19 DEF Environment, DestroyRoom, AddOperator, PassOwnership, LinkExpires, store
    <2>2. \A r \in Rooms : ext'[r].st # "none" => ext[r].st # "none"
        BY <1>19, <1>ext
        DEF Environment, DestroyRoom, AddOperator, PassOwnership, LinkExpires, store, ExtRow
    <2> QED
        BY <2>1, <2>2, <1>on, RoomsKept
<1>20. CASE Restart
    <2>1. UNCHANGED <<ext, guests>>
        BY <1>20 DEF Restart, store
    <2>2. /\ \A j \in Joins : join'[j].pc = "idle"
          /\ \A c \in Calls : call'[c].pc = "idle"
          /\ \A s \in Sweeps : sweep'[s].todo = {}
        BY <1>20 DEF Restart, JoinIdle, CallIdle, SweepIdle
    <2> QED
        BY <2>1, <2>2, <1>on, RoomsKept
<1>21. CASE UNCHANGED vars
    BY <1>21 DEF vars, RoomInv
<1> QED
    BY <1>1, <1>2, <1>3, <1>4, <1>5, <1>6, <1>7, <1>8, <1>9, <1>10, <1>11, <1>12, <1>13,
       <1>14, <1>15, <1>16, <1>17, <1>18, <1>19, <1>20, <1>21
    DEF Next, JoinBegins, JoinSteps, CallBegins, CallSteps, SweepBegins

-----------------------------------------------------------------------------
(* Members.                                                                *)

MemberInv ==
    /\ AccountInv
    /\ EnteringInv
    /\ SweepInv
    /\ ActiveGuestIsMember

\* A join that has drawn its account and not yet written or given up.
Making == Entering \cup {"undo"}

\* What EnteringInv says of one join.
KnownInside(j) ==
    muc[join[j].room] = "alive" =>
       /\ join[j].pc \in {"sub", "push", "put"} => aff[join[j].room][join[j].id] = "member"
       /\ join[j].pc \in {"push", "put"} => <<join[j].room, join[j].id>> \in subs
       /\ join[j].pc = "put" => join[j].id \in push

\* ejabberd forgets nobody of a room that lives on, those in X apart.
EjabberdKeeps(X) ==
    /\ push \subseteq push'
    /\ \A r \in Rooms : muc[r] # "none" /\ muc'[r] = "alive" =>
          \A x \in GuestIds \ X :
             /\ aff[r][x] = "member" => aff'[r][x] = "member"
             /\ <<r, x>> \in subs => <<r, x>> \in subs'

\* Requests that drop a guest were at it before, or found a guest of the store;
\* they get to the affiliation once the guest is marked.
DropsKept ==
    \A c \in Calls :
       /\ call'[c].pc \in {"drop", "kick"} =>
             \/ call[c].pc \in {"drop", "kick"} /\ call'[c].guest = call[c].guest
             \/ guests[call'[c].guest].st # "none"
       /\ call'[c].pc = "kick" =>
             \/ call[c].pc = "kick" /\ call'[c].guest = call[c].guest
             \/ guests'[call'[c].guest].st # "active"

\* Sweeps go on with their room, or have found one destroyed.
SweepsKept ==
    \A s \in Sweeps : sweep'[s].pc \in {"guests", "room"} =>
       \/ sweep[s].pc \in {"guests", "room"} /\ sweep'[s].room = sweep[s].room
       \/ muc[sweep'[s].room] = "destroyed"

\* The joins go on with their accounts, and what ejabberd must know of them is
\* either as it was or shown on the spot.
JoinsKept(X) ==
    \A j \in Joins : join'[j].pc \in Making =>
       /\ join[j].pc \in Making /\ join'[j].id = join[j].id
       /\ \/ join'[j] = join[j] /\ join[j].id \notin X
          \/ KnownInside(j)'

LEMMA AccountsStay ==
    ASSUME TypeOK, TypeOK', AccountInv, FewerGuests, DropsKept, used \subseteq used',
           NEW X, JoinsKept(X)
    PROVE  AccountInv'
<1>1. \A g \in GuestIds : guests'[g].st # "none" => guests[g].st # "none"
    BY DEF FewerGuests
<1>2. \A g \in GuestIds : guests'[g].st = "active" => guests[g].st = "active"
    BY DEF FewerGuests
<1>3. \A c \in Calls : call[c].guest \in GuestIds /\ call'[c].guest \in GuestIds
    BY DEF TypeOK, CallReq
<1>4. \A j \in Joins : join[j].id \in GuestIds /\ join'[j].id \in GuestIds
    BY DEF TypeOK, JoinReq
<1>5. \A c \in Calls : call'[c].pc \in {"drop", "kick"} =>
         /\ call'[c].guest \in used
         /\ \A j \in Joins : join[j].pc \in Making => call'[c].guest # join[j].id
    BY <1>3 DEF AccountInv, DropsKept, Making
<1>6. \A c \in Calls : call'[c].pc = "kick" => guests'[call'[c].guest].st # "active"
    BY <1>2, <1>3 DEF AccountInv, DropsKept
<1>7. \A j \in Joins : join'[j].pc \in Making =>
         /\ join'[j].id \in used'
         /\ guests'[join'[j].id].st = "none"
         /\ \A k \in Joins : k # j /\ join'[k].pc \in Making => join'[k].id # join'[j].id
         /\ \A c \in Calls : call'[c].pc \in {"drop", "kick"} => call'[c].guest # join'[j].id
    BY <1>1, <1>4, <1>5 DEF AccountInv, JoinsKept, Making
<1> QED
    BY <1>1, <1>5, <1>6, <1>7 DEF AccountInv, Making

LEMMA MembersStay ==
    ASSUME TypeOK, TypeOK', RoomInv, EnteringInv, ActiveGuestIsMember, RoomsGoOn, FewerGuests,
           NEW X, EjabberdKeeps(X), JoinsKept(X), \A x \in X : guests[x].st # "active"
    PROVE  EnteringInv' /\ ActiveGuestIsMember'
<1>1. \A r \in Rooms : muc[r] # "none" /\ muc'[r] = "alive" => muc[r] = "alive"
    BY DEF TypeOK, RoomsGoOn
<1>2. \A j \in Joins : join[j].room \in Rooms /\ join[j].id \in GuestIds
    BY DEF TypeOK, JoinReq
<1>3. \A g \in GuestIds : guests[g].room \in Rooms
    BY DEF TypeOK, GuestRow
<1>4. ASSUME NEW j \in Joins
      PROVE  KnownInside(j)'
    <2>1. CASE join'[j].pc \notin Making
        BY <2>1 DEF KnownInside, Making, Entering
    <2>2. CASE join'[j].pc \in Making /\ join'[j] = join[j] /\ join[j].id \notin X
        <3>1. muc[join[j].room] # "none"
            BY <2>2 DEF RoomInv, Making, Entering
        <3>2. KnownInside(j)
            BY DEF EnteringInv, KnownInside
        <3> QED
            BY <2>2, <3>1, <3>2, <1>1, <1>2 DEF KnownInside, EjabberdKeeps
    <2> QED
        BY <2>1, <2>2 DEF JoinsKept
<1>5. EnteringInv'
    BY <1>4 DEF EnteringInv, KnownInside
<1>6. ASSUME NEW g \in GuestIds, guests'[g].st = "active", muc'[guests'[g].room] = "alive"
      PROVE  /\ aff'[guests'[g].room][g] = "member"
             /\ <<guests'[g].room, g>> \in subs'
             /\ g \in push'
    <2>1. guests[g].st = "active" /\ guests'[g].room = guests[g].room /\ g \notin X
        BY <1>6 DEF FewerGuests
    <2>2. muc[guests[g].room] # "none"
        BY <2>1 DEF RoomInv
    <2> QED
        BY <1>6, <2>1, <2>2, <1>1, <1>3 DEF ActiveGuestIsMember, EjabberdKeeps
<1> QED
    BY <1>5, <1>6 DEF ActiveGuestIsMember

LEMMA SweepsStay ==
    ASSUME TypeOK, TypeOK', SweepInv, RoomsGoOn, SweepsKept
    PROVE  SweepInv'
<1>1. \A s \in Sweeps : sweep'[s].room \in Rooms
    BY DEF TypeOK, SweepReq
<1> QED
    BY <1>1 DEF SweepInv, SweepsKept, RoomsGoOn

\* The frame of a step that makes no guest.
LEMMA MemberInvStays ==
    ASSUME TypeOK, TypeOK', RoomInv, MemberInv, RoomsGoOn, FewerGuests, DropsKept, SweepsKept,
           used \subseteq used',
           NEW X, EjabberdKeeps(X), JoinsKept(X), \A x \in X : guests[x].st # "active"
    PROVE  MemberInv'
BY AccountsStay, MembersStay, SweepsStay DEF MemberInv

\* A join that moves on.
LEMMA MemberJoin ==
    ASSUME TypeOK, TypeOK', RoomInv, MemberInv, RoomsGoOn,
           NEW j \in Joins, JoinBegins(j) \/ JoinSteps(j)
    PROVE  MemberInv'
<1>join. join \in [Joins -> JoinReq]
    BY DEF TypeOK
<1>guests. guests \in [GuestIds -> GuestRow]
    BY DEF TypeOK
<1>aff. aff \in [Rooms -> [Users \cup GuestIds -> Affiliation]]
    BY DEF TypeOK
<1>calls. UNCHANGED call /\ UNCHANGED sweep
    <2>1. CASE JoinBegins(j) \/ JoinLocks(j) \/ JoinRefused(j)
        BY <2>1 DEF JoinBegins, JoinOpens, JoinLocks, JoinRefused
    <2>2. CASE \E g \in GuestIds : JoinAdmitted(j, g)
        BY <2>2 DEF JoinAdmitted
    <2>3. CASE JoinAffiliates(j) \/ JoinSubscribes(j) \/ JoinEnablesPush(j)
        BY <2>3 DEF JoinAffiliates, JoinSubscribes, JoinEnablesPush
    <2>4. CASE JoinPuts(j) \/ JoinUndoes(j) \/ JoinTells(j)
        BY <2>4 DEF JoinPuts, JoinUndoes, JoinTells
    <2> QED
        BY <2>1, <2>2, <2>3, <2>4 DEF JoinSteps
<1>sweeps. SweepsKept
    BY <1>calls DEF SweepsKept
<1>id. PICK r \in Rooms, id \in GuestIds : r = join[j].room /\ id = join[j].id
    BY <1>join DEF JoinReq
<1>quiet. UNCHANGED guests => FewerGuests /\ DropsKept
    BY <1>guests, <1>calls DEF FewerGuests, DropsKept, MemberInv, AccountInv
<1>same. UNCHANGED ejabberd => EjabberdKeeps({})
    BY DEF EjabberdKeeps, ejabberd
<1>1. ASSUME UNCHANGED <<guests, used>>, UNCHANGED ejabberd,
             \A k \in Joins : k # j => join'[k] = join[k],
             join'[j].pc \notin Making
      PROVE  MemberInv'
    <2>1. JoinsKept({})
        BY <1>1 DEF JoinsKept
    <2> QED
        BY <1>1, <2>1, <1>sweeps, <1>quiet, <1>same, MemberInvStays
<1>2. CASE JoinBegins(j)
    BY <1>2, <1>1, <1>join DEF JoinBegins, JoinOpens, store, Making, Entering, JoinReq
<1>3. CASE JoinLocks(j) \/ JoinRefused(j) \/ JoinTells(j)
    BY <1>3, <1>1, <1>join
    DEF JoinLocks, JoinRefused, JoinTells, JoinReturns, JoinIdle, store, Making, Entering, JoinReq
<1>4. ASSUME NEW g \in GuestIds, JoinAdmitted(j, g)
      PROVE  MemberInv'
    <2>1. /\ UNCHANGED <<guests, ejabberd>> /\ g \notin used /\ used' = used \cup {g}
          /\ join[j].pc = "check"
        BY <1>4 DEF JoinAdmitted, store
    <2>2. /\ join'[j].pc = "aff" /\ join'[j].id = g
          /\ \A k \in Joins : k # j => join'[k] = join[k]
        BY <1>4, <1>join DEF JoinAdmitted, JoinReq
    <2>3. guests[g].st = "none"
        BY <2>1 DEF MemberInv, AccountInv
    <2>4. \A k \in Joins : join[k].pc \in Making => join[k].id # g
        BY <2>1 DEF MemberInv, AccountInv, Making
    <2>5. \A c \in Calls : call[c].pc \in {"drop", "kick"} => call[c].guest # g
        BY <2>1 DEF MemberInv, AccountInv
    <2>6. \A k \in Joins : join'[k].pc \in Making =>
             /\ join'[k].id \in used'
             /\ guests'[join'[k].id].st = "none"
             /\ \A m \in Joins : m # k /\ join'[m].pc \in Making => join'[m].id # join'[k].id
             /\ \A c \in Calls : call'[c].pc \in {"drop", "kick"} => call'[c].guest # join'[k].id
        BY <2>1, <2>2, <2>3, <2>4, <2>5, <1>calls DEF MemberInv, AccountInv, Making
    <2>7. AccountInv'
        BY <2>1, <2>6, <1>calls DEF MemberInv, AccountInv, Making
    <2>8. EnteringInv'
        BY <2>1, <2>2 DEF MemberInv, EnteringInv, ejabberd
    <2>9. ActiveGuestIsMember' /\ SweepInv'
        BY <2>1, <1>calls DEF MemberInv, ActiveGuestIsMember, SweepInv, ejabberd
    <2> QED
        BY <2>7, <2>8, <2>9 DEF MemberInv
<1>5. CASE JoinAffiliates(j)
    <2>1. /\ UNCHANGED <<guests, used, push, muc>> /\ join[j].pc = "aff"
          /\ \/ UNCHANGED <<aff, subs>>
             \/ aff' = [aff EXCEPT ![r][id] = "member"] /\ UNCHANGED subs
          /\ \/ aff' = [aff EXCEPT ![r][id] = "member"] /\ join' = [join EXCEPT ![j].pc = "sub"]
             \/ join' = [join EXCEPT ![j].pc = "undo"]
        BY <1>5, <1>id DEF JoinAffiliates, MayAffiliate, SetAffiliation, store
    <2>2. EjabberdKeeps({})
        BY <2>1, <1>aff DEF EjabberdKeeps
    <2>3. KnownInside(j)'
        BY <2>1, <1>id, <1>aff, <1>join DEF KnownInside, JoinReq
    <2>4. JoinsKept({})
        BY <2>1, <2>3, <1>join DEF JoinsKept, Making, Entering, JoinReq
    <2> QED
        BY <2>1, <2>2, <2>4, <1>sweeps, <1>quiet, MemberInvStays
<1>6. CASE JoinSubscribes(j)
    <2>1. /\ UNCHANGED <<guests, used, push, muc, aff>> /\ join[j].pc = "sub"
          /\ subs \subseteq subs'
          /\ \/ <<r, id>> \in subs' /\ join' = [join EXCEPT ![j].pc = "push"]
             \/ join' = [join EXCEPT ![j].pc = "undo"]
        BY <1>6, <1>id DEF JoinSubscribes, store
    <2>2. EjabberdKeeps({})
        BY <2>1 DEF EjabberdKeeps
    <2>3. KnownInside(j)'
        BY <2>1, <1>id, <1>join DEF KnownInside, JoinReq, MemberInv, EnteringInv
    <2>4. JoinsKept({})
        BY <2>1, <2>3, <1>join DEF JoinsKept, Making, Entering, JoinReq
    <2> QED
        BY <2>1, <2>2, <2>4, <1>sweeps, <1>quiet, MemberInvStays
<1>7. CASE JoinEnablesPush(j)
    <2>1. /\ UNCHANGED <<guests, used, muc, aff, subs>> /\ join[j].pc = "push"
          /\ push \subseteq push'
          /\ \/ id \in push' /\ join' = [join EXCEPT ![j].pc = "put"]
             \/ join' = [join EXCEPT ![j].pc = "undo"]
        BY <1>7, <1>id DEF JoinEnablesPush, AfterPushFailure, store
    <2>2. EjabberdKeeps({})
        BY <2>1 DEF EjabberdKeeps
    <2>3. KnownInside(j)'
        BY <2>1, <1>id, <1>join DEF KnownInside, JoinReq, MemberInv, EnteringInv
    <2>4. JoinsKept({})
        BY <2>1, <2>3, <1>join DEF JoinsKept, Making, Entering, JoinReq
    <2> QED
        BY <2>1, <2>2, <2>4, <1>sweeps, <1>quiet, MemberInvStays
<1>8. CASE JoinPuts(j) /\ UNCHANGED guests
    <2>1. /\ UNCHANGED <<guests, used, ejabberd>> /\ join[j].pc = "put"
          /\ \E pc \in {"tell", "undo"} : join' = [join EXCEPT ![j].pc = pc]
        BY <1>8 DEF JoinPuts
    <2>2. JoinsKept({})
        BY <2>1, <1>join DEF JoinsKept, KnownInside, Making, Entering, JoinReq
    <2> QED
        BY <2>1, <2>2, <1>sweeps, <1>quiet, <1>same, MemberInvStays
<1>9. CASE JoinPuts(j) /\ guests' # guests
    <2>1. /\ UNCHANGED <<used, ejabberd>> /\ join[j].pc = "put"
          /\ join' = [join EXCEPT ![j].pc = "tell"]
          /\ guests' = [guests EXCEPT ![id] = [st |-> "active", room |-> r,
                              name |-> join[j].name, nick |-> join[j].nick]]
        BY <1>9, <1>id DEF JoinPuts
    <2>2. /\ \A k \in Joins : k # j => join'[k] = join[k]
          /\ join'[j].pc = "tell" /\ join'[j].room = r
        BY <2>1, <1>id, <1>join DEF JoinReq
    <2>3. /\ guests'[id].st = "active" /\ guests'[id].room = r
          /\ \A g \in GuestIds : g # id => guests'[g] = guests[g]
        BY <2>1, <1>guests
    <2>4. /\ id \in used
          /\ \A k \in Joins : k # j /\ join[k].pc \in Making => join[k].id # id
          /\ \A c \in Calls : call[c].pc \in {"drop", "kick"} => call[c].guest # id
        BY <2>1, <1>id DEF MemberInv, AccountInv, Making, Entering
    <2>5. \A k \in Joins : join'[k].pc \in Making =>
             k # j /\ join[k].pc \in Making /\ join'[k] = join[k] /\ join[k].id # id
        BY <2>2, <2>4 DEF Making, Entering
    <2>6. \A k \in Joins : join'[k].pc \in Making =>
             /\ join'[k].id \in used'
             /\ guests'[join'[k].id].st = "none"
             /\ \A m \in Joins : m # k /\ join'[m].pc \in Making => join'[m].id # join'[k].id
             /\ \A c \in Calls : call'[c].pc \in {"drop", "kick"} => call'[c].guest # join'[k].id
        <3>1. \A k \in Joins : join[k].id \in GuestIds
            BY <1>join DEF JoinReq
        <3> QED
            BY <2>1, <2>3, <2>5, <3>1, <1>calls DEF MemberInv, AccountInv, Making
    <2>7. AccountInv'
        <3>1. \A c \in Calls : call[c].guest \in GuestIds
            BY DEF TypeOK, CallReq
        <3> QED
            BY <2>1, <2>3, <2>4, <2>6, <3>1, <1>calls DEF MemberInv, AccountInv, Making
    <2>8. EnteringInv'
        BY <2>1, <2>2 DEF MemberInv, EnteringInv, ejabberd
    <2>9. muc[r] = "alive" => aff[r][id] = "member" /\ <<r, id>> \in subs /\ id \in push
        BY <2>1, <1>id DEF MemberInv, EnteringInv
    <2>10. ActiveGuestIsMember'
        BY <2>1, <2>3, <2>9 DEF MemberInv, ActiveGuestIsMember, ejabberd
    <2>11. SweepInv'
        BY <2>1, <1>calls DEF MemberInv, SweepInv, ejabberd
    <2> QED
        BY <2>7, <2>8, <2>10, <2>11 DEF MemberInv
<1>10. CASE JoinUndoes(j)
    <2>1. /\ UNCHANGED <<guests, used, push, muc>> /\ join[j].pc = "undo"
          /\ join' = [join EXCEPT ![j] = JoinIdle]
        BY <1>10 DEF JoinUndoes, JoinReturns, store
    <2>affs. \/ UNCHANGED <<aff, subs>>
             \/ aff' = [aff EXCEPT ![r][id] = "none"] /\ subs' = subs \ {<<r, id>>}
        BY <1>10, <1>id DEF JoinUndoes, MayAffiliate, SetAffiliation
    <2>2. EjabberdKeeps({id})
        BY <2>1, <2>affs, <1>aff DEF EjabberdKeeps
    <2>3. \A k \in Joins : join'[k].pc \in Making => k # j /\ join'[k] = join[k]
        BY <2>1, <1>join DEF JoinIdle, Making, Entering
    <2>4. guests[id].st = "none" /\ \A k \in Joins : k # j /\ join[k].pc \in Making => join[k].id # id
        BY <2>1, <1>id DEF MemberInv, AccountInv, Making
    <2>5. JoinsKept({id})
        BY <2>3, <2>4 DEF JoinsKept
    <2> QED
        BY <2>1, <2>2, <2>4, <2>5, <1>sweeps, <1>quiet, MemberInvStays
<1> QED
    BY <1>2, <1>3, <1>4, <1>5, <1>6, <1>7, <1>8, <1>9, <1>10 DEF JoinSteps

\* An operator's request, or a guest who leaves.
LEMMA MemberCall ==
    ASSUME TypeOK, TypeOK', RoomInv, MemberInv, RoomsGoOn, FewerGuests, UNCHANGED join,
           NEW c \in Calls, CallBegins(c) \/ CallSteps(c)
    PROVE  MemberInv'
<1>call. call \in [Calls -> CallReq]
    BY DEF TypeOK
<1>guests. guests \in [GuestIds -> GuestRow]
    BY DEF TypeOK
<1>aff. aff \in [Rooms -> [Users \cup GuestIds -> Affiliation]]
    BY DEF TypeOK
<1>muc. muc \in [Rooms -> {"none", "alive", "destroyed"}]
    BY DEF TypeOK
<1>ct. PICK r \in Rooms, id \in GuestIds : r = call[c].room /\ id = call[c].guest
    BY <1>call DEF CallReq
<1>joins. JoinsKept({})
    BY DEF JoinsKept
<1>same. UNCHANGED ejabberd => EjabberdKeeps({})
    BY DEF EjabberdKeeps, ejabberd
<1>frame. ASSUME DropsKept, UNCHANGED <<used, sweep>>, EjabberdKeeps({})
          PROVE  MemberInv'
    <2>1. SweepsKept
        BY <1>frame DEF SweepsKept
    <2> QED
        BY <1>frame, <2>1, <1>joins, MemberInvStays
\* Requests that do not go on to a guest.
<1>off. ASSUME UNCHANGED guests, \A d \in Calls : d # c => call'[d] = call[d],
               call'[c].pc \notin {"drop", "kick"}
        PROVE  DropsKept
    BY <1>off DEF DropsKept
<1>1. ASSUME NEW u \in Users, NEW q \in Rooms, CreateRoom(c, u, q) \/ CreateUnanswered(c, u, q)
      PROVE  MemberInv'
    <2>1. /\ UNCHANGED <<guests, used, sweep, push, subs>> /\ muc[q] = "none"
          /\ aff' = [aff EXCEPT ![q][u] = "owner"]
        BY <1>1 DEF CreateRoom, CreateUnanswered, store
    <2>2. DropsKept
        <3>1. CASE CreateUnanswered(c, u, q)
            BY <2>1, <3>1 DEF CreateUnanswered, DropsKept
        <3>2. CASE CreateRoom(c, u, q)
            BY <2>1, <3>2, <1>off, <1>call, BlankTypes DEF CreateRoom, Begin, CallReq
        <3> QED
            BY <1>1, <3>1, <3>2
    <2>3. EjabberdKeeps({})
        BY <2>1, <1>aff DEF EjabberdKeeps
    <2> QED
        BY <2>1, <2>2, <2>3, <1>frame
<1>2. ASSUME NEW u \in Users, NEW q \in Rooms, ShareReads(c, u, q)
      PROVE  MemberInv'
    <2>1. DropsKept
        BY <1>2, <1>off, <1>call, BlankTypes DEF ShareReads, Begin, CallReq, store
    <2> QED
        BY <1>2, <2>1, <1>same, <1>frame DEF ShareReads
<1>3. ASSUME NEW u \in Users, NEW q \in Rooms, NEW kind \in RoomKinds, RoomReads(c, u, q, kind)
      PROVE  MemberInv'
    <2>1. DropsKept
        BY <1>3, <1>off, <1>call, BlankTypes DEF RoomReads, Begin, CallReq, store
    <2> QED
        BY <1>3, <2>1, <1>same, <1>frame DEF RoomReads
<1>4. ASSUME NEW g \in GuestIds, LeaveReads(c, g)
      PROVE  MemberInv'
    <2>1. /\ call'[c].pc = "drop" /\ call'[c].guest = g /\ guests[g].st # "none"
          /\ \A d \in Calls : d # c => call'[d] = call[d]
        BY <1>4, <1>call, BlankTypes DEF LeaveReads, CallReq
    <2>2. DropsKept
        BY <2>1 DEF DropsKept
    <2> QED
        BY <1>4, <2>2, <1>same, <1>frame DEF LeaveReads
<1>5. ASSUME NEW g \in GuestIds, RemoveFinds(c, g)
      PROVE  MemberInv'
    <2>1. /\ \/ call'[c].pc = "drop" /\ call'[c].guest = g /\ guests[g].st # "none"
             \/ call'[c].pc = "idle"
          /\ \A d \in Calls : d # c => call'[d] = call[d]
        BY <1>5, <1>call DEF RemoveFinds, InRoom, CallReturns, CallIdle, CallReq
    <2>2. DropsKept
        BY <2>1 DEF DropsKept
    <2> QED
        BY <1>5, <2>2, <1>same, <1>frame DEF RemoveFinds
<1>6. CASE CreatePuts(c)
    <2>1. UNCHANGED <<guests, used, sweep, push>>
        BY <1>6 DEF CreatePuts
    <2>2. DropsKept
        BY <1>6, <2>1, <1>off, <1>call DEF CreatePuts, CallGives, CallReturns, CallIdle, CallReq
    <2>3. \/ UNCHANGED <<muc, aff, subs>>
          \/ /\ muc' = [muc EXCEPT ![r] = "destroyed"]
             /\ aff' = [aff EXCEPT ![r] = [x \in Users \cup GuestIds |-> "none"]]
             /\ subs' = {p \in subs : p[1] # r}
        BY <1>6, <1>ct DEF CreatePuts
    <2>4. EjabberdKeeps({})
        BY <2>1, <2>3, <1>muc, <1>aff DEF EjabberdKeeps
    <2> QED
        BY <2>1, <2>2, <2>4, <1>frame
<1>7. CASE LinkAnswered(c) \/ ShareChecks(c) \/ RoomChecks(c) \/ GetRoom(c)
    <2>1. UNCHANGED <<guests, used, sweep>> /\ UNCHANGED ejabberd
        BY <1>7 DEF LinkAnswered, ShareChecks, RoomChecks, GetRoom, store
    <2>2. DropsKept
        BY <1>7, <2>1, <1>off, <1>call
        DEF LinkAnswered, ShareChecks, RoomChecks, GetRoom, CallReturns, CallIdle, CallReq
    <2> QED
        BY <2>1, <2>2, <1>same, <1>frame
<1>8. CASE ShareLinks(c) \/ ShareOwns(c) \/ SharePuts(c)
    <2>1. UNCHANGED <<guests, used, sweep>> /\ UNCHANGED ejabberd
        BY <1>8 DEF ShareLinks, ShareOwns, SharePuts
    <2>2. DropsKept
        BY <1>8, <2>1, <1>off, <1>call
        DEF ShareLinks, ShareOwns, SharePuts, CallGives, CallReturns, CallIdle, CallReq
    <2> QED
        BY <2>1, <2>2, <1>same, <1>frame
<1>9. CASE RoomOwns(c) \/ NewLink(c) \/ RevokeLink(c)
    <2>1. UNCHANGED <<guests, used, sweep>> /\ UNCHANGED ejabberd
        BY <1>9 DEF RoomOwns, NewLink, RevokeLink
    <2>2. DropsKept
        BY <1>9, <2>1, <1>off, <1>call
        DEF RoomOwns, NewLink, RevokeLink, CallGives, CallReturns, CallIdle, CallReq
    <2> QED
        BY <2>1, <2>2, <1>same, <1>frame
<1>10. CASE DropRemoves(c)
    <2>1. UNCHANGED <<used, sweep>> /\ UNCHANGED ejabberd /\ call[c].pc = "drop"
        BY <1>10 DEF DropRemoves
    <2>2. \A d \in Calls : d # c => call'[d] = call[d]
        BY <1>10, <1>call DEF DropRemoves, CallReturns
    <2>3. \/ call'[c].pc = "idle"
          \/ call'[c].pc = "kick" /\ call'[c].guest = id /\ guests'[id].st # "active"
        BY <1>10, <1>ct, <1>call, <1>guests DEF DropRemoves, CallReturns, CallIdle, CallReq, GuestRow
    <2>4. DropsKept
        BY <2>1, <2>2, <2>3, <1>ct DEF DropsKept
    <2> QED
        BY <2>1, <2>4, <1>same, <1>frame
<1>11. CASE DropKicks(c)
    <2>1. UNCHANGED <<guests, used, sweep, push, muc>> /\ call[c].pc = "kick"
        BY <1>11 DEF DropKicks, store
    <2>2. \/ UNCHANGED <<aff, subs>>
          \/ aff' = [aff EXCEPT ![r][id] = "none"] /\ subs' = subs \ {<<r, id>>}
        BY <1>11, <1>ct DEF DropKicks, MayAffiliate, SetAffiliation
    <2>3. DropsKept
        BY <1>11, <2>1, <1>off, <1>call DEF DropKicks, CallReturns, CallIdle
    <2>4. EjabberdKeeps({id})
        BY <2>1, <2>2, <1>aff DEF EjabberdKeeps
    <2>5. guests[id].st # "active" /\ \A j \in Joins : join[j].pc \in Making => join[j].id # id
        BY <2>1, <1>ct DEF MemberInv, AccountInv, Making
    <2>6. JoinsKept({id}) /\ SweepsKept
        BY <2>1, <2>5 DEF JoinsKept, SweepsKept
    <2> QED
        BY <2>1, <2>3, <2>4, <2>5, <2>6, MemberInvStays
<1> QED
    BY <1>1, <1>2, <1>3, <1>4, <1>5, <1>6, <1>7, <1>8, <1>9, <1>10, <1>11
    DEF CallBegins, CallSteps

\* roomGone: the round, and a page that found its room missing.
LEMMA MemberSweep ==
    ASSUME TypeOK, TypeOK', RoomInv, MemberInv, RoomsGoOn, FewerGuests, UNCHANGED join,
           SweepBegins \/ \E s \in Sweeps : SweepSteps(s)
    PROVE  MemberInv'
<1>sweep. sweep \in [Sweeps -> SweepReq]
    BY DEF TypeOK
<1>st. Reconciler \in Sweeps /\ Polls \subseteq Sweeps
    BY DEF Sweeps
<1>frame. ASSUME SweepsKept, UNCHANGED <<used, call>>, UNCHANGED ejabberd
          PROVE  MemberInv'
    <2>1. JoinsKept({})
        BY DEF JoinsKept
    <2>2. EjabberdKeeps({})
        BY <1>frame DEF EjabberdKeeps, ejabberd
    <2>3. DropsKept
        BY <1>frame DEF DropsKept
    <2> QED
        BY <1>frame, <2>1, <2>2, <2>3, MemberInvStays
<1>1. CASE RoundStarts
    <2>1. SweepsKept
        BY <1>1, <1>sweep, <1>st DEF RoundStarts, SweepsKept, SweepReq
    <2> QED
        BY <1>1, <2>1, <1>frame DEF RoundStarts
<1>2. ASSUME NEW s \in Polls, NEW g \in GuestIds, PollFails(s, g)
      PROVE  MemberInv'
    <2>1. SweepsKept
        BY <1>2, <1>sweep, <1>st DEF PollFails, SweepsKept, SweepReq
    <2> QED
        BY <1>2, <2>1, <1>frame DEF PollFails
<1>3. ASSUME NEW s \in Sweeps, NEW todo, Onward(s, todo)
      PROVE  SweepsKept
    BY <1>3, <1>sweep DEF Onward, SweepIdle, SweepsKept
<1>4. ASSUME NEW s \in Sweeps, NEW r \in Rooms, SweepLooks(s, r)
      PROVE  MemberInv'
    <2>1. SweepsKept
        <3>1. CASE Onward(s, sweep[s].todo \ {r})
            BY <3>1, <1>3
        <3>2. CASE ~ Onward(s, sweep[s].todo \ {r})
            <4>1. muc[r] = "destroyed"
                BY <1>4, <3>2 DEF SweepLooks, RoomMissing, RoomInv, TypeOK
            <4>2. /\ sweep'[s].room = r
                  /\ \A t \in Sweeps : t # s => sweep'[t] = sweep[t]
                BY <1>4, <3>2, <1>sweep DEF SweepLooks, SweepReq
            <4> QED
                BY <4>1, <4>2 DEF SweepsKept
        <3> QED
            BY <3>1, <3>2
    <2> QED
        BY <1>4, <2>1, <1>frame DEF SweepLooks
<1>5. ASSUME NEW s \in Sweeps, SweepDropsGuests(s)
      PROVE  MemberInv'
    <2>1. SweepsKept
        <3>1. CASE Onward(s, sweep[s].todo)
            BY <3>1, <1>3
        <3>2. CASE ~ Onward(s, sweep[s].todo)
            BY <1>5, <3>2, <1>sweep DEF SweepDropsGuests, SweepsKept, SweepReq
        <3> QED
            BY <3>1, <3>2
    <2> QED
        BY <1>5, <2>1, <1>frame DEF SweepDropsGuests
<1>6. ASSUME NEW s \in Sweeps, SweepDropsRoom(s)
      PROVE  MemberInv'
    <2>1. SweepsKept
        BY <1>6, <1>3 DEF SweepDropsRoom
    <2> QED
        BY <1>6, <2>1, <1>frame DEF SweepDropsRoom
<1> QED
    BY <1>1, <1>2, <1>4, <1>5, <1>6 DEF SweepBegins, SweepSteps

\* What happens to the rooms themselves.
LEMMA MemberEnvironment ==
    ASSUME TypeOK, TypeOK', RoomInv, MemberInv, RoomsGoOn, FewerGuests, Environment
    PROVE  MemberInv'
<1>aff. aff \in [Rooms -> [Users \cup GuestIds -> Affiliation]]
    BY DEF TypeOK
<1>muc. muc \in [Rooms -> {"none", "alive", "destroyed"}]
    BY DEF TypeOK
<1>apart. \A u \in Users : u \notin GuestIds
    BY GuestAssumption
<1>frame. UNCHANGED <<join, used, call, sweep, guests, push>>
    BY DEF Environment, DestroyRoom, AddOperator, PassOwnership, LinkExpires, ejabberd, store
<1>kept. JoinsKept({}) /\ DropsKept /\ SweepsKept
    BY <1>frame DEF JoinsKept, DropsKept, SweepsKept
<1>1. ASSUME NEW r \in Rooms, DestroyRoom(r)
      PROVE  EjabberdKeeps({})
    BY <1>1, <1>frame, <1>muc, <1>aff DEF DestroyRoom, EjabberdKeeps
<1>2. ASSUME NEW r \in Rooms, NEW u \in Users, AddOperator(r, u)
      PROVE  EjabberdKeeps({})
    BY <1>2, <1>frame, <1>apart, <1>aff DEF AddOperator, EjabberdKeeps
<1>3. ASSUME NEW r \in Rooms, NEW u \in Users, NEW v \in Users, PassOwnership(r, u, v)
      PROVE  EjabberdKeeps({})
    <2>1. PICK a \in {"none", "member"} : aff' = [aff EXCEPT ![r][u] = a, ![r][v] = "owner"]
        BY <1>3 DEF PassOwnership
    <2>2. \A q \in Rooms, x \in GuestIds : aff'[q][x] = aff[q][x]
        BY <2>1, <1>apart, <1>aff
    <2> QED
        BY <1>3, <2>2, <1>frame DEF PassOwnership, EjabberdKeeps
<1>4. ASSUME NEW r \in Rooms, LinkExpires(r)
      PROVE  EjabberdKeeps({})
    BY <1>4 DEF LinkExpires, EjabberdKeeps, ejabberd
<1>5. EjabberdKeeps({})
    BY <1>1, <1>2, <1>3, <1>4 DEF Environment
<1> QED
    BY <1>5, <1>kept, <1>frame, MemberInvStays

LEMMA MemberNext == TypeOK /\ TypeOK' /\ RoomInv /\ MemberInv /\ [Next]_vars => MemberInv'
<1> SUFFICES ASSUME TypeOK, TypeOK', RoomInv, MemberInv, [Next]_vars PROVE MemberInv'
    OBVIOUS
<1>on. RoomsGoOn
    BY RoomsMadeOnce
<1>guests. guests \in [GuestIds -> GuestRow]
    BY DEF TypeOK
<1>1. CASE \E j \in Joins : JoinBegins(j) \/ JoinSteps(j)
    BY <1>1, <1>on, MemberJoin
<1>2. CASE Restart
    <2>1. UNCHANGED <<guests, used>> /\ UNCHANGED ejabberd
        BY <1>2 DEF Restart, store
    <2>2. /\ \A j \in Joins : join'[j].pc = "idle"
          /\ \A c \in Calls : call'[c].pc = "idle"
          /\ \A s \in Sweeps : sweep'[s].pc = "idle"
        BY <1>2 DEF Restart, JoinIdle, CallIdle, SweepIdle
    <2>3. FewerGuests /\ EjabberdKeeps({})
        BY <2>1, <1>guests DEF FewerGuests, EjabberdKeeps, ejabberd
    <2>4. JoinsKept({}) /\ DropsKept /\ SweepsKept
        BY <2>2 DEF JoinsKept, DropsKept, SweepsKept, Making, Entering
    <2> QED
        BY <2>1, <2>3, <2>4, <1>on, MemberInvStays
<1>3. CASE UNCHANGED vars
    BY <1>3 DEF vars, MemberInv, AccountInv, EnteringInv, SweepInv, ActiveGuestIsMember
<1>4. CASE Next /\ ~ Restart /\ ~ \E j \in Joins : JoinBegins(j) \/ JoinSteps(j)
    <2>1. UNCHANGED join /\ FewerGuests
        BY <1>4, OthersAddNobody
    <2> QED
        BY <1>4, <2>1, <1>on, MemberCall, MemberSweep, MemberEnvironment DEF Next
<1> QED
    BY <1>1, <1>2, <1>3, <1>4

LEMMA MemberInit == Init => RoomInv /\ MemberInv
<1> SUFFICES ASSUME Init PROVE RoomInv /\ MemberInv
    OBVIOUS
<1>1. /\ \A j \in Joins : join[j].pc = "idle"
      /\ \A c \in Calls : call[c].pc = "idle"
      /\ \A s \in Sweeps : sweep[s].pc = "idle" /\ sweep[s].todo = {}
    BY DEF Init, JoinIdle, CallIdle, SweepIdle
<1>2. /\ \A g \in GuestIds : guests[g].st = "none"
      /\ \A r \in Rooms : ext[r].st = "none"
    BY DEF Init, NoGuest, NoExt
<1> QED
    BY <1>1, <1>2
    DEF RoomInv, MemberInv, AccountInv, EnteringInv, SweepInv, ActiveGuestIsMember, Entering

\* GuestRoomsInv's IInv, the invariant behind all of the safety properties of
\* joinGuest, dropGuest, roomGone and the operators' handlers, is inductive and
\* holds for any number of rooms, guests, requests and restarts.
THEOREM GuestsInvariant == Spec => []IInv
<1>1. Init => TypeOK /\ SeatInv /\ RoomInv /\ MemberInv
    BY InitTypeOK, SeatInit, MemberInit
<1>2. TypeOK /\ SeatInv /\ RoomInv /\ MemberInv /\ [Next]_vars
      => (TypeOK /\ SeatInv /\ RoomInv /\ MemberInv)'
    BY NextTypeOK, SeatNext, RoomNext, MemberNext
<1>3. TypeOK /\ SeatInv /\ RoomInv /\ MemberInv => IInv
    BY DEF IInv, SeatInv, MemberInv
<1> QED
    BY <1>1, <1>2, <1>3, PTL DEF Spec

\* joinGuest and dropGuest: a guest the store lets in is, as long as the room
\* exists, a subscribed member of it with a push node.
THEOREM GuestsAreMembers == Spec => []ActiveGuestIsMember
<1>1. IInv => ActiveGuestIsMember
    BY DEF IInv
<1> QED
    BY <1>1, GuestsInvariant, PTL

\* roomGone: no step takes the row or a guest of a room that exists.
THEOREM LivingRoomsKept == Spec => LivingRoomIsKept
<1> DEFINE Kept == \A r \in Rooms : muc[r] = "alive" =>
                      /\ ext[r].st # "none" => ext'[r].st # "none"
                      /\ \A g \in InRoom(r) : guests'[g].st # "none"
<1>1. ASSUME IInv, IInv', [Next]_vars
      PROVE  [Kept]_vars
    <2>ext. ext \in [Rooms -> ExtRow]
        BY <1>1 DEF IInv, TypeOK
    <2>guests. guests \in [GuestIds -> GuestRow]
        BY <1>1 DEF IInv, TypeOK
    <2>rows. UNCHANGED guests => \A r \in Rooms : \A g \in InRoom(r) : guests'[g].st # "none"
        BY DEF InRoom
    <2>1. ASSUME NEW s \in Sweeps, SweepSteps(s)
          PROVE  Kept
        <3>1. ASSUME NEW r \in Rooms, SweepLooks(s, r)
              PROVE  Kept
            BY <3>1, <2>rows DEF SweepLooks, store
        <3>2. CASE SweepDropsGuests(s)
            <4>1. muc[sweep[s].room] = "destroyed" /\ UNCHANGED ext
                BY <1>1, <3>2 DEF SweepDropsGuests, IInv, SweepInv
            <4>2. \A g \in GuestIds : guests'[g] = guests[g] \/ g \in InRoom(sweep[s].room)
                BY <3>2, <2>guests DEF SweepDropsGuests
            <4> QED
                BY <4>1, <4>2 DEF InRoom
        <3>3. CASE SweepDropsRoom(s)
            <4>1. muc[sweep[s].room] = "destroyed" /\ UNCHANGED guests
                BY <1>1, <3>3 DEF SweepDropsRoom, IInv, SweepInv
            <4>2. \A r \in Rooms : ext'[r] = ext[r] \/ r = sweep[s].room
                BY <3>3, <2>ext DEF SweepDropsRoom
            <4> QED
                BY <4>1, <4>2, <2>rows
        <3> QED
            BY <2>1, <3>1, <3>2, <3>3 DEF SweepSteps
    <2>2. ASSUME NEW j \in Joins, JoinBegins(j) \/ JoinSteps(j)
          PROVE  Kept
        <3>1. CASE JoinBegins(j) \/ JoinLocks(j) \/ JoinRefused(j) \/ JoinUndoes(j) \/ JoinTells(j)
            BY <3>1, <2>rows
            DEF JoinBegins, JoinOpens, JoinLocks, JoinRefused, JoinUndoes, JoinTells, store
        <3>2. CASE \E g \in GuestIds : JoinAdmitted(j, g)
            BY <3>2, <2>rows DEF JoinAdmitted, store
        <3>3. CASE JoinAffiliates(j) \/ JoinSubscribes(j) \/ JoinEnablesPush(j)
            BY <3>3, <2>rows DEF JoinAffiliates, JoinSubscribes, JoinEnablesPush, store
        <3>4. CASE JoinPuts(j)
            BY <3>4, <2>guests DEF JoinPuts, InRoom
        <3> QED
            BY <2>2, <3>1, <3>2, <3>3, <3>4 DEF JoinSteps
    <2>3. ASSUME NEW c \in Calls, CallBegins(c)
          PROVE  Kept
        BY <2>3, <2>rows
        DEF CallBegins, CreateRoom, CreateUnanswered, ShareReads, RoomReads, LeaveReads, store
    <2>4. ASSUME NEW c \in Calls, CallSteps(c)
          PROVE  Kept
        <3>1. CASE LinkAnswered(c) \/ ShareChecks(c) \/ RoomChecks(c) \/ GetRoom(c) \/ DropKicks(c)
            BY <3>1, <2>rows DEF LinkAnswered, ShareChecks, RoomChecks, GetRoom, DropKicks, store
        <3>2. CASE \E g \in GuestIds : RemoveFinds(c, g)
            BY <3>2, <2>rows DEF RemoveFinds, store
        <3>3. CASE CreatePuts(c) \/ SharePuts(c)
            BY <3>3, <2>rows, <2>ext DEF CreatePuts, SharePuts, RowOf
        <3>4. CASE ShareLinks(c) \/ ShareOwns(c) \/ NewLink(c)
            <4>1. \A e \in ExtRow : \A l, u : e.st # "none" =>
                     Linked(e, l).st # "none" /\ Owned(e, u).st # "none"
                BY DEF Linked, Owned, ExtRow
            <4>2. \A r \in Rooms : ext[r].st # "none" => ext'[r].st # "none"
                BY <3>4, <4>1, <2>ext DEF ShareLinks, ShareOwns, NewLink
            <4> QED
                BY <3>4, <4>2, <2>rows DEF ShareLinks, ShareOwns, NewLink
        <3>5. CASE RoomOwns(c) \/ RevokeLink(c)
            BY <3>5, <2>rows, <2>ext DEF RoomOwns, RevokeLink, Owned, Revoked, ExtRow
        <3>6. CASE DropRemoves(c)
            BY <3>6, <2>guests DEF DropRemoves, InRoom, GuestRow
        <3> QED
            BY <2>4, <3>1, <3>2, <3>3, <3>4, <3>5, <3>6 DEF CallSteps
    <2>5. CASE SweepBegins
        BY <2>5, <2>rows DEF SweepBegins, RoundStarts, PollFails, store
    <2>6. CASE Environment
        <3>1. UNCHANGED guests
            BY <2>6 DEF Environment, DestroyRoom, AddOperator, PassOwnership, LinkExpires, store
        <3>2. ASSUME NEW q \in Rooms, LinkExpires(q)
              PROVE  \A r \in Rooms : ext'[r].st = ext[r].st
            BY <3>2, <2>ext DEF LinkExpires, ExtRow
        <3>3. UNCHANGED ext \/ \E q \in Rooms : LinkExpires(q)
            BY <2>6 DEF Environment, DestroyRoom, AddOperator, PassOwnership, store
        <3> QED
            BY <3>1, <3>2, <3>3, <2>rows
    <2>7. CASE Restart
        BY <2>7, <2>rows DEF Restart, store
    <2> QED
        BY <1>1, <2>1, <2>2, <2>3, <2>4, <2>5, <2>6, <2>7 DEF Next
<1> QED
    BY <1>1, GuestsInvariant, PTL DEF Spec, LivingRoomIsKept
=============================================================================
