-------------------------- MODULE GuestRoomsProofs --------------------------
(***************************************************************************)
(* Proofs about GuestRooms, for any number of rooms, operators, guests and *)
(* requests.                                                               *)
(***************************************************************************)
EXTENDS GuestRoomsInv, FiniteSetTheorems, TLAPS

\* The values that stand for "nothing" are of their type.
LEMMA BlankTypes ==
    /\ NoRoom \in Rooms /\ NoUser \in Users /\ NoId \in GuestIds
    /\ NoName \in Name
    /\ NoExt \in ExtRow /\ NoGuest \in GuestRow
    /\ JoinIdle \in JoinReq /\ CallIdle \in CallReq /\ SweepIdle \in SweepReq
<1>1. NoRoom \in Rooms
    BY GuestAssumption DEF NoRoom
<1>2. NoUser \in Users
    BY GuestAssumption DEF NoUser
<1>3. NoId \in GuestIds
    BY GuestAssumption DEF NoId
<1>4. (CHOOSE w \in Words : TRUE) \in Words
    BY GuestAssumption
<1>5. NoName \in Name
    BY <1>4, GuestAssumption DEF NoName, Name
<1>6. NoExt \in ExtRow /\ NoGuest \in GuestRow
    BY <1>1, <1>2, <1>5, GuestAssumption DEF NoExt, ExtRow, NoGuest, GuestRow
<1>7. JoinIdle \in JoinReq
    BY <1>1, <1>3, <1>5 DEF JoinIdle, JoinReq, JoinPcs
<1>8. CallIdle \in CallReq
    BY <1>1, <1>2, <1>3, GuestAssumption DEF CallIdle, CallReq, CallPcs, Kinds
<1>9. SweepIdle \in SweepReq
    BY <1>1 DEF SweepIdle, SweepReq, SweepPcs
<1> QED
    BY <1>1, <1>2, <1>3, <1>5, <1>6, <1>7, <1>8, <1>9

\* guestNick answers a name, and one that is not taken.
LEMMA GuestNickFree ==
    ASSUME NEW n \in Name, NEW taken, NEW nick \in GuestNick(n, taken)
    PROVE  nick \in Name /\ nick \notin taken
<1> DEFINE first == IF UsernameLike(n) THEN [n EXCEPT !.tail = 1] ELSE n
           numbered(i) == [n EXCEPT !.tail = i]
<1>1. MaxTail \in Nat \ {0}
    BY GuestAssumption
<1>2. first \in Name
    BY <1>1 DEF Name
<1>3. \A i \in 2..MaxTail : numbered(i) \in Name
    BY <1>1 DEF Name
<1>4. CASE first \notin taken
    <2>1. nick = first
        BY <1>4 DEF GuestNick
    <2> QED
        BY <2>1, <1>2, <1>4
<1>5. CASE first \in taken
    <2>1. PICK i \in 2..MaxTail : nick = numbered(i) /\ numbered(i) \notin taken
        BY <1>5 DEF GuestNick
    <2> QED
        BY <2>1, <1>3
<1> QED
    BY <1>4, <1>5

\* Type correctness.

LEMMA InitTypeOK == Init => TypeOK
<1> SUFFICES ASSUME Init PROVE TypeOK
    OBVIOUS
<1>1. ext \in [Rooms -> ExtRow] /\ guests \in [GuestIds -> GuestRow]
    BY BlankTypes DEF Init
<1>2. /\ join \in [Joins -> JoinReq]
      /\ call \in [Calls -> CallReq]
      /\ sweep \in [Sweeps -> SweepReq]
    BY BlankTypes DEF Init
<1>3. \A c \in Calls : call[c].pc \notin WithLink
    BY DEF Init, CallIdle, WithLink
<1>4. \A r \in Rooms : ext[r].st = "none"
    BY DEF Init, NoExt
<1>5. aff \in [Rooms -> [Users \cup GuestIds -> Affiliation]]
    BY DEF Init, Affiliation
<1>6. /\ muc \in [Rooms -> {"none", "alive", "destroyed"}]
      /\ lock \in [Rooms -> Joins \cup {Nobody}]
      /\ subs \in SUBSET (Rooms \X GuestIds) /\ push \in SUBSET GuestIds
      /\ used \in SUBSET GuestIds
    BY DEF Init
<1>7. issued \in 0..MaxLinks /\ restarts \in 0..MaxRestarts
    BY GuestAssumption DEF Init
<1> QED
    BY <1>1, <1>2, <1>3, <1>4, <1>5, <1>6, <1>7 DEF TypeOK

\* What the updates of a row, of a request and of an affiliation give.
LEMMA RowTypes ==
    ASSUME NEW e \in ExtRow, NEW u \in Users, NEW l \in 0..MaxLinks
    PROVE  RowOf(u, l) \in ExtRow /\ Linked(e, l) \in ExtRow
           /\ Owned(e, u) \in ExtRow /\ Revoked(e) \in ExtRow
BY DEF ExtRow, RowOf, Linked, Owned, Revoked

LEMMA BeginType ==
    ASSUME NEW pc \in CallPcs, NEW kind \in Kinds, NEW u \in Users, NEW r \in Rooms,
           NEW l \in 0..MaxLinks, NEW o \in Users
    PROVE  [CallIdle EXCEPT !.pc = pc, !.kind = kind, !.user = u, !.room = r,
                !.link = l, !.owner = o] \in CallReq
BY BlankTypes DEF CallReq

LEMMA JoinOpensType ==
    ASSUME NEW q \in JoinReq, NEW pc \in JoinPcs, NEW r \in Rooms, NEW n \in Name
    PROVE  [q EXCEPT !.pc = pc, !.room = r, !.name = n] \in JoinReq
BY DEF JoinReq

LEMMA JoinAdmittedType ==
    ASSUME NEW q \in JoinReq, NEW pc \in JoinPcs, NEW g \in GuestIds, NEW n \in Name
    PROVE  [q EXCEPT !.pc = pc, !.id = g, !.nick = n] \in JoinReq
BY DEF JoinReq

LEMMA AffType ==
    ASSUME NEW f \in [Rooms -> [Users \cup GuestIds -> Affiliation]],
           NEW r \in Rooms, NEW x \in Users \cup GuestIds, NEW a \in Affiliation
    PROVE  /\ [f EXCEPT ![r][x] = a] \in [Rooms -> [Users \cup GuestIds -> Affiliation]]
           /\ [f EXCEPT ![r] = [y \in Users \cup GuestIds |-> "none"]]
                 \in [Rooms -> [Users \cup GuestIds -> Affiliation]]
BY DEF Affiliation

LEMMA NextTypeOK == TypeOK /\ [Next]_vars => TypeOK'
<1> SUFFICES ASSUME TypeOK, [Next]_vars PROVE TypeOK'
    OBVIOUS
<1>ext. ext \in [Rooms -> ExtRow]
    BY DEF TypeOK
<1>guests. guests \in [GuestIds -> GuestRow]
    BY DEF TypeOK
<1>muc. muc \in [Rooms -> {"none", "alive", "destroyed"}]
    BY DEF TypeOK
<1>aff. aff \in [Rooms -> [Users \cup GuestIds -> Affiliation]]
    BY DEF TypeOK
<1>subs. subs \in SUBSET (Rooms \X GuestIds)
    BY DEF TypeOK
<1>push. push \in SUBSET GuestIds
    BY DEF TypeOK
<1>lock. lock \in [Rooms -> Joins \cup {Nobody}]
    BY DEF TypeOK
<1>join. join \in [Joins -> JoinReq]
    BY DEF TypeOK
<1>call. call \in [Calls -> CallReq]
    BY DEF TypeOK
<1>sweep. sweep \in [Sweeps -> SweepReq]
    BY DEF TypeOK
<1>used. used \in SUBSET GuestIds
    BY DEF TypeOK
<1>issued. issued \in 0..MaxLinks
    BY DEF TypeOK
<1>restarts. restarts \in 0..MaxRestarts
    BY DEF TypeOK
<1>rl. \A r \in Rooms : ext[r].st # "none" => ext[r].link \in 1..issued
    BY DEF TypeOK
<1>cl. \A c \in Calls : call[c].pc \in WithLink => call[c].link \in 1..issued
    BY DEF TypeOK
<1>jt. \A j \in Joins : join[j].room \in Rooms /\ join[j].id \in Users \cup GuestIds
    BY <1>join DEF JoinReq
<1>ct. \A c \in Calls :
          /\ call[c].room \in Rooms /\ call[c].user \in Users
          /\ call[c].guest \in Users \cup GuestIds /\ call[c].link \in 0..MaxLinks
    BY <1>call DEF CallReq
<1>et. \A r \in Rooms : ext[r].owner \in Users
    BY <1>ext DEF ExtRow
<1>gt. \A g \in GuestIds : guests[g].room \in Rooms
    BY <1>guests DEF GuestRow
<1>mono. \A x \in 1..issued : x \in 1..(issued + 1)
    BY <1>issued
<1>1. ASSUME NEW j \in Joins, JoinLocks(j)
      PROVE  TypeOK'
    <2>1. lock' \in [Rooms -> Joins \cup {Nobody}]
        BY <1>1, <1>lock, <1>join DEF JoinLocks, JoinReq
    <2>2. join' \in [Joins -> JoinReq]
        BY <1>1, <1>join DEF JoinLocks, JoinReq, JoinPcs
    <2> QED
        BY <1>1, <2>1, <2>2 DEF TypeOK, JoinLocks, store, ejabberd
<1>2. ASSUME NEW j \in Joins, JoinRefused(j)
      PROVE  TypeOK'
    <2>1. lock' \in [Rooms -> Joins \cup {Nobody}]
        BY <1>2, <1>lock, <1>join DEF JoinRefused, JoinReturns, Unlock, JoinReq
    <2>2. join' \in [Joins -> JoinReq]
        BY <1>2, <1>join, BlankTypes DEF JoinRefused, JoinReturns
    <2> QED
        BY <1>2, <2>1, <2>2 DEF TypeOK, JoinRefused, store, ejabberd
<1>3. ASSUME NEW j \in Joins, NEW g \in GuestIds, JoinAdmitted(j, g)
      PROVE  TypeOK'
    <2>1. join' \in [Joins -> JoinReq]
        <3>1. PICK nick \in GuestNick(join[j].name, {guests[x].nick : x \in InRoom(join[j].room)}) :
                 join' = [join EXCEPT ![j] = [@ EXCEPT !.pc = "aff", !.id = g, !.nick = nick]]
            BY <1>3 DEF JoinAdmitted
        <3>2. join[j].name \in Name /\ "aff" \in JoinPcs
            BY <1>join DEF JoinReq, JoinPcs
        <3>3. nick \in Name
            BY <3>2, GuestNickFree
        <3> QED
            BY <3>1, <3>2, <3>3, <1>join, JoinAdmittedType
    <2>2. used' \in SUBSET GuestIds
        BY <1>3, <1>used DEF JoinAdmitted
    <2> QED
        BY <1>3, <2>1, <2>2 DEF TypeOK, JoinAdmitted, store, ejabberd
<1>4. ASSUME NEW j \in Joins, JoinAffiliates(j)
      PROVE  TypeOK'
    <2>1. join' \in [Joins -> JoinReq]
        BY <1>4, <1>join DEF JoinAffiliates, JoinReq, JoinPcs
    <2>2. aff' \in [Rooms -> [Users \cup GuestIds -> Affiliation]]
        <3>1. "member" \in Affiliation
            BY DEF Affiliation
        <3>2. aff' = aff \/ aff' = [aff EXCEPT ![join[j].room][join[j].id] = "member"]
            BY <1>4 DEF JoinAffiliates, MayAffiliate, SetAffiliation
        <3>3. join[j].room \in Rooms /\ join[j].id \in Users \cup GuestIds
            BY <1>4, <1>jt
        <3>4. [aff EXCEPT ![join[j].room][join[j].id] = "member"] \in [Rooms -> [Users \cup GuestIds -> Affiliation]]
            BY ONLY <3>1, <3>3, <1>aff, AffType
        <3> QED
            BY <3>2, <3>4, <1>aff
    <2>3. subs' \in SUBSET (Rooms \X GuestIds)
        BY <1>4, <1>subs DEF JoinAffiliates, MayAffiliate, SetAffiliation
    <2> QED
        BY <1>4, <2>1, <2>2, <2>3 DEF TypeOK, JoinAffiliates, store, ejabberd
<1>5. ASSUME NEW j \in Joins, JoinSubscribes(j)
      PROVE  TypeOK'
    <2>1. join' \in [Joins -> JoinReq]
        BY <1>5, <1>join DEF JoinSubscribes, JoinReq, JoinPcs
    <2>2. subs' \in SUBSET (Rooms \X GuestIds)
        BY <1>5, <1>subs, <1>join DEF JoinSubscribes, JoinReq
    <2> QED
        BY <1>5, <2>1, <2>2 DEF TypeOK, JoinSubscribes, store, ejabberd
<1>6. ASSUME NEW j \in Joins, JoinEnablesPush(j)
      PROVE  TypeOK'
    <2>1. join' \in [Joins -> JoinReq]
        BY <1>6, <1>join DEF JoinEnablesPush, JoinReq, JoinPcs, AfterPushFailure
    <2>2. push' \in SUBSET GuestIds
        BY <1>6, <1>push, <1>join DEF JoinEnablesPush, JoinReq
    <2> QED
        BY <1>6, <2>1, <2>2 DEF TypeOK, JoinEnablesPush, store, ejabberd
<1>7. ASSUME NEW j \in Joins, JoinPuts(j)
      PROVE  TypeOK'
    <2>1. join' \in [Joins -> JoinReq]
        BY <1>7, <1>join DEF JoinPuts, JoinReq, JoinPcs
    <2>2. guests' \in [GuestIds -> GuestRow]
        BY <1>7, <1>guests, <1>join DEF JoinPuts, JoinReq, GuestRow
    <2> QED
        BY <1>7, <2>1, <2>2 DEF TypeOK, JoinPuts, store, ejabberd
<1>8. ASSUME NEW j \in Joins, JoinUndoes(j)
      PROVE  TypeOK'
    <2>1. lock' \in [Rooms -> Joins \cup {Nobody}]
        BY <1>8, <1>lock, <1>join DEF JoinUndoes, JoinReturns, Unlock, JoinReq
    <2>2. join' \in [Joins -> JoinReq]
        BY <1>8, <1>join, BlankTypes DEF JoinUndoes, JoinReturns
    <2>3. aff' \in [Rooms -> [Users \cup GuestIds -> Affiliation]]
        <3>1. "none" \in Affiliation
            BY DEF Affiliation
        <3>2. aff' = aff \/ aff' = [aff EXCEPT ![join[j].room][join[j].id] = "none"]
            BY <1>8 DEF JoinUndoes, MayAffiliate, SetAffiliation
        <3>3. join[j].room \in Rooms /\ join[j].id \in Users \cup GuestIds
            BY <1>8, <1>jt
        <3>4. [aff EXCEPT ![join[j].room][join[j].id] = "none"] \in [Rooms -> [Users \cup GuestIds -> Affiliation]]
            BY ONLY <3>1, <3>3, <1>aff, AffType
        <3> QED
            BY <3>2, <3>4, <1>aff
    <2>4. subs' \in SUBSET (Rooms \X GuestIds)
        BY <1>8, <1>subs DEF JoinUndoes, MayAffiliate, SetAffiliation
    <2> QED
        BY <1>8, <2>1, <2>2, <2>3, <2>4 DEF TypeOK, JoinUndoes, store, ejabberd
<1>9. ASSUME NEW j \in Joins, JoinTells(j)
      PROVE  TypeOK'
    <2>1. lock' \in [Rooms -> Joins \cup {Nobody}]
        BY <1>9, <1>lock, <1>join DEF JoinTells, JoinReturns, Unlock, JoinReq
    <2>2. join' \in [Joins -> JoinReq]
        BY <1>9, <1>join, BlankTypes DEF JoinTells, JoinReturns
    <2> QED
        BY <1>9, <2>1, <2>2 DEF TypeOK, JoinTells, store, ejabberd
<1>10. ASSUME NEW j \in Joins, NEW l \in 1..MaxLinks, NEW n \in Typed, JoinOpens(j, l, n)
      PROVE  TypeOK'
    <2>1. join' \in [Joins -> JoinReq]
        <3>1. PICK r \in Rooms : join' = [join EXCEPT ![j] =
                 [@ EXCEPT !.pc = "lock", !.room = r, !.name = n]]
            BY <1>10 DEF JoinOpens
        <3>2. n \in Name /\ "lock" \in JoinPcs
            BY GuestAssumption DEF JoinPcs
        <3> QED
            BY <3>1, <3>2, <1>join, JoinOpensType
    <2> QED
        BY <1>10, <2>1 DEF TypeOK, JoinOpens, store, ejabberd
<1>11. ASSUME NEW c \in Calls, LinkAnswered(c)
      PROVE  TypeOK'
    <2>1. call' \in [Calls -> CallReq]
        BY <1>11, <1>call, BlankTypes DEF LinkAnswered, CallReturns
    <2>2. \A d \in Calls : call'[d].pc \in WithLink => call'[d].link \in 1..issued'
        BY <1>11, <1>call, <1>cl DEF LinkAnswered, CallReturns, CallIdle, WithLink
    <2> QED
        BY <1>11, <2>1, <2>2 DEF TypeOK, LinkAnswered, store, ejabberd
<1>12. ASSUME NEW c \in Calls, CreatePuts(c)
      PROVE  TypeOK'
    <2>1. call' \in [Calls -> CallReq]
        BY <1>12, <1>call, BlankTypes DEF CreatePuts, CallReturns, CallGives, CallReq, CallPcs
    <2>2. \A d \in Calls : call'[d].pc \in WithLink => call'[d].link \in 1..issued'
        BY <1>12, <1>call, <1>cl DEF CreatePuts, CallReturns, CallGives, CallIdle, WithLink, CallReq
    <2>3. ext' \in [Rooms -> ExtRow]
        BY <1>12, <1>ext, <1>ct, RowTypes DEF CreatePuts
    <2>4. \A q \in Rooms : ext'[q].st # "none" => ext'[q].link \in 1..issued'
        BY <1>12, <1>ext, <1>rl, <1>call, <1>cl DEF CreatePuts, RowOf, WithLink, CallReq
    <2>5. muc' \in [Rooms -> {"none", "alive", "destroyed"}]
        BY <1>12, <1>muc, <1>call DEF CreatePuts, CallReq
    <2>6. aff' \in [Rooms -> [Users \cup GuestIds -> Affiliation]]
        <3>1. aff' = aff \/ aff' = [aff EXCEPT ![call[c].room] = [x \in Users \cup GuestIds |-> "none"]]
            BY <1>12 DEF CreatePuts
        <3>2. "none" \in Affiliation
            BY DEF Affiliation
        <3>3. call[c].room \in Rooms /\ call[c].guest \in Users \cup GuestIds
            BY <1>ct
        <3>4. [aff EXCEPT ![call[c].room] = [x \in Users \cup GuestIds |-> "none"]]
                 \in [Rooms -> [Users \cup GuestIds -> Affiliation]]
            BY ONLY <3>2, <3>3, <1>aff, AffType
        <3> QED
            BY <3>1, <3>4, <1>aff
    <2>7. subs' \in SUBSET (Rooms \X GuestIds)
        BY <1>12, <1>subs DEF CreatePuts
    <2> QED
        BY <1>12, <2>1, <2>2, <2>3, <2>4, <2>5, <2>6, <2>7 DEF TypeOK, CreatePuts, store, ejabberd
<1>13. ASSUME NEW c \in Calls, ShareChecks(c)
      PROVE  TypeOK'
    <2>1. call' \in [Calls -> CallReq]
        BY <1>13, <1>call, BlankTypes DEF ShareChecks, CallReturns, CallReq, CallPcs
    <2>2. \A d \in Calls : call'[d].pc \in WithLink => call'[d].link \in 1..issued'
        BY <1>13, <1>call, <1>cl DEF ShareChecks, CallReturns, CallIdle, WithLink, CallReq
    <2> QED
        BY <1>13, <2>1, <2>2 DEF TypeOK, ShareChecks, store, ejabberd
<1>14. ASSUME NEW c \in Calls, ShareLinks(c)
      PROVE  TypeOK'
    <2>1. call' \in [Calls -> CallReq]
        BY <1>14, <1>call DEF ShareLinks, CallGives, CallReq, CallPcs
    <2>2. \A d \in Calls : call'[d].pc \in WithLink => call'[d].link \in 1..issued'
        BY <1>14, <1>call, <1>cl DEF ShareLinks, CallGives, WithLink, CallReq
    <2>3. ext' \in [Rooms -> ExtRow]
        BY <1>14, <1>ext, <1>ct, RowTypes DEF ShareLinks
    <2>4. \A q \in Rooms : ext'[q].st # "none" => ext'[q].link \in 1..issued'
        BY <1>14, <1>ext, <1>rl, <1>call, <1>cl DEF ShareLinks, Linked, WithLink, CallReq, ExtRow
    <2> QED
        BY <1>14, <2>1, <2>2, <2>3, <2>4 DEF TypeOK, ShareLinks, store, ejabberd
<1>15. ASSUME NEW c \in Calls, ShareOwns(c)
      PROVE  TypeOK'
    <2>1. call' \in [Calls -> CallReq]
        BY <1>15, <1>call DEF ShareOwns, CallGives, CallReq, CallPcs
    <2>2. \A d \in Calls : call'[d].pc \in WithLink => call'[d].link \in 1..issued'
        BY <1>15, <1>call, <1>cl DEF ShareOwns, CallGives, WithLink, CallReq
    <2>3. ext' \in [Rooms -> ExtRow]
        BY <1>15, <1>ext, <1>call DEF ShareOwns, CallReq, ExtRow, Owned
    <2>4. \A q \in Rooms : ext'[q].st # "none" => ext'[q].link \in 1..issued'
        BY <1>15, <1>ext, <1>rl, <1>call DEF ShareOwns, Owned, CallReq, ExtRow
    <2> QED
        BY <1>15, <2>1, <2>2, <2>3, <2>4 DEF TypeOK, ShareOwns, store, ejabberd
<1>16. ASSUME NEW c \in Calls, SharePuts(c)
      PROVE  TypeOK'
    <2>1. call' \in [Calls -> CallReq]
        BY <1>16, <1>call, BlankTypes DEF SharePuts, CallReturns, CallGives, CallReq, CallPcs
    <2>2. \A d \in Calls : call'[d].pc \in WithLink => call'[d].link \in 1..issued'
        BY <1>16, <1>call, <1>cl DEF SharePuts, CallReturns, CallGives, CallIdle, WithLink, CallReq
    <2>3. ext' \in [Rooms -> ExtRow]
        BY <1>16, <1>ext, <1>ct, RowTypes DEF SharePuts
    <2>4. \A q \in Rooms : ext'[q].st # "none" => ext'[q].link \in 1..issued'
        BY <1>16, <1>ext, <1>rl, <1>call, <1>cl DEF SharePuts, RowOf, WithLink, CallReq
    <2> QED
        BY <1>16, <2>1, <2>2, <2>3, <2>4 DEF TypeOK, SharePuts, store, ejabberd
<1>17. ASSUME NEW c \in Calls, RoomChecks(c)
      PROVE  TypeOK'
    <2>1. call' \in [Calls -> CallReq]
        BY <1>17, <1>call, BlankTypes DEF RoomChecks, CallReturns, CallReq, CallPcs
    <2>2. \A d \in Calls : call'[d].pc \in WithLink => call'[d].link \in 1..issued'
        BY <1>17, <1>call, <1>cl DEF RoomChecks, CallReturns, CallIdle, WithLink, CallReq
    <2> QED
        BY <1>17, <2>1, <2>2 DEF TypeOK, RoomChecks, store, ejabberd
<1>18. ASSUME NEW c \in Calls, RoomOwns(c)
      PROVE  TypeOK'
    <2>1. call' \in [Calls -> CallReq]
        BY <1>18, <1>call, BlankTypes DEF RoomOwns, CallReturns, CallReq, CallPcs
    <2>2. \A d \in Calls : call'[d].pc \in WithLink => call'[d].link \in 1..issued'
        BY <1>18, <1>call, <1>cl DEF RoomOwns, CallReturns, CallIdle, WithLink, CallReq
    <2>3. ext' \in [Rooms -> ExtRow]
        BY <1>18, <1>ext, <1>call DEF RoomOwns, CallReq, ExtRow, Owned
    <2>4. \A q \in Rooms : ext'[q].st # "none" => ext'[q].link \in 1..issued'
        BY <1>18, <1>ext, <1>rl, <1>call DEF RoomOwns, Owned, CallReq, ExtRow
    <2> QED
        BY <1>18, <2>1, <2>2, <2>3, <2>4 DEF TypeOK, RoomOwns, store, ejabberd
<1>19. ASSUME NEW c \in Calls, GetRoom(c)
      PROVE  TypeOK'
    <2>1. call' \in [Calls -> CallReq]
        BY <1>19, <1>call, BlankTypes DEF GetRoom, CallReturns
    <2>2. \A d \in Calls : call'[d].pc \in WithLink => call'[d].link \in 1..issued'
        BY <1>19, <1>call, <1>cl DEF GetRoom, CallReturns, CallIdle, WithLink
    <2> QED
        BY <1>19, <2>1, <2>2 DEF TypeOK, GetRoom, store, ejabberd
<1>20. ASSUME NEW c \in Calls, NewLink(c)
      PROVE  TypeOK'
    <2>1. issued' \in 0..MaxLinks
        BY <1>20, <1>issued, GuestAssumption DEF NewLink
    <2>2. call' \in [Calls -> CallReq]
        BY <1>20, <1>call, <1>issued, BlankTypes, GuestAssumption DEF NewLink, CallReturns, CallGives, FreshLink, CallReq, CallPcs
    <2>3. \A d \in Calls : call'[d].pc \in WithLink => call'[d].link \in 1..issued'
        BY <1>20, <1>call, <1>cl, <1>issued, GuestAssumption DEF NewLink, CallReturns, CallGives, CallIdle, WithLink, CallReq
    <2>4. ext' \in [Rooms -> ExtRow]
        <3>1. ext' = ext \/ (issued < MaxLinks /\ ext' = [ext EXCEPT ![call[c].room] = Linked(@, FreshLink)])
            BY <1>20 DEF NewLink
        <3>2. issued < MaxLinks => FreshLink \in 0..MaxLinks
            BY <1>issued, GuestAssumption DEF FreshLink
        <3>3. CASE ext' = ext
            BY <3>3, <1>ext
        <3>4. CASE issued < MaxLinks /\ ext' = [ext EXCEPT ![call[c].room] = Linked(@, FreshLink)]
            <4>1. ext[call[c].room] \in ExtRow
                BY <1>ext, <1>ct
            <4>2. Linked(ext[call[c].room], FreshLink) \in ExtRow
                BY <3>2, <3>4, <4>1, <1>ct, RowTypes
            <4> QED
                BY <3>4, <4>2, <1>ext
        <3> QED
            BY <3>1, <3>3, <3>4
    <2>5. \A q \in Rooms : ext'[q].st # "none" => ext'[q].link \in 1..issued'
        <3>1. CASE ext' = ext /\ issued' = issued
            BY <3>1, <1>rl
        <3>2. CASE issued' = issued + 1 /\ ext' = [ext EXCEPT ![call[c].room] = Linked(@, FreshLink)]
            <4>1. FreshLink \in 1..(issued + 1)
                BY <1>issued DEF FreshLink
            <4> QED
                BY <3>2, <4>1, <1>rl, <1>mono, <1>ext, <1>ct DEF Linked, ExtRow
        <3> QED
            BY <1>20, <3>1, <3>2 DEF NewLink
    <2> QED
        BY <1>20, <2>1, <2>2, <2>3, <2>4, <2>5 DEF TypeOK, NewLink, store, ejabberd
<1>21. ASSUME NEW c \in Calls, RevokeLink(c)
      PROVE  TypeOK'
    <2>1. call' \in [Calls -> CallReq]
        BY <1>21, <1>call, BlankTypes DEF RevokeLink, CallReturns
    <2>2. \A d \in Calls : call'[d].pc \in WithLink => call'[d].link \in 1..issued'
        BY <1>21, <1>call, <1>cl DEF RevokeLink, CallReturns, CallIdle, WithLink
    <2>3. ext' \in [Rooms -> ExtRow]
        BY <1>21, <1>ext, <1>call DEF RevokeLink, CallReq, ExtRow, Revoked
    <2>4. \A q \in Rooms : ext'[q].st # "none" => ext'[q].link \in 1..issued'
        BY <1>21, <1>ext, <1>rl, <1>call DEF RevokeLink, Revoked, CallReq, ExtRow
    <2> QED
        BY <1>21, <2>1, <2>2, <2>3, <2>4 DEF TypeOK, RevokeLink, store, ejabberd
<1>22. ASSUME NEW c \in Calls, NEW g \in GuestIds, RemoveFinds(c, g)
      PROVE  TypeOK'
    <2>1. call' \in [Calls -> CallReq]
        BY <1>22, <1>call, BlankTypes DEF RemoveFinds, CallReturns, CallReq, CallPcs
    <2>2. \A d \in Calls : call'[d].pc \in WithLink => call'[d].link \in 1..issued'
        BY <1>22, <1>call, <1>cl DEF RemoveFinds, CallReturns, CallIdle, WithLink, CallReq
    <2> QED
        BY <1>22, <2>1, <2>2 DEF TypeOK, RemoveFinds, store, ejabberd
<1>23. ASSUME NEW c \in Calls, DropRemoves(c)
      PROVE  TypeOK'
    <2>1. call' \in [Calls -> CallReq]
        BY <1>23, <1>call, BlankTypes DEF DropRemoves, CallReturns, CallReq, CallPcs
    <2>2. \A d \in Calls : call'[d].pc \in WithLink => call'[d].link \in 1..issued'
        BY <1>23, <1>call, <1>cl DEF DropRemoves, CallReturns, CallIdle, WithLink, CallReq
    <2>3. guests' \in [GuestIds -> GuestRow]
        BY <1>23, <1>guests, <1>call DEF DropRemoves, CallReq, GuestRow
    <2> QED
        BY <1>23, <2>1, <2>2, <2>3 DEF TypeOK, DropRemoves, store, ejabberd
<1>24. ASSUME NEW c \in Calls, DropKicks(c)
      PROVE  TypeOK'
    <2>1. call' \in [Calls -> CallReq]
        BY <1>24, <1>call, BlankTypes DEF DropKicks, CallReturns
    <2>2. \A d \in Calls : call'[d].pc \in WithLink => call'[d].link \in 1..issued'
        BY <1>24, <1>call, <1>cl DEF DropKicks, CallReturns, CallIdle, WithLink
    <2>3. aff' \in [Rooms -> [Users \cup GuestIds -> Affiliation]]
        <3>1. "none" \in Affiliation
            BY DEF Affiliation
        <3>2. aff' = aff \/ aff' = [aff EXCEPT ![call[c].room][call[c].guest] = "none"]
            BY <1>24 DEF DropKicks, MayAffiliate, SetAffiliation
        <3>3. call[c].room \in Rooms /\ call[c].guest \in Users \cup GuestIds
            BY <1>24, <1>ct
        <3>4. [aff EXCEPT ![call[c].room][call[c].guest] = "none"] \in [Rooms -> [Users \cup GuestIds -> Affiliation]]
            BY ONLY <3>1, <3>3, <1>aff, AffType
        <3> QED
            BY <3>2, <3>4, <1>aff
    <2>4. subs' \in SUBSET (Rooms \X GuestIds)
        BY <1>24, <1>subs DEF DropKicks, MayAffiliate, SetAffiliation
    <2> QED
        BY <1>24, <2>1, <2>2, <2>3, <2>4 DEF TypeOK, DropKicks, store, ejabberd
<1>25. ASSUME NEW c \in Calls, NEW u \in Users, NEW r \in Rooms, CreateRoom(c, u, r)
      PROVE  TypeOK'
    <2>1. call' \in [Calls -> CallReq]
        <3>1. PICK pc \in CallPcs, k \in Kinds : call' = [call EXCEPT ![c] =
                 [CallIdle EXCEPT !.pc = pc, !.kind = k, !.user = u, !.room = r,
                     !.link = FreshLink, !.owner = u]]
            BY <1>25 DEF CreateRoom, Begin, CallPcs, Kinds
        <3>2. FreshLink \in 0..MaxLinks
            BY <1>25, <1>issued, GuestAssumption DEF CreateRoom, FreshLink
        <3>3. u \in Users
            BY <1>et
        <3> QED
            BY <3>1, <3>2, <3>3, <1>call, BeginType
    <2>2. \A d \in Calls : call'[d].pc \in WithLink => call'[d].link \in 1..issued'
        BY <1>25, <1>call, <1>cl, <1>issued, BlankTypes, GuestAssumption DEF CreateRoom, Begin, CallReq, WithLink, FreshLink
    <2>3. muc' \in [Rooms -> {"none", "alive", "destroyed"}]
        BY <1>25, <1>muc DEF CreateRoom
    <2>4. aff' \in [Rooms -> [Users \cup GuestIds -> Affiliation]]
        BY <1>25, <1>aff DEF CreateRoom, Affiliation
    <2>5. issued' \in 0..MaxLinks
        BY <1>25, <1>issued, GuestAssumption DEF CreateRoom
    <2>6. \A q \in Rooms : ext'[q].st # "none" => ext'[q].link \in 1..issued'
        <3>1. ext' = ext /\ issued' = issued + 1
            BY <1>25 DEF CreateRoom, store
        <3> QED
            BY <3>1, <1>rl, <1>mono
    <2> QED
        BY <1>25, <2>1, <2>2, <2>3, <2>4, <2>5, <2>6 DEF TypeOK, CreateRoom, store, ejabberd
<1>26. ASSUME NEW c \in Calls, NEW u \in Users, NEW r \in Rooms, CreateUnanswered(c, u, r)
      PROVE  TypeOK'
    <2>1. muc' \in [Rooms -> {"none", "alive", "destroyed"}]
        BY <1>26, <1>muc DEF CreateUnanswered
    <2>2. aff' \in [Rooms -> [Users \cup GuestIds -> Affiliation]]
        BY <1>26, <1>aff DEF CreateUnanswered, Affiliation
    <2> QED
        BY <1>26, <2>1, <2>2 DEF TypeOK, CreateUnanswered, store, ejabberd
<1>27. ASSUME NEW c \in Calls, NEW u \in Users, NEW r \in Rooms, ShareReads(c, u, r)
      PROVE  TypeOK'
    <2>1. call' \in [Calls -> CallReq]
        <3>1. PICK pc \in CallPcs, k \in Kinds : call' = [call EXCEPT ![c] =
                 [CallIdle EXCEPT !.pc = pc, !.kind = k, !.user = u, !.room = r,
                     !.link = FreshLink, !.owner = ext[r].owner]]
            BY <1>27 DEF ShareReads, Begin, CallPcs, Kinds
        <3>2. FreshLink \in 0..MaxLinks
            BY <1>27, <1>issued, GuestAssumption DEF ShareReads, FreshLink
        <3>3. ext[r].owner \in Users
            BY <1>et
        <3> QED
            BY <3>1, <3>2, <3>3, <1>call, BeginType
    <2>2. \A d \in Calls : call'[d].pc \in WithLink => call'[d].link \in 1..issued'
        BY <1>27, <1>call, <1>cl, <1>issued, BlankTypes, GuestAssumption DEF ShareReads, Begin, CallReq, WithLink, FreshLink
    <2>3. issued' \in 0..MaxLinks
        BY <1>27, <1>issued, GuestAssumption DEF ShareReads
    <2>4. \A q \in Rooms : ext'[q].st # "none" => ext'[q].link \in 1..issued'
        <3>1. ext' = ext /\ issued' = issued + 1
            BY <1>27 DEF ShareReads, store
        <3> QED
            BY <3>1, <1>rl, <1>mono
    <2> QED
        BY <1>27, <2>1, <2>2, <2>3, <2>4 DEF TypeOK, ShareReads, store, ejabberd
<1>28. ASSUME NEW c \in Calls, NEW u \in Users, NEW r \in Rooms, NEW kind \in RoomKinds, RoomReads(c, u, r, kind)
      PROVE  TypeOK'
    <2>1. call' \in [Calls -> CallReq]
        <3>1. PICK pc \in CallPcs, k \in Kinds : call' = [call EXCEPT ![c] =
                 [CallIdle EXCEPT !.pc = pc, !.kind = k, !.user = u, !.room = r,
                     !.link = 0, !.owner = ext[r].owner]]
            BY <1>28 DEF RoomReads, Begin, CallPcs, Kinds, RoomKinds
        <3>2. 0 \in 0..MaxLinks
            BY <1>28, <1>issued, GuestAssumption DEF RoomReads
        <3>3. ext[r].owner \in Users
            BY <1>et
        <3> QED
            BY <3>1, <3>2, <3>3, <1>call, BeginType
    <2>2. \A d \in Calls : call'[d].pc \in WithLink => call'[d].link \in 1..issued'
        BY <1>28, <1>call, <1>cl, <1>issued, BlankTypes, GuestAssumption DEF RoomReads, Begin, CallReq, WithLink, RoomKinds
    <2> QED
        BY <1>28, <2>1, <2>2 DEF TypeOK, RoomReads, store, ejabberd
<1>29. ASSUME NEW c \in Calls, NEW g \in GuestIds, LeaveReads(c, g)
      PROVE  TypeOK'
    <2>1. call' \in [Calls -> CallReq]
        BY <1>29, <1>call, <1>guests, BlankTypes DEF LeaveReads, CallReq, CallPcs, Kinds, GuestRow
    <2>2. \A d \in Calls : call'[d].pc \in WithLink => call'[d].link \in 1..issued'
        BY <1>29, <1>call, <1>cl, BlankTypes DEF LeaveReads, CallReq, WithLink
    <2> QED
        BY <1>29, <2>1, <2>2 DEF TypeOK, LeaveReads, store, ejabberd
<1>30. ASSUME NEW s \in Sweeps, NEW r \in Rooms, SweepLooks(s, r)
      PROVE  TypeOK'
    <2>1. sweep' \in [Sweeps -> SweepReq]
        BY <1>30, <1>sweep, BlankTypes DEF SweepLooks, SweepReq, SweepPcs, Onward
    <2> QED
        BY <1>30, <2>1 DEF TypeOK, SweepLooks, store, ejabberd
<1>31. ASSUME NEW s \in Sweeps, SweepDropsGuests(s)
      PROVE  TypeOK'
    <2>1. sweep' \in [Sweeps -> SweepReq]
        BY <1>31, <1>sweep, BlankTypes DEF SweepDropsGuests, SweepReq, SweepPcs, Onward
    <2>2. guests' \in [GuestIds -> GuestRow]
        BY <1>31, <1>guests, BlankTypes DEF SweepDropsGuests
    <2> QED
        BY <1>31, <2>1, <2>2 DEF TypeOK, SweepDropsGuests, store, ejabberd
<1>32. ASSUME NEW s \in Sweeps, SweepDropsRoom(s)
      PROVE  TypeOK'
    <2>1. sweep' \in [Sweeps -> SweepReq]
        BY <1>32, <1>sweep, BlankTypes DEF SweepDropsRoom, SweepReq, SweepPcs, Onward
    <2>2. ext' \in [Rooms -> ExtRow]
        BY <1>32, <1>ext, BlankTypes DEF SweepDropsRoom
    <2>3. \A q \in Rooms : ext'[q].st # "none" => ext'[q].link \in 1..issued'
        BY <1>32, <1>ext, <1>rl, <1>sweep DEF SweepDropsRoom, NoExt, SweepReq
    <2> QED
        BY <1>32, <2>1, <2>2, <2>3 DEF TypeOK, SweepDropsRoom, store, ejabberd
<1>33. CASE RoundStarts
    <2>1. sweep' \in [Sweeps -> SweepReq]
        BY <1>33, <1>sweep DEF RoundStarts, SweepReq, SweepPcs, RoundRooms, Sweeps
    <2> QED
        BY <1>33, <2>1 DEF TypeOK, RoundStarts, store, ejabberd
<1>34. ASSUME NEW s \in Polls, NEW g \in GuestIds, PollFails(s, g)
      PROVE  TypeOK'
    <2>1. sweep' \in [Sweeps -> SweepReq]
        BY <1>34, <1>sweep, <1>gt DEF PollFails, SweepReq, SweepPcs, Sweeps
    <2> QED
        BY <1>34, <2>1 DEF TypeOK, PollFails, store, ejabberd
<1>35. ASSUME NEW r \in Rooms, DestroyRoom(r)
      PROVE  TypeOK'
    <2>1. muc' \in [Rooms -> {"none", "alive", "destroyed"}]
        BY <1>35, <1>muc DEF DestroyRoom
    <2>2. aff' \in [Rooms -> [Users \cup GuestIds -> Affiliation]]
        BY <1>35, <1>aff DEF DestroyRoom, Affiliation
    <2>3. subs' \in SUBSET (Rooms \X GuestIds)
        BY <1>35, <1>subs DEF DestroyRoom
    <2> QED
        BY <1>35, <2>1, <2>2, <2>3 DEF TypeOK, DestroyRoom, store, ejabberd
<1>36. ASSUME NEW r \in Rooms, NEW u \in Users, AddOperator(r, u)
      PROVE  TypeOK'
    <2>1. aff' \in [Rooms -> [Users \cup GuestIds -> Affiliation]]
        BY <1>36, <1>aff DEF AddOperator, Affiliation
    <2> QED
        BY <1>36, <2>1 DEF TypeOK, AddOperator, store, ejabberd
<1>37. ASSUME NEW r \in Rooms, NEW u \in Users, NEW v \in Users, PassOwnership(r, u, v)
      PROVE  TypeOK'
    <2>1. aff' \in [Rooms -> [Users \cup GuestIds -> Affiliation]]
        BY <1>37, <1>aff DEF PassOwnership, Affiliation
    <2> QED
        BY <1>37, <2>1 DEF TypeOK, PassOwnership, store, ejabberd
<1>38. ASSUME NEW r \in Rooms, LinkExpires(r)
      PROVE  TypeOK'
    <2>1. ext' \in [Rooms -> ExtRow]
        BY <1>38, <1>ext DEF LinkExpires, ExtRow
    <2>2. \A q \in Rooms : ext'[q].st # "none" => ext'[q].link \in 1..issued'
        BY <1>38, <1>ext, <1>rl DEF LinkExpires, ExtRow
    <2> QED
        BY <1>38, <2>1, <2>2 DEF TypeOK, LinkExpires, store, ejabberd
<1>39. CASE Restart
    <2>1. lock' \in [Rooms -> Joins \cup {Nobody}]
        BY <1>39 DEF Restart
    <2>2. join' \in [Joins -> JoinReq]
        BY <1>39, BlankTypes DEF Restart
    <2>3. call' \in [Calls -> CallReq]
        BY <1>39, BlankTypes DEF Restart
    <2>4. sweep' \in [Sweeps -> SweepReq]
        BY <1>39, BlankTypes DEF Restart
    <2>5. \A d \in Calls : call'[d].pc \in WithLink => call'[d].link \in 1..issued'
        BY <1>39 DEF Restart, CallIdle, WithLink
    <2>6. restarts' \in 0..MaxRestarts
        BY <1>39, <1>restarts, GuestAssumption DEF Restart
    <2> QED
        BY <1>39, <2>1, <2>2, <2>3, <2>4, <2>5, <2>6 DEF TypeOK, Restart, store, ejabberd
<1>40. CASE UNCHANGED vars
    BY <1>40 DEF TypeOK, vars
<1> QED
    BY <1>1, <1>2, <1>3, <1>4, <1>5, <1>6, <1>7, <1>8, <1>9, <1>10, <1>11, <1>12, <1>13, <1>14, <1>15, <1>16, <1>17, <1>18, <1>19, <1>20, <1>21, <1>22, <1>23, <1>24, <1>25, <1>26, <1>27, <1>28, <1>29, <1>30, <1>31, <1>32, <1>33, <1>34, <1>35, <1>36, <1>37, <1>38, <1>39, <1>40
    DEF Next, JoinBegins, JoinSteps, CallBegins, CallSteps, SweepBegins, SweepSteps, Environment

\* The gateway's tables, ejabberd's rooms and every request stay well formed.
THEOREM TypeCorrect == Spec => []TypeOK
    BY InitTypeOK, NextTypeOK, PTL DEF Spec
=============================================================================
