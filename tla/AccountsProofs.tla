--------------------------- MODULE AccountsProofs ---------------------------
(***************************************************************************)
(* Accounts, for any number of accounts and groups: a group is never left  *)
(* without an owner, a retired account is out of every group, and none is  *)
(* retired before the grace period is over.                                *)
(***************************************************************************)
EXTENDS Accounts, FiniteSetTheorems, TLAPS

-----------------------------------------------------------------------------
(* The inductive invariant.                                                *)

Leaving == {"rooms"} \cup Window

\* The account and the room a step of retire or leaveRoom is about.
RoundOK ==
    /\ round.at \in Leaving => round.user \in Users
    /\ round.at \in Leaving => users[round.user].since > Grace
    /\ round.at \in Window => round.room \in Rooms
    /\ round.at = "heir" => round.heir \in Users \ {round.user}
    /\ round.at \notin Window => round.room = NoRoom
    /\ \A u \in round.todo : users[u].seen /\ gone[u] >= 0
    /\ round.at \in Leaving => users[round.user].seen

\* From the reading of the affiliations, or the handing over, to the leaving.
OtherOwner ==
    round.at \in {"unsubscribe", "leave"} /\ round.room \in muc \ late =>
        \E o \in Users \ {round.user} : aff[round.room][o] = "owner"

\* A room that does not exist has nobody in it.
EmptyWhenGone == \A r \in Rooms \ muc : \A u \in Users : aff[r][u] = "none"

\* Whoever is in a room has its subscription, by which retire finds it.
Subscribed ==
    \A u \in Users \ lapsed : \A r \in Rooms :
        aff[r][u] = "none" \/ <<r, u>> \in subs
            \/ (round.at = "leave" /\ round.user = u /\ round.room = r)

\* What is left of the rooms of the account being retired.
StillToLeave ==
    \A r \in Rooms : round.user \in Users \ lapsed /\ <<r, round.user>> \in subs =>
        r \in round.rooms \/ (r = round.room /\ round.at \in {"destroy", "heir", "unsubscribe"})

\* The marks of an account are those of a row.
MarkedIsSeen == \A u \in Users : users[u].inactive \/ users[u].since > 0 => users[u].seen

\* An account has been gone for as long as its row says.
GoneSince == \A u \in Users \ lapsed : users[u].since > 0 => gone[u] >= users[u].since - 1

Inv ==
    /\ Types /\ RoundOK
    /\ RoomHasOwner /\ OtherOwner
    /\ EmptyWhenGone /\ Subscribed /\ StillToLeave /\ RetiredIsOut
    /\ MarkedIsSeen /\ GoneSince
IInv == Inv /\ Counts

-----------------------------------------------------------------------------
\* Leave: someone leaves the CTI: the invariant says nothing of it.
LEMMA LeaveStep == ASSUME Inv, NEW u \in Users, Leave(u) PROVE Inv'
<1>1. Types'
  BY DEF Inv, Types, Leave, server, history
<1>2. RoundOK' /\ RoomHasOwner' /\ OtherOwner' /\ EmptyWhenGone'
  BY DEF Inv, RoundOK, RoomHasOwner, Owners, OtherOwner, EmptyWhenGone, Leave, server, history
<1>3. Subscribed' /\ StillToLeave' /\ RetiredIsOut' /\ MarkedIsSeen' /\ GoneSince'
  BY DEF Inv, Subscribed, StillToLeave, RetiredIsOut, MarkedIsSeen, GoneSince, Leave, server,
     history
<1> QED BY <1>1, <1>2, <1>3 DEF Inv

\* Return: someone returns to the CTI.
LEMMA ReturnStep == ASSUME Inv, NEW u \in Users, Return(u) PROVE Inv'
<1>1. Types'
  BY DEF Inv, Types, Return, server, history
<1>2. RoundOK' /\ RoomHasOwner' /\ OtherOwner' /\ EmptyWhenGone'
  BY DEF Inv, RoundOK, RoomHasOwner, Owners, OtherOwner, EmptyWhenGone, Return, server, history
<1>3. Subscribed' /\ StillToLeave' /\ RetiredIsOut' /\ MarkedIsSeen' /\ GoneSince'
  BY DEF Inv, Subscribed, StillToLeave, RetiredIsOut, MarkedIsSeen, GoneSince, Return, server,
     history
<1> QED BY <1>1, <1>2, <1>3 DEF Inv

\* SeenUser: a new row has no marks.
LEMMA SeenUserStep == ASSUME Inv, NEW u \in Users, SeenUser(u) PROVE Inv'
<1>1. Types'
  <2>1. users' \in [Users -> Row]
    BY AccountsAssumption DEF Inv, Types, Row, SeenUser
  <2> QED BY <2>1 DEF Inv, Types, SeenUser, server, history
<1>2. RoundOK'
  BY AccountsAssumption DEF Inv, RoundOK, Types, RoundState, Row, Leaving, Window, SeenUser,
     server, history
<1>3. RoomHasOwner'
  BY AccountsAssumption DEF Inv, RoomHasOwner, Types, RoundState, Owners, SeenUser, server, history
<1>4. OtherOwner'
  BY AccountsAssumption DEF Inv, OtherOwner, Types, RoundState, RoomHasOwner, Owners, RoundOK,
     Window, Leaving, SeenUser, server, history
<1>5. EmptyWhenGone'
  BY AccountsAssumption DEF Inv, EmptyWhenGone, Types, RoundState, SeenUser, server, history
<1>6. Subscribed'
  BY AccountsAssumption DEF Inv, Subscribed, Types, RoundState, EmptyWhenGone, SeenUser, server,
     history
<1>7. StillToLeave'
  BY AccountsAssumption DEF Inv, StillToLeave, Types, RoundState, SeenUser, server, history
<1>8. RetiredIsOut'
  BY AccountsAssumption DEF Inv, RetiredIsOut, Types, RoundState, Row, MarkedIsSeen,
     EmptyWhenGone, SeenUser, server, history
<1>9. MarkedIsSeen'
  BY AccountsAssumption DEF Inv, MarkedIsSeen, Types, RoundState, Row, RoundOK, Leaving, Window,
     SeenUser, server, history
<1>10. GoneSince'
  BY AccountsAssumption DEF Inv, GoneSince, Types, RoundState, Row, RoundOK, Leaving, Window,
     SeenUser, server, history
<1> QED BY <1>1, <1>2, <1>3, <1>4, <1>5, <1>6, <1>7, <1>8, <1>9, <1>10 DEF Inv

\* Fetch: the cached list is compared only by Reconcile.
LEMMA FetchStep == ASSUME Inv, Fetch PROVE Inv'
<1>1. Types'
  BY DEF Inv, Types, Fetch, server, history
<1>2. RoundOK' /\ RoomHasOwner' /\ OtherOwner' /\ EmptyWhenGone'
  BY DEF Inv, RoundOK, RoomHasOwner, Owners, OtherOwner, EmptyWhenGone, Fetch, server, history
<1>3. Subscribed' /\ StillToLeave' /\ RetiredIsOut' /\ MarkedIsSeen' /\ GoneSince'
  BY DEF Inv, Subscribed, StillToLeave, RetiredIsOut, MarkedIsSeen, GoneSince, Fetch, server,
     history
<1> QED BY <1>1, <1>2, <1>3 DEF Inv

\* Tick: row and history grow older together.
LEMMA TickStep == ASSUME Inv, Tick PROVE Inv'
<1>1. Types'
  <2>1. \A u \in Users : [users[u] EXCEPT !.since = Older(@)] \in Row
    BY AccountsAssumption DEF Inv, Types, Row, Older
  <2>2. users' \in [Users -> Row]
    BY <2>1 DEF Tick
  <2>3. gone' \in [Users -> -1..Grace]
    BY AccountsAssumption DEF Inv, Types, Tick
  <2> QED
    BY <2>2, <2>3 DEF Inv, Types, Tick, server
<1>2. RoundOK'
  BY AccountsAssumption DEF Inv, RoundOK, Types, RoundState, Row, Leaving, Window, Tick, server,
     history, Older
<1>3. RoomHasOwner'
  BY AccountsAssumption DEF Inv, RoomHasOwner, Types, RoundState, Owners, Tick, server, history,
     Older
<1>4. OtherOwner'
  BY AccountsAssumption DEF Inv, OtherOwner, Types, RoundState, RoomHasOwner, Owners, RoundOK,
     Window, Leaving, Tick, server, history, Older
<1>5. EmptyWhenGone'
  BY AccountsAssumption DEF Inv, EmptyWhenGone, Types, RoundState, Tick, server, history, Older
<1>6. Subscribed'
  BY AccountsAssumption DEF Inv, Subscribed, Types, RoundState, EmptyWhenGone, Tick, server,
     history, Older
<1>7. StillToLeave'
  BY AccountsAssumption DEF Inv, StillToLeave, Types, RoundState, Tick, server, history, Older
<1>8. RetiredIsOut'
  BY AccountsAssumption DEF Inv, RetiredIsOut, Types, RoundState, Row, MarkedIsSeen,
     EmptyWhenGone, Tick, server, history, Older
<1>9. MarkedIsSeen'
  <2> SUFFICES ASSUME NEW u \in Users, users'[u].inactive \/ users'[u].since > 0
               PROVE  users'[u].seen
    BY DEF MarkedIsSeen
  <2>1. users'[u] = [users[u] EXCEPT !.since = Older(@)] /\ users[u] \in Row
    BY DEF Inv, Types, Tick
  <2>2. users[u].since > 0 \/ users'[u].since = 0
    BY <2>1, AccountsAssumption DEF Row, Older
  <2>3. users[u].inactive \/ users[u].since > 0
    BY <2>1, <2>2 DEF Row
  <2>4. users[u].seen
    BY <2>3 DEF Inv, MarkedIsSeen
  <2> QED BY <2>1, <2>4 DEF Row
<1>10. GoneSince'
  BY AccountsAssumption DEF Inv, GoneSince, Types, RoundState, Row, RoundOK, Leaving, Window,
     Tick, server, history, Older
<1> QED BY <1>1, <1>2, <1>3, <1>4, <1>5, <1>6, <1>7, <1>8, <1>9, <1>10 DEF Inv

\* Restart: the round is gone; the account it was retiring may be half out of its groups.
LEMMA RestartStep == ASSUME Inv, Restart PROVE Inv'
<1>1. Types'
  BY AccountsAssumption DEF Inv, Types, RoundState, Row, Steps, Window, Restart, server, history,
     Idle
<1>2. RoundOK'
  BY AccountsAssumption DEF Inv, RoundOK, Types, RoundState, Row, Leaving, Window, Restart,
     server, history, Idle
<1>3. RoomHasOwner'
  BY AccountsAssumption DEF Inv, RoomHasOwner, Types, RoundState, Owners, Restart, server,
     history, Idle
<1>4. OtherOwner'
  BY AccountsAssumption DEF Inv, OtherOwner, Types, RoundState, RoomHasOwner, Owners, RoundOK,
     Window, Leaving, Restart, server, history, Idle
<1>5. EmptyWhenGone'
  BY AccountsAssumption DEF Inv, EmptyWhenGone, Types, RoundState, Restart, server, history, Idle
<1>6. Subscribed'
  BY AccountsAssumption DEF Inv, Subscribed, Types, RoundState, EmptyWhenGone, Restart, server,
     history, Idle
<1>7. StillToLeave'
  BY AccountsAssumption DEF Inv, StillToLeave, Types, RoundState, Restart, server, history, Idle
<1>8. RetiredIsOut'
  BY AccountsAssumption DEF Inv, RetiredIsOut, Types, RoundState, Row, MarkedIsSeen,
     EmptyWhenGone, Restart, server, history, Idle
<1>9. MarkedIsSeen'
  BY AccountsAssumption DEF Inv, MarkedIsSeen, Types, RoundState, Row, RoundOK, Leaving, Window,
     Restart, server, history, Idle
<1>10. GoneSince'
  BY AccountsAssumption DEF Inv, GoneSince, Types, RoundState, Row, RoundOK, Leaving, Window,
     Restart, server, history, Idle
<1> QED BY <1>1, <1>2, <1>3, <1>4, <1>5, <1>6, <1>7, <1>8, <1>9, <1>10 DEF Inv

\* CreateRoom: a new group has its owner; one made by the account being retired is late.
LEMMA CreateRoomStep == ASSUME Inv, NEW r \in Rooms, NEW u \in Users, CreateRoom(r, u) PROVE Inv'
<1>1. Types'
  BY AccountsAssumption DEF Inv, Types, RoundState, Row, Steps, Window, CreateRoom, server,
     history, Put, Behind, Away
<1>2. RoundOK'
  BY AccountsAssumption DEF Inv, RoundOK, Types, RoundState, Row, Leaving, Window, CreateRoom,
     server, history, Put, Behind, Away
<1>3. RoomHasOwner'
  BY AccountsAssumption DEF Inv, RoomHasOwner, Types, RoundState, Owners, CreateRoom, server,
     history, Put, Behind, Away
<1>4. OtherOwner'
  BY AccountsAssumption DEF Inv, OtherOwner, Types, RoundState, RoomHasOwner, Owners, RoundOK,
     Window, Leaving, CreateRoom, server, history, Put, Behind, Away
<1>5. EmptyWhenGone'
  BY AccountsAssumption DEF Inv, EmptyWhenGone, Types, RoundState, CreateRoom, server, history,
     Put, Behind, Away
<1>6. Subscribed'
  BY AccountsAssumption DEF Inv, Subscribed, Types, RoundState, EmptyWhenGone, CreateRoom,
     server, history, Put, Behind, Away
<1>7. StillToLeave'
  BY AccountsAssumption DEF Inv, StillToLeave, Types, RoundState, CreateRoom, server, history,
     Put, Behind, Away
<1>8. RetiredIsOut'
  BY AccountsAssumption DEF Inv, RetiredIsOut, Types, RoundState, Row, MarkedIsSeen,
     EmptyWhenGone, CreateRoom, server, history, Put, Behind, Away
<1>9. MarkedIsSeen'
  BY AccountsAssumption DEF Inv, MarkedIsSeen, Types, RoundState, Row, RoundOK, Leaving, Window,
     CreateRoom, server, history, Put, Behind, Away
<1>10. GoneSince'
  BY AccountsAssumption DEF Inv, GoneSince, Types, RoundState, Row, RoundOK, Leaving, Window,
     CreateRoom, server, history, Put, Behind, Away
<1> QED BY <1>1, <1>2, <1>3, <1>4, <1>5, <1>6, <1>7, <1>8, <1>9, <1>10 DEF Inv

\* AddMember: a new member has its subscription.
LEMMA AddMemberStep == ASSUME Inv, NEW r \in Rooms, NEW u \in Users, AddMember(r, u) PROVE Inv'
<1>1. Types'
  BY AccountsAssumption DEF Inv, Types, RoundState, Row, Steps, Window, AddMember, server,
     history, Put, Away
<1>2. RoundOK'
  BY AccountsAssumption DEF Inv, RoundOK, Types, RoundState, Row, Leaving, Window, AddMember,
     server, history, Put, Away
<1>3. RoomHasOwner'
  BY AccountsAssumption DEF Inv, RoomHasOwner, Types, RoundState, Owners, AddMember, server,
     history, Put, Away
<1>4. OtherOwner'
  BY AccountsAssumption DEF Inv, OtherOwner, Types, RoundState, RoomHasOwner, Owners, RoundOK,
     Window, Leaving, AddMember, server, history, Put, Away
<1>5. EmptyWhenGone'
  BY AccountsAssumption DEF Inv, EmptyWhenGone, Types, RoundState, AddMember, server, history,
     Put, Away
<1>6. Subscribed'
  <2> SUFFICES ASSUME NEW v \in Users \ lapsed', NEW s \in Rooms
               PROVE  \/ aff'[s][v] = "none" \/ <<s, v>> \in subs'
                      \/ (round'.at = "leave" /\ round'.user = v /\ round'.room = s)
    BY DEF Subscribed
  <2>1. v \notin lapsed /\ round' = round
    BY DEF AddMember, Put
  <2>2. CASE s = r /\ v = u
    <3>1. <<r, u>> \in subs'
      BY <2>1, <2>2 DEF Inv, Types, Subscribed, AddMember, Put
    <3> QED BY <2>2, <3>1
  <2>3. CASE ~(s = r /\ v = u)
    <3>1. aff'[s][v] = aff[s][v] /\ subs \subseteq subs'
      BY <2>3 DEF Inv, Types, AddMember
    <3> QED BY <2>1, <3>1 DEF Inv, Subscribed
  <2> QED BY <2>2, <2>3
<1>7. StillToLeave'
  BY AccountsAssumption DEF Inv, StillToLeave, Types, RoundState, AddMember, server, history,
     Put, Away
<1>8. RetiredIsOut'
  BY AccountsAssumption DEF Inv, RetiredIsOut, Types, RoundState, Row, MarkedIsSeen,
     EmptyWhenGone, AddMember, server, history, Put, Away
<1>9. MarkedIsSeen'
  BY AccountsAssumption DEF Inv, MarkedIsSeen, Types, RoundState, Row, RoundOK, Leaving, Window,
     AddMember, server, history, Put, Away
<1>10. GoneSince'
  BY AccountsAssumption DEF Inv, GoneSince, Types, RoundState, Row, RoundOK, Leaving, Window,
     AddMember, server, history, Put, Away
<1> QED BY <1>1, <1>2, <1>3, <1>4, <1>5, <1>6, <1>7, <1>8, <1>9, <1>10 DEF Inv

\* MemberLeaves: an owner leaves only while there is another; behind the round's back it is late.
LEMMA MemberLeavesStep == ASSUME Inv, NEW r \in Rooms, NEW u \in Users, MemberLeaves(r, u) PROVE Inv'
<1>1. Types'
  BY AccountsAssumption DEF Inv, Types, RoundState, Row, Steps, Window, MemberLeaves, server,
     history, Behind
<1>2. RoundOK'
  BY AccountsAssumption DEF Inv, RoundOK, Types, RoundState, Row, Leaving, Window, MemberLeaves,
     server, history, Behind
<1>3. RoomHasOwner'
  BY AccountsAssumption DEF Inv, RoomHasOwner, Types, RoundState, Owners, MemberLeaves, server,
     history, Behind
<1>4. OtherOwner'
  BY AccountsAssumption DEF Inv, OtherOwner, Types, RoundState, RoomHasOwner, Owners, RoundOK,
     Window, Leaving, MemberLeaves, server, history, Behind
<1>5. EmptyWhenGone'
  BY AccountsAssumption DEF Inv, EmptyWhenGone, Types, RoundState, MemberLeaves, server, history,
     Behind
<1>6. Subscribed'
  BY AccountsAssumption DEF Inv, Subscribed, Types, RoundState, EmptyWhenGone, MemberLeaves,
     server, history, Behind
<1>7. StillToLeave'
  BY AccountsAssumption DEF Inv, StillToLeave, Types, RoundState, MemberLeaves, server, history,
     Behind
<1>8. RetiredIsOut'
  BY AccountsAssumption DEF Inv, RetiredIsOut, Types, RoundState, Row, MarkedIsSeen,
     EmptyWhenGone, MemberLeaves, server, history, Behind
<1>9. MarkedIsSeen'
  BY AccountsAssumption DEF Inv, MarkedIsSeen, Types, RoundState, Row, RoundOK, Leaving, Window,
     MemberLeaves, server, history, Behind
<1>10. GoneSince'
  BY AccountsAssumption DEF Inv, GoneSince, Types, RoundState, Row, RoundOK, Leaving, Window,
     MemberLeaves, server, history, Behind
<1> QED BY <1>1, <1>2, <1>3, <1>4, <1>5, <1>6, <1>7, <1>8, <1>9, <1>10 DEF Inv

\* AddOwner: one owner more.
LEMMA AddOwnerStep == ASSUME Inv, NEW r \in Rooms, NEW u \in Users, AddOwner(r, u) PROVE Inv'
<1>1. Types'
  BY AccountsAssumption DEF Inv, Types, RoundState, Row, Steps, Window, AddOwner, server,
     history, Put, Behind, Away
<1>2. RoundOK'
  BY AccountsAssumption DEF Inv, RoundOK, Types, RoundState, Row, Leaving, Window, AddOwner,
     server, history, Put, Behind, Away
<1>3. RoomHasOwner'
  BY AccountsAssumption DEF Inv, RoomHasOwner, Types, RoundState, Owners, AddOwner, server,
     history, Put, Behind, Away
<1>4. OtherOwner'
  BY AccountsAssumption DEF Inv, OtherOwner, Types, RoundState, RoomHasOwner, Owners, RoundOK,
     Window, Leaving, AddOwner, server, history, Put, Behind, Away
<1>5. EmptyWhenGone'
  BY AccountsAssumption DEF Inv, EmptyWhenGone, Types, RoundState, AddOwner, server, history,
     Put, Behind, Away
<1>6. Subscribed'
  <2> SUFFICES ASSUME NEW v \in Users \ lapsed', NEW s \in Rooms
               PROVE  \/ aff'[s][v] = "none" \/ <<s, v>> \in subs'
                      \/ (round'.at = "leave" /\ round'.user = v /\ round'.room = s)
    BY DEF Subscribed
  <2>1. v \notin lapsed /\ round' = round
    BY DEF AddOwner, Put, Behind
  <2>2. CASE s = r /\ v = u
    <3>1. <<r, u>> \in subs'
      BY <2>1, <2>2 DEF Inv, Types, Subscribed, AddOwner, Put
    <3> QED BY <2>2, <3>1
  <2>3. CASE ~(s = r /\ v = u)
    <3>1. aff'[s][v] = aff[s][v] /\ subs \subseteq subs'
      BY <2>3 DEF Inv, Types, AddOwner
    <3> QED BY <2>1, <3>1 DEF Inv, Subscribed
  <2> QED BY <2>2, <2>3
<1>7. StillToLeave'
  BY AccountsAssumption DEF Inv, StillToLeave, Types, RoundState, AddOwner, server, history, Put,
     Behind, Away
<1>8. RetiredIsOut'
  BY AccountsAssumption DEF Inv, RetiredIsOut, Types, RoundState, Row, MarkedIsSeen,
     EmptyWhenGone, AddOwner, server, history, Put, Behind, Away
<1>9. MarkedIsSeen'
  BY AccountsAssumption DEF Inv, MarkedIsSeen, Types, RoundState, Row, RoundOK, Leaving, Window,
     AddOwner, server, history, Put, Behind, Away
<1>10. GoneSince'
  BY AccountsAssumption DEF Inv, GoneSince, Types, RoundState, Row, RoundOK, Leaving, Window,
     AddOwner, server, history, Put, Behind, Away
<1> QED BY <1>1, <1>2, <1>3, <1>4, <1>5, <1>6, <1>7, <1>8, <1>9, <1>10 DEF Inv

\* DestroyRoom: a group destroyed has nobody in it.
LEMMA DestroyRoomStep == ASSUME Inv, NEW r \in Rooms, DestroyRoom(r) PROVE Inv'
<1>1. Types'
  BY AccountsAssumption DEF Inv, Types, RoundState, Row, Steps, Window, DestroyRoom, server,
     history, Destroyed
<1>2. RoundOK'
  BY AccountsAssumption DEF Inv, RoundOK, Types, RoundState, Row, Leaving, Window, DestroyRoom,
     server, history, Destroyed
<1>3. RoomHasOwner'
  BY AccountsAssumption DEF Inv, RoomHasOwner, Types, RoundState, Owners, DestroyRoom, server,
     history, Destroyed
<1>4. OtherOwner'
  BY AccountsAssumption DEF Inv, OtherOwner, Types, RoundState, RoomHasOwner, Owners, RoundOK,
     Window, Leaving, DestroyRoom, server, history, Destroyed
<1>5. EmptyWhenGone'
  BY AccountsAssumption DEF Inv, EmptyWhenGone, Types, RoundState, DestroyRoom, server, history,
     Destroyed
<1>6. Subscribed'
  BY AccountsAssumption DEF Inv, Subscribed, Types, RoundState, EmptyWhenGone, DestroyRoom,
     server, history, Destroyed
<1>7. StillToLeave'
  BY AccountsAssumption DEF Inv, StillToLeave, Types, RoundState, DestroyRoom, server, history,
     Destroyed
<1>8. RetiredIsOut'
  BY AccountsAssumption DEF Inv, RetiredIsOut, Types, RoundState, Row, MarkedIsSeen,
     EmptyWhenGone, DestroyRoom, server, history, Destroyed
<1>9. MarkedIsSeen'
  BY AccountsAssumption DEF Inv, MarkedIsSeen, Types, RoundState, Row, RoundOK, Leaving, Window,
     DestroyRoom, server, history, Destroyed
<1>10. GoneSince'
  BY AccountsAssumption DEF Inv, GoneSince, Types, RoundState, Row, RoundOK, Leaving, Window,
     DestroyRoom, server, history, Destroyed
<1> QED BY <1>1, <1>2, <1>3, <1>4, <1>5, <1>6, <1>7, <1>8, <1>9, <1>10 DEF Inv

\* Reconcile: whoever is listed loses its marks, or the failure is recorded; the others have been gone one list longer.
LEMMA ReconcileStep == ASSUME Inv, Reconcile PROVE Inv'
<1> DEFINE back == {u \in Listed \cap Users : Away(u)}
           missing == Active \ Listed
<1>1. round.at = "idle" /\ UNCHANGED <<cti, aff, muc, subs, late>>
  BY DEF Reconcile, server
<1>2. list' \subseteq Users /\ fresh' \in BOOLEAN
  BY DEF Inv, Types, Reconcile, Listed
<1>3. /\ gone' \in [Users -> -1..Grace]
      /\ \A u \in Users : gone'[u] = IF u \in Listed THEN -1 ELSE IF gone[u] = -1 THEN 0 ELSE gone[u]
  BY AccountsAssumption DEF Inv, Types, Reconcile
<1>4. PICK failed \in SUBSET back : users' = Told(back \ failed) /\ lapsed' = lapsed \cup failed
  BY DEF Reconcile
<1>5. /\ users' \in [Users -> Row]
      /\ \A u \in Users : /\ users'[u].seen = users[u].seen
                         /\ IF u \in back \ failed
                            THEN users'[u].since = 0 /\ users'[u].inactive = FALSE
                            ELSE users'[u] = users[u]
  <2> DEFINE T == back \ failed
  <2>1. users' = Told(T)
    BY <1>4
  <2> HIDE DEF T
  <2>2. Types
    BY DEF Inv
  <2>3. \A u \in Users : users'[u] = IF u \in T THEN [users[u] EXCEPT !.since = 0, !.inactive = FALSE] ELSE users[u]
    BY <2>1 DEF Told
  <2>4. \A u \in Users : [users[u] EXCEPT !.since = 0, !.inactive = FALSE] \in Row
    <3> SUFFICES ASSUME NEW u \in Users
                 PROVE  [users[u] EXCEPT !.since = 0, !.inactive = FALSE] \in Row
      OBVIOUS
    <3>1. users[u] \in Row /\ 0 \in 0..Grace + 1
      BY <2>2, AccountsAssumption DEF Types
    <3> QED BY <3>1 DEF Row
  <2>5. users' \in [Users -> Row]
    BY <2>1, <2>2, <2>4 DEF Types, Told
  <2>6. \A u \in Users : LET e == [users[u] EXCEPT !.since = 0, !.inactive = FALSE]
                          IN  e.seen = users[u].seen /\ e.since = 0 /\ e.inactive = FALSE
    BY <2>2 DEF Types, Row
  <2>7. \A u \in Users : IF u \in T THEN users'[u].seen = users[u].seen /\ users'[u].since = 0 /\ users'[u].inactive = FALSE
                                    ELSE users'[u] = users[u]
    BY <2>3, <2>6
  <2> QED BY <2>5, <2>7 DEF T
<1>6. round' = Idle \/ round' = [Idle EXCEPT !.at = "next", !.todo = missing]
  BY DEF Reconcile
<1>7. missing \subseteq Users /\ \A u \in missing : users[u].seen /\ u \notin Listed
  BY DEF Active
<1>8. lapsed \subseteq lapsed' /\ lapsed' \subseteq Users
  BY <1>4 DEF Inv, Types
<1> HIDE DEF missing
<1>9. /\ round' \in RoundState
      /\ round'.at \in {"idle", "next"} /\ round'.todo \subseteq missing
      /\ round'.user = Nobody /\ round'.room = NoRoom
  <2>1. Idle \in RoundState
    BY DEF RoundState, Steps, Idle
  <2>2. CASE round' = Idle
    BY <2>1, <2>2 DEF Idle
  <2>3. CASE round' = [Idle EXCEPT !.at = "next", !.todo = missing]
    BY <1>7, <2>3 DEF RoundState, Steps, Idle
  <2> QED BY <1>6, <2>2, <2>3
<1>10. Types'
  BY <1>1, <1>2, <1>3, <1>5, <1>8, <1>9 DEF Inv, Types
<1>11. RoundOK'
  BY <1>3, <1>5, <1>7, <1>9 DEF Inv, Types, RoundOK, Leaving, Window
<1>12. RoomHasOwner' /\ OtherOwner' /\ EmptyWhenGone'
  BY <1>1, <1>9 DEF Inv, RoomHasOwner, Owners, OtherOwner, EmptyWhenGone
<1>13. Subscribed' /\ StillToLeave'
  BY <1>1, <1>8, <1>9, AccountsAssumption DEF Inv, Subscribed, StillToLeave
<1>14. RetiredIsOut'
  BY <1>1, <1>5, <1>8 DEF Inv, RetiredIsOut
<1>15. MarkedIsSeen'
  BY <1>5 DEF Inv, MarkedIsSeen
<1>16. GoneSince'
  <2> SUFFICES ASSUME NEW u \in Users \ lapsed', users'[u].since > 0
               PROVE  gone'[u] >= users'[u].since - 1
    BY DEF GoneSince
  <2>1. u \notin lapsed /\ users'[u] = users[u]
    BY <1>4, <1>5, <1>8
  <2>2. u \notin Listed
    BY <1>4, <1>5, <2>1 DEF Inv, MarkedIsSeen, Away
  <2>3. users[u].since \in Nat /\ gone[u] \in Int /\ gone[u] >= users[u].since - 1
    BY <2>1, AccountsAssumption DEF Inv, Types, Row, GoneSince
  <2> QED BY <1>3, <2>1, <2>2, <2>3
<1> QED BY <1>10, <1>11, <1>12, <1>13, <1>14, <1>15, <1>16 DEF Inv

\* NoDirectory: nothing is done without a list.
LEMMA NoDirectoryStep == ASSUME Inv, NoDirectory PROVE Inv'
<1>1. Types'
  BY DEF Inv, Types, NoDirectory, server, history
<1>2. RoundOK' /\ RoomHasOwner' /\ OtherOwner' /\ EmptyWhenGone'
  BY DEF Inv, RoundOK, RoomHasOwner, Owners, OtherOwner, EmptyWhenGone, NoDirectory, server, history
<1>3. Subscribed' /\ StillToLeave' /\ RetiredIsOut' /\ MarkedIsSeen' /\ GoneSince'
  BY DEF Inv, Subscribed, StillToLeave, RetiredIsOut, MarkedIsSeen, GoneSince, NoDirectory,
     server, history
<1> QED BY <1>1, <1>2, <1>3 DEF Inv

\* Mark: the grace period of an account starts with a list that lacks it.
LEMMA MarkStep == ASSUME Inv, NEW u \in Users, Mark(u) PROVE Inv'
<1>1. Types'
  <2>1. users' \in [Users -> Row]
    BY AccountsAssumption DEF Inv, Types, Row, Mark
  <2>2. round' \in RoundState
    BY DEF Inv, Types, RoundState, Mark
  <2> QED
    BY <2>1, <2>2 DEF Inv, Types, Mark, server, history
<1>2. RoundOK'
  BY AccountsAssumption DEF Inv, RoundOK, Types, RoundState, Row, Leaving, Window, Mark, server,
     history
<1>3. RoomHasOwner'
  BY AccountsAssumption DEF Inv, RoomHasOwner, Types, RoundState, Owners, Mark, server, history
<1>4. OtherOwner'
  BY AccountsAssumption DEF Inv, OtherOwner, Types, RoundState, RoomHasOwner, Owners, RoundOK,
     Window, Leaving, Mark, server, history
<1>5. EmptyWhenGone'
  BY AccountsAssumption DEF Inv, EmptyWhenGone, Types, RoundState, Mark, server, history
<1>6. Subscribed'
  BY AccountsAssumption DEF Inv, Subscribed, Types, RoundState, EmptyWhenGone, Mark, server, history
<1>7. StillToLeave'
  BY AccountsAssumption DEF Inv, StillToLeave, Types, RoundState, Mark, server, history
<1>8. RetiredIsOut'
  BY AccountsAssumption DEF Inv, RetiredIsOut, Types, RoundState, Row, MarkedIsSeen,
     EmptyWhenGone, Mark, server, history
<1>9. MarkedIsSeen'
  BY AccountsAssumption DEF Inv, MarkedIsSeen, Types, RoundState, Row, RoundOK, Leaving, Window,
     Mark, server, history
<1>10. GoneSince'
  BY AccountsAssumption DEF Inv, GoneSince, Types, RoundState, Row, RoundOK, Leaving, Window,
     Mark, server, history
<1> QED BY <1>1, <1>2, <1>3, <1>4, <1>5, <1>6, <1>7, <1>8, <1>9, <1>10 DEF Inv

\* RoundEnds: the round is over.
LEMMA RoundEndsStep == ASSUME Inv, RoundEnds PROVE Inv'
<1>1. Types'
  BY AccountsAssumption DEF Inv, Types, RoundState, Row, Steps, Window, RoundEnds, server,
     history, Idle
<1>2. RoundOK'
  BY AccountsAssumption DEF Inv, RoundOK, Types, RoundState, Row, Leaving, Window, RoundEnds,
     server, history, Idle
<1>3. RoomHasOwner'
  BY AccountsAssumption DEF Inv, RoomHasOwner, Types, RoundState, Owners, RoundEnds, server,
     history, Idle
<1>4. OtherOwner'
  BY AccountsAssumption DEF Inv, OtherOwner, Types, RoundState, RoomHasOwner, Owners, RoundOK,
     Window, Leaving, RoundEnds, server, history, Idle
<1>5. EmptyWhenGone'
  BY AccountsAssumption DEF Inv, EmptyWhenGone, Types, RoundState, RoundEnds, server, history, Idle
<1>6. Subscribed'
  BY AccountsAssumption DEF Inv, Subscribed, Types, RoundState, EmptyWhenGone, RoundEnds, server,
     history, Idle
<1>7. StillToLeave'
  BY AccountsAssumption DEF Inv, StillToLeave, Types, RoundState, RoundEnds, server, history, Idle
<1>8. RetiredIsOut'
  BY AccountsAssumption DEF Inv, RetiredIsOut, Types, RoundState, Row, MarkedIsSeen,
     EmptyWhenGone, RoundEnds, server, history, Idle
<1>9. MarkedIsSeen'
  BY AccountsAssumption DEF Inv, MarkedIsSeen, Types, RoundState, Row, RoundOK, Leaving, Window,
     RoundEnds, server, history, Idle
<1>10. GoneSince'
  BY AccountsAssumption DEF Inv, GoneSince, Types, RoundState, Row, RoundOK, Leaving, Window,
     RoundEnds, server, history, Idle
<1> QED BY <1>1, <1>2, <1>3, <1>4, <1>5, <1>6, <1>7, <1>8, <1>9, <1>10 DEF Inv

\* Retire: the rooms to leave are those subscribed to.
LEMMA RetireStep == ASSUME Inv, NEW u \in Users, Retire(u) PROVE Inv'
<1>1. /\ u \in round.todo /\ round.at = "next" /\ users[u].since > Grace
      /\ UNCHANGED <<cti, list, fresh, users, aff, muc, subs, gone, lapsed, late>>
  BY DEF Retire, server, history
<1> DEFINE S == {r \in Rooms : <<r, u>> \in subs}
<1>2. S \in SUBSET Rooms
  OBVIOUS
<1>3. \/ round' = [round EXCEPT !.todo = @ \ {u}, !.at = "rooms", !.user = u, !.rooms = S]
      \/ round' = [round EXCEPT !.todo = @ \ {u}]
  BY DEF Retire
<1> HIDE DEF S
<1>4. round' \in RoundState
  BY <1>2, <1>3 DEF Inv, Types, RoundState, Steps
<1>5. \/ /\ round'.at = "rooms" /\ round'.user = u /\ round'.room = round.room
         /\ round'.rooms = S
      \/ /\ round'.at = "next" /\ round'.user = round.user
         /\ round'.rooms = round.rooms /\ round'.room = round.room
  BY <1>1, <1>3 DEF Inv, Types, RoundState
<1>6. round'.todo = round.todo \ {u}
  BY <1>3 DEF Inv, Types, RoundState
<1>7. Types'
  BY <1>1, <1>4 DEF Inv, Types
<1>8. RoundOK'
  BY <1>1, <1>5, <1>6 DEF Inv, Types, RoundState, RoundOK, Leaving, Window
<1>9. OtherOwner' /\ Subscribed'
  BY <1>1, <1>5 DEF Inv, OtherOwner, Subscribed
<1>10. StillToLeave'
  BY <1>1, <1>5 DEF Inv, StillToLeave, S
<1>11. RoomHasOwner' /\ EmptyWhenGone' /\ RetiredIsOut' /\ MarkedIsSeen' /\ GoneSince'
  BY <1>1 DEF Inv, RoomHasOwner, Owners, EmptyWhenGone, RetiredIsOut, MarkedIsSeen, GoneSince
<1> QED BY <1>7, <1>8, <1>9, <1>10, <1>11 DEF Inv

\* LeaveRoom: the room is left at once only when it has another owner.
LEMMA LeaveRoomStep == ASSUME Inv, NEW r \in Rooms, LeaveRoom(r) PROVE Inv'
<1> DEFINE C == Candidates(r, round.user)
           Go(at, heir) == round' = [round EXCEPT !.rooms = @ \ {r}, !.room = r, !.at = at, !.heir = heir]
<1>1. /\ r \in round.rooms /\ r \in muc /\ round.at = "rooms"
      /\ UNCHANGED <<cti, list, fresh, users, aff, muc, subs, gone, lapsed, late>>
  BY DEF LeaveRoom, server, history
<1>2. \/ Owners(r) # {round.user} /\ Go("unsubscribe", Nobody)
      \/ Go("destroy", Nobody)
      \/ \E p \in C : Go("heir", p)
  BY DEF LeaveRoom
<1>3. C \subseteq Users \ {round.user}
  BY DEF Candidates
<1> HIDE DEF C
<1>4. /\ round' \in RoundState
      /\ round'.todo = round.todo /\ round'.user = round.user
      /\ round'.rooms = round.rooms \ {r} /\ round'.room = r
  BY <1>2, <1>3 DEF Inv, Types, RoundState, Steps, Window
<1>5. \/ round'.at = "unsubscribe" /\ Owners(r) # {round.user}
      \/ round'.at = "destroy"
      \/ round'.at = "heir" /\ round'.heir \in Users \ {round.user}
  BY <1>2, <1>3 DEF Inv, Types, RoundState
<1>6. Types'
  BY <1>1, <1>4 DEF Inv, Types
<1>7. RoundOK'
  BY <1>1, <1>4, <1>5 DEF Inv, RoundOK, Leaving, Window
<1>8. OtherOwner'
  <2>1. CASE round'.at = "unsubscribe" /\ r \notin late
    <3>1. Owners(r) # {} /\ Owners(r) # {round.user}
      BY <1>1, <1>5, <2>1 DEF Inv, RoomHasOwner
    <3>2. \E o \in Users \ {round.user} : aff[r][o] = "owner"
      BY <3>1 DEF Owners
    <3> QED BY <1>1, <1>4, <3>2 DEF OtherOwner
  <2> QED BY <1>1, <1>4, <1>5, <2>1 DEF OtherOwner
<1>9. Subscribed'
  BY <1>1, <1>5 DEF Inv, Subscribed
<1>10. StillToLeave'
  BY <1>1, <1>4, <1>5 DEF Inv, StillToLeave
<1>11. RoomHasOwner' /\ EmptyWhenGone' /\ RetiredIsOut' /\ MarkedIsSeen' /\ GoneSince'
  BY <1>1 DEF Inv, RoomHasOwner, Owners, EmptyWhenGone, RetiredIsOut, MarkedIsSeen, GoneSince
<1> QED BY <1>6, <1>7, <1>8, <1>9, <1>10, <1>11 DEF Inv

\* LeaveRoomFails: a room that could not be read is left behind, on record.
LEMMA LeaveRoomFailsStep == ASSUME Inv, NEW r \in Rooms, LeaveRoomFails(r) PROVE Inv'
<1>1. Types'
  <2>1. round' \in RoundState
    BY DEF Inv, Types, RoundState, LeaveRoomFails
  <2>2. lapsed' \subseteq Users
    BY DEF Inv, Types, RoundOK, Leaving, LeaveRoomFails
  <2> QED BY <2>1, <2>2 DEF Inv, Types, LeaveRoomFails, server
<1>2. RoundOK'
  BY AccountsAssumption DEF Inv, RoundOK, Types, RoundState, Row, Leaving, Window,
     LeaveRoomFails, server, history
<1>3. RoomHasOwner'
  BY AccountsAssumption DEF Inv, RoomHasOwner, Types, RoundState, Owners, LeaveRoomFails, server,
     history
<1>4. OtherOwner'
  BY AccountsAssumption DEF Inv, OtherOwner, Types, RoundState, RoomHasOwner, Owners, RoundOK,
     Window, Leaving, LeaveRoomFails, server, history
<1>5. EmptyWhenGone'
  BY AccountsAssumption DEF Inv, EmptyWhenGone, Types, RoundState, LeaveRoomFails, server, history
<1>6. Subscribed'
  BY AccountsAssumption DEF Inv, Subscribed, Types, RoundState, EmptyWhenGone, LeaveRoomFails,
     server, history
<1>7. StillToLeave'
  BY AccountsAssumption DEF Inv, StillToLeave, Types, RoundState, LeaveRoomFails, server, history
<1>8. RetiredIsOut'
  BY AccountsAssumption DEF Inv, RetiredIsOut, Types, RoundState, Row, MarkedIsSeen,
     EmptyWhenGone, LeaveRoomFails, server, history
<1>9. MarkedIsSeen'
  BY AccountsAssumption DEF Inv, MarkedIsSeen, Types, RoundState, Row, RoundOK, Leaving, Window,
     LeaveRoomFails, server, history
<1>10. GoneSince'
  BY AccountsAssumption DEF Inv, GoneSince, Types, RoundState, Row, RoundOK, Leaving, Window,
     LeaveRoomFails, server, history
<1> QED BY <1>1, <1>2, <1>3, <1>4, <1>5, <1>6, <1>7, <1>8, <1>9, <1>10 DEF Inv

\* Destroy: a group without an heir is destroyed.
LEMMA DestroyStep == ASSUME Inv, Destroy PROVE Inv'
<1>1. /\ round.at = "destroy" /\ round.room \in Rooms /\ round.user \in Users
      /\ UNCHANGED <<cti, list, fresh, users, gone, late>>
  BY DEF Inv, RoundOK, Leaving, Window, Destroy
<1>2. \/ Destroyed(round.room) /\ lapsed' \in {lapsed, lapsed \cup {round.user}}
      \/ UNCHANGED <<aff, muc, subs>> /\ lapsed' = lapsed \cup {round.user}
  BY DEF Destroy, RoomFails, server
<1>3. /\ round' \in RoundState
      /\ round'.at = "rooms" /\ round'.room = NoRoom /\ round'.user = round.user
      /\ round'.rooms = round.rooms /\ round'.todo = round.todo
  BY DEF Inv, Types, RoundState, Steps, Destroy, RoomFails
<1>4. /\ muc' \subseteq muc /\ subs' \subseteq subs
      /\ aff' \in [Rooms -> [Users -> {"none", "member", "owner"}]]
      /\ \A r \in Rooms : \/ r \notin muc' /\ \A u \in Users : aff'[r][u] = "none"
                        \/ /\ r \in muc' <=> r \in muc
                           /\ aff'[r] = aff[r]
                           /\ \A u \in Users : <<r, u>> \in subs' <=> <<r, u>> \in subs
  BY <1>1, <1>2 DEF Inv, Types, Destroyed
<1>5. \/ \A u \in Users : <<round.room, u>> \notin subs'
      \/ round.user \in lapsed'
  BY <1>2 DEF Destroyed
<1>6. lapsed \subseteq lapsed' /\ lapsed' \subseteq Users
  BY <1>1, <1>2 DEF Inv, Types
<1>7. Types'
  BY <1>1, <1>3, <1>4, <1>6 DEF Inv, Types
<1>8. RoundOK' /\ OtherOwner'
  BY <1>1, <1>3 DEF Inv, RoundOK, OtherOwner, Leaving, Window
<1>9. RoomHasOwner' /\ EmptyWhenGone'
  BY <1>1, <1>4 DEF Inv, Types, RoomHasOwner, EmptyWhenGone, Owners
<1>10. Subscribed'
  BY <1>1, <1>3, <1>4, <1>6 DEF Inv, Subscribed
<1>11. StillToLeave'
  BY <1>1, <1>3, <1>4, <1>5, <1>6 DEF Inv, StillToLeave
<1>12. RetiredIsOut'
  BY <1>1, <1>4, <1>6 DEF Inv, RetiredIsOut
<1>13. MarkedIsSeen' /\ GoneSince'
  BY <1>1, <1>6 DEF Inv, MarkedIsSeen, GoneSince
<1> QED BY <1>7, <1>8, <1>9, <1>10, <1>11, <1>12, <1>13 DEF Inv

\* HandOver: before the account leaves there is another owner.
LEMMA HandOverStep == ASSUME Inv, HandOver PROVE Inv'
<1> DEFINE Owned == [aff EXCEPT ![round.room][round.heir] = "owner"]
<1>1. /\ round.at = "heir" /\ round.room \in Rooms
      /\ round.user \in Users /\ round.heir \in Users \ {round.user}
      /\ UNCHANGED <<cti, list, fresh, users, muc, subs, gone, late>>
  BY DEF Inv, RoundOK, Leaving, Window, HandOver
<1>2. /\ round' \in RoundState
      /\ round'.at \in {"rooms", "unsubscribe"}
      /\ round'.room = (IF round'.at = "rooms" THEN NoRoom ELSE round.room)
      /\ round'.user = round.user /\ round'.rooms = round.rooms /\ round'.todo = round.todo
  BY DEF Inv, Types, RoundState, Steps, Window, HandOver, RoomFails
<1>3. \/ aff' = aff
      \/ /\ aff' = Owned /\ round.room \in muc
         /\ round.heir \in lapsed' \/ <<round.room, round.heir>> \in subs
  BY DEF HandOver, RoomFails, SetAffiliation
<1>4. \/ round'.at = "rooms" /\ round.user \in lapsed'
      \/ round'.at = "unsubscribe" /\ aff' = Owned
  BY DEF Inv, Types, RoundState, HandOver, RoomFails, SetAffiliation
<1>5. lapsed \subseteq lapsed' /\ lapsed' \subseteq Users
  BY <1>1 DEF Inv, Types, HandOver, RoomFails
<1>6. /\ Owned \in [Rooms -> [Users -> {"none", "member", "owner"}]]
      /\ Owned[round.room][round.heir] = "owner"
      /\ \A r \in Rooms, u \in Users : r # round.room \/ u # round.heir => Owned[r][u] = aff[r][u]
  BY <1>1 DEF Inv, Types
<1> HIDE DEF Owned
<1>7. Types'
  BY <1>1, <1>2, <1>3, <1>5, <1>6 DEF Inv, Types
<1>8. RoundOK'
  BY <1>1, <1>2 DEF Inv, RoundOK, Leaving, Window
<1>9. RoomHasOwner'
  <2>1. \A r \in Rooms, u \in Users : aff[r][u] = "owner" => aff'[r][u] = "owner"
    BY <1>3, <1>6
  <2> QED BY <1>1, <2>1 DEF Inv, Types, RoomHasOwner, Owners
<1>10. OtherOwner'
  BY <1>1, <1>2, <1>4, <1>6 DEF OtherOwner
<1>11. EmptyWhenGone'
  BY <1>1, <1>3, <1>6 DEF Inv, EmptyWhenGone
<1>12. Subscribed'
  BY <1>1, <1>2, <1>3, <1>5, <1>6 DEF Inv, Subscribed
<1>13. StillToLeave'
  BY <1>1, <1>2, <1>4, <1>5 DEF Inv, StillToLeave
<1>14. RetiredIsOut'
  BY <1>1, <1>3, <1>5, <1>6 DEF Inv, RetiredIsOut
<1>15. MarkedIsSeen' /\ GoneSince'
  BY <1>1, <1>5 DEF Inv, MarkedIsSeen, GoneSince
<1> QED BY <1>7, <1>8, <1>9, <1>10, <1>11, <1>12, <1>13, <1>14, <1>15 DEF Inv

\* Unsubscribe: the subscription goes first, then the affiliation.
LEMMA UnsubscribeStep == ASSUME Inv, Unsubscribe PROVE Inv'
<1>1. Types'
  <2>1. round' \in RoundState
    BY DEF Inv, Types, RoundState, Steps, Window, Unsubscribe
  <2>2. lapsed' \subseteq Users /\ subs' \subseteq Rooms \X Users
    BY DEF Inv, Types, RoundOK, Leaving, Window, Unsubscribe
  <2> QED BY <2>1, <2>2 DEF Inv, Types, Unsubscribe
<1>2. RoundOK'
  BY AccountsAssumption DEF Inv, RoundOK, Types, RoundState, Row, Leaving, Window, Unsubscribe,
     server, history
<1>3. RoomHasOwner'
  BY AccountsAssumption DEF Inv, RoomHasOwner, Types, RoundState, Owners, Unsubscribe, server,
     history
<1>4. OtherOwner'
  BY AccountsAssumption DEF Inv, OtherOwner, Types, RoundState, RoomHasOwner, Owners, RoundOK,
     Window, Leaving, Unsubscribe, server, history
<1>5. EmptyWhenGone'
  BY AccountsAssumption DEF Inv, EmptyWhenGone, Types, RoundState, Unsubscribe, server, history
<1>6. Subscribed'
  BY AccountsAssumption DEF Inv, Subscribed, Types, RoundState, EmptyWhenGone, Unsubscribe,
     server, history
<1>7. StillToLeave'
  BY AccountsAssumption DEF Inv, StillToLeave, Types, RoundState, Unsubscribe, server, history
<1>8. RetiredIsOut'
  BY AccountsAssumption DEF Inv, RetiredIsOut, Types, RoundState, Row, MarkedIsSeen,
     EmptyWhenGone, Unsubscribe, server, history
<1>9. MarkedIsSeen'
  BY AccountsAssumption DEF Inv, MarkedIsSeen, Types, RoundState, Row, RoundOK, Leaving, Window,
     Unsubscribe, server, history
<1>10. GoneSince'
  BY AccountsAssumption DEF Inv, GoneSince, Types, RoundState, Row, RoundOK, Leaving, Window,
     Unsubscribe, server, history
<1> QED BY <1>1, <1>2, <1>3, <1>4, <1>5, <1>6, <1>7, <1>8, <1>9, <1>10 DEF Inv

\* Unaffiliate: the other owner remains.
LEMMA UnaffiliateStep == ASSUME Inv, Unaffiliate PROVE Inv'
<1> DEFINE Out == [aff EXCEPT ![round.room][round.user] = "none"]
<1>1. /\ round.at = "leave" /\ round.room \in Rooms /\ round.user \in Users
      /\ UNCHANGED <<cti, list, fresh, users, muc, subs, gone, late>>
  BY DEF Inv, RoundOK, Leaving, Window, Unaffiliate
<1>2. /\ round' \in RoundState
      /\ round'.at = "rooms" /\ round'.room = NoRoom /\ round'.user = round.user
      /\ round'.rooms = round.rooms /\ round'.todo = round.todo
  BY DEF Inv, Types, RoundState, Steps, Unaffiliate
<1>3. \/ aff' = Out /\ round.room \in muc
      \/ aff' = aff /\ (round.room \notin muc \/ round.user \in lapsed')
  BY DEF Unaffiliate, SetAffiliation
<1>4. lapsed \subseteq lapsed' /\ lapsed' \subseteq Users
  BY <1>1 DEF Inv, Types, Unaffiliate
<1>5. /\ Out \in [Rooms -> [Users -> {"none", "member", "owner"}]]
      /\ Out[round.room][round.user] = "none"
      /\ \A r \in Rooms, u \in Users : r # round.room \/ u # round.user => Out[r][u] = aff[r][u]
  BY <1>1 DEF Inv, Types
<1> HIDE DEF Out
<1>6. Types'
  BY <1>1, <1>2, <1>3, <1>4, <1>5 DEF Inv, Types
<1>7. RoundOK' /\ OtherOwner'
  BY <1>1, <1>2 DEF Inv, RoundOK, OtherOwner, Leaving, Window
<1>8. RoomHasOwner'
  <2> SUFFICES ASSUME NEW r \in muc \ late PROVE \E o \in Users : aff'[r][o] = "owner"
    BY <1>1 DEF RoomHasOwner, Owners
  <2>1. r \in Rooms /\ \E o \in Users : aff[r][o] = "owner"
    BY DEF Inv, Types, RoomHasOwner, Owners
  <2>2. CASE r = round.room
    <3>1. PICK o \in Users \ {round.user} : aff[r][o] = "owner"
      BY <1>1, <2>2 DEF Inv, OtherOwner
    <3> QED BY <1>3, <1>5, <2>1, <3>1
  <2> QED BY <1>3, <1>5, <2>1, <2>2
<1>9. EmptyWhenGone'
  BY <1>1, <1>3, <1>5 DEF Inv, EmptyWhenGone
<1>10. Subscribed'
  <2> SUFFICES ASSUME NEW u \in Users \ lapsed', NEW r \in Rooms
               PROVE  aff'[r][u] = "none" \/ <<r, u>> \in subs
    BY <1>1 DEF Subscribed
  <2>1. \/ aff[r][u] = "none" \/ <<r, u>> \in subs
        \/ (round.user = u /\ round.room = r)
    BY <1>4 DEF Inv, Subscribed
  <2>2. CASE round.user = u /\ round.room = r
    BY <1>3, <1>5, <2>2 DEF Inv, EmptyWhenGone
  <2>3. CASE ~(round.user = u /\ round.room = r)
    BY <1>3, <1>5, <2>1, <2>3
  <2> QED BY <2>2, <2>3
<1>11. StillToLeave'
  BY <1>1, <1>2, <1>4 DEF Inv, StillToLeave
<1>12. RetiredIsOut'
  BY <1>1, <1>3, <1>4, <1>5 DEF Inv, RetiredIsOut
<1>13. MarkedIsSeen' /\ GoneSince'
  BY <1>1, <1>4 DEF Inv, MarkedIsSeen, GoneSince
<1> QED BY <1>6, <1>7, <1>8, <1>9, <1>10, <1>11, <1>12, <1>13 DEF Inv

\* SetInactive: with no room left to leave, nothing is left of the subscriptions.
LEMMA SetInactiveStep == ASSUME Inv, SetInactive PROVE Inv'
<1>1. /\ round.at = "rooms" /\ round.rooms = {} /\ round.user \in Users
      /\ UNCHANGED <<cti, list, fresh, aff, muc, subs, gone, lapsed, late>>
  BY DEF Inv, RoundOK, Leaving, SetInactive, server, history
<1>2. /\ round' \in RoundState
      /\ round'.at = "next" /\ round'.todo = round.todo
      /\ round'.user = Nobody /\ round'.room = NoRoom
  BY DEF Inv, Types, RoundState, Steps, SetInactive, Idle
<1>3. users' \in [Users -> Row]
  BY <1>1 DEF Inv, Types, Row, SetInactive
<1>4. \A u \in Users : u # round.user => users'[u] = users[u]
  BY <1>1 DEF Inv, Types, SetInactive
<1>5. users'[round.user].since = users[round.user].since /\ users'[round.user].seen = users[round.user].seen
  BY <1>1 DEF Inv, Types, Row, SetInactive
<1>6. \A u \in Users : users'[u].since = users[u].since /\ (users[u].seen => users'[u].seen)
  BY <1>4, <1>5
<1>7. Types'
  BY <1>1, <1>2, <1>3 DEF Inv, Types
<1>8. RoundOK' /\ OtherOwner'
  <2>1. \A u \in round.todo : u \in Users /\ users[u].seen /\ gone[u] >= 0
    BY DEF Inv, Types, RoundState, RoundOK
  <2>2. round'.at \notin Leaving
    BY <1>2 DEF Leaving, Window
  <2>3. RoundOK'
    BY <1>1, <1>2, <1>6, <2>1, <2>2 DEF RoundOK, Leaving, Window
  <2> QED BY <1>2, <2>3 DEF OtherOwner
<1>9. RoomHasOwner' /\ EmptyWhenGone'
  BY <1>1 DEF Inv, RoomHasOwner, Owners, EmptyWhenGone
<1>10. Subscribed' /\ StillToLeave'
  BY <1>1, <1>2, AccountsAssumption DEF Inv, Subscribed, StillToLeave
<1>11. RetiredIsOut'
  <2>1. ASSUME round.user \notin lapsed, NEW r \in Rooms
        PROVE  aff[r][round.user] = "none" /\ <<r, round.user>> \notin subs
    <3>1. <<r, round.user>> \notin subs
      BY <1>1, <2>1 DEF Inv, StillToLeave
    <3>2. aff[r][round.user] = "none" \/ <<r, round.user>> \in subs
      BY <1>1, <2>1 DEF Inv, Subscribed
    <3> QED BY <3>1, <3>2
  <2> SUFFICES ASSUME NEW u \in Users \ lapsed, users'[u].inactive, NEW r \in Rooms
               PROVE  aff[r][u] = "none" /\ <<r, u>> \notin subs
    BY <1>1 DEF RetiredIsOut
  <2>2. CASE u = round.user
    BY <2>1, <2>2
  <2>3. CASE u # round.user
    BY <1>4, <2>3 DEF Inv, RetiredIsOut
  <2> QED BY <2>2, <2>3
<1>12. MarkedIsSeen' /\ GoneSince'
  <2>1. users[round.user].seen
    BY <1>1 DEF Inv, RoundOK, Leaving
  <2>2. MarkedIsSeen'
    BY <1>4, <1>6, <2>1 DEF Inv, MarkedIsSeen
  <2>3. GoneSince'
    BY <1>1, <1>6 DEF Inv, GoneSince
  <2> QED BY <2>2, <2>3
<1> QED BY <1>7, <1>8, <1>9, <1>10, <1>11, <1>12 DEF Inv

-----------------------------------------------------------------------------
(* The theorems.                                                           *)

\* The empty table and no rooms.
LEMMA InitIInv == Init => IInv
<1> SUFFICES ASSUME Init PROVE IInv
  OBVIOUS
<1>1. Types /\ Counts
  <2>1. Idle \in RoundState
    BY DEF RoundState, Steps, Idle
  <2>2. users \in [Users -> Row] /\ gone \in [Users -> -1..Grace]
    BY AccountsAssumption DEF Init, Row
  <2>3. aff \in [Rooms -> [Users -> {"none", "member", "owner"}]]
    BY DEF Init
  <2>4. changes \in 0..MaxChanges /\ moves \in 0..MaxMoves
    BY AccountsAssumption DEF Init
  <2>5. Types
    BY <2>1, <2>2, <2>3 DEF Init, Types
  <2> QED BY <2>4, <2>5 DEF Counts
<1>2. RoundOK /\ RoomHasOwner /\ OtherOwner /\ EmptyWhenGone
  BY DEF Init, RoundOK, RoomHasOwner, Owners, OtherOwner, EmptyWhenGone, Idle, Leaving, Window
<1>3. Subscribed /\ StillToLeave /\ RetiredIsOut /\ MarkedIsSeen /\ GoneSince
  BY DEF Init, Subscribed, StillToLeave, RetiredIsOut, MarkedIsSeen, GoneSince, Idle
<1> QED BY <1>1, <1>2, <1>3 DEF IInv, Inv

\* One case per action, each with its lemma above.
LEMMA NextIInv == IInv /\ [Next]_vars => IInv'
<1> SUFFICES ASSUME IInv, [Next]_vars PROVE IInv'
  OBVIOUS
<1>1. Inv
  BY DEF IInv
<1>2. CASE UNCHANGED vars
  <2>1. Types'
    BY <1>1, <1>2 DEF Inv, Types, vars, server, history
  <2>2. RoundOK' /\ RoomHasOwner' /\ OtherOwner' /\ EmptyWhenGone'
    BY <1>1, <1>2 DEF Inv, RoundOK, RoomHasOwner, Owners, OtherOwner, EmptyWhenGone, vars,
       server, history
  <2>3. Subscribed' /\ StillToLeave' /\ RetiredIsOut' /\ MarkedIsSeen' /\ GoneSince'
    BY <1>1, <1>2 DEF Inv, Subscribed, StillToLeave, RetiredIsOut, MarkedIsSeen, GoneSince, vars,
       server, history
  <2>4. Counts'
    BY <1>2 DEF IInv, Counts, vars
  <2> QED BY <2>1, <2>2, <2>3, <2>4 DEF IInv, Inv
<1>3. CASE Next
  <2>1. Counts'
    BY <1>3, AccountsAssumption DEF IInv, Counts, Next
  <2>2. Inv'
    <3>1. CASE \E u \in Users : Leave(u) \/ Return(u) \/ SeenUser(u)
      BY <1>1, <3>1, LeaveStep, ReturnStep, SeenUserStep
    <3>2. CASE Fetch \/ Tick \/ Restart
      BY <1>1, <3>2, FetchStep, TickStep, RestartStep
    <3>3. CASE Clients
      BY <1>1, <3>3, CreateRoomStep, AddMemberStep, MemberLeavesStep, AddOwnerStep, DestroyRoomStep
         DEF Clients
    <3>4. CASE RoundSteps
      <4>1. CASE Reconcile \/ NoDirectory \/ RoundEnds
        BY <1>1, <4>1, ReconcileStep, NoDirectoryStep, RoundEndsStep
      <4>2. CASE \E u \in Users : Mark(u) \/ Retire(u)
        BY <1>1, <4>2, MarkStep, RetireStep
      <4>3. CASE \E r \in Rooms : LeaveRoom(r) \/ LeaveRoomFails(r)
        BY <1>1, <4>3, LeaveRoomStep, LeaveRoomFailsStep
      <4>4. CASE Destroy \/ HandOver \/ Unsubscribe \/ Unaffiliate \/ SetInactive
        BY <1>1, <4>4, DestroyStep, HandOverStep, UnsubscribeStep, UnaffiliateStep, SetInactiveStep
      <4> QED BY <3>4, <4>1, <4>2, <4>3, <4>4 DEF RoundSteps
    <3> QED BY <1>3, <3>1, <3>2, <3>3, <3>4 DEF Next
  <2> QED BY <2>1, <2>2 DEF IInv
<1> QED BY <1>2, <1>3

\* The invariant is inductive.
LEMMA AlwaysIInv == Spec => []IInv
BY InitIInv, NextIInv, PTL DEF Spec

\* Whatever the number of accounts and groups, the table, the rooms, the cached list and
\* the round of Reconcile keep their types.
THEOREM TypesKept == Spec => []TypeOK
<1>1. IInv => TypeOK
  BY DEF IInv, Inv, TypeOK
<1> QED BY <1>1, AlwaysIInv, PTL

\* leaveRoom never leaves a group without an owner, for any number of accounts and groups
\* and any failures and restarts, but where a client moves the ownership in its window.
THEOREM GroupsKeepAnOwner == Spec => []RoomHasOwner
<1>1. IInv => RoomHasOwner
  BY DEF IInv, Inv
<1> QED BY <1>1, AlwaysIInv, PTL

\* An account that retire marked inactive is out of every group, unless a call failed or a
\* client put it back.
THEOREM RetiredLeaveTheirGroups == Spec => []RetiredIsOut
<1>1. IInv => RetiredIsOut
  BY DEF IInv, Inv
<1> QED BY <1>1, AlwaysIInv, PTL

\* Reconcile retires no account before every list compared has lacked it for the whole
\* grace period, whatever its length.
THEOREM GraceIsGranted == Spec => NotRetiredEarly
<1> DEFINE Early == \A u \in Users \ lapsed :
                       users'[u].inactive /\ ~users[u].inactive => gone[u] >= Grace
<1>1. ASSUME IInv, [Next]_vars PROVE [Early]_vars
  <2> SUFFICES ASSUME Next, NEW u \in Users \ lapsed, users'[u].inactive, ~users[u].inactive
               PROVE  gone[u] >= Grace
    BY <1>1
  <2>1. users[u] \in Row /\ users \in [Users -> Row]
    BY <1>1 DEF IInv, Inv, Types
  <2>2. CASE SetInactive
    <3>1. round.at = "rooms" /\ u = round.user
      BY <2>1, <2>2 DEF SetInactive
    <3>2. users[u].since > Grace /\ users[u].since \in Nat /\ gone[u] \in Int
      BY <1>1, <2>1, <3>1, AccountsAssumption DEF IInv, Inv, RoundOK, Leaving, Types, Row
    <3>3. gone[u] >= users[u].since - 1
      BY <1>1, <3>2, AccountsAssumption DEF IInv, Inv, GoneSince
    <3> QED BY <3>2, <3>3, AccountsAssumption
  <2>3. CASE ~SetInactive
    <3>1. CASE \E v \in Users : Leave(v) \/ Return(v) \/ SeenUser(v) \/ Mark(v) \/ Retire(v)
      BY <2>1, <3>1 DEF Leave, Return, SeenUser, Mark, Retire, Row
    <3>2. CASE Tick \/ Fetch \/ Restart
      BY <2>1, <3>2 DEF Tick, Fetch, Restart, Row
    <3>3. CASE Clients
      BY <3>3 DEF Clients, CreateRoom, AddMember, MemberLeaves, AddOwner, DestroyRoom
    <3>4. CASE Reconcile
      <4>1. PICK T : users' = Told(T)
        BY <3>4 DEF Reconcile
      <4> QED BY <2>1, <4>1 DEF Told, Row
    <3>5. CASE \/ NoDirectory \/ RoundEnds \/ Destroy \/ HandOver \/ Unsubscribe \/ Unaffiliate
               \/ \E r \in Rooms : LeaveRoom(r) \/ LeaveRoomFails(r)
      BY <3>5 DEF NoDirectory, RoundEnds, Destroy, HandOver, Unsubscribe, Unaffiliate, LeaveRoom,
         LeaveRoomFails
    <3> QED BY <2>3, <3>1, <3>2, <3>3, <3>4, <3>5 DEF Next, RoundSteps
  <2> QED BY <2>2, <2>3
<1> QED BY <1>1, AlwaysIInv, PTL DEF Spec, NotRetiredEarly

-----------------------------------------------------------------------------
(***************************************************************************)
(* MostStay.  While a round is under way the accounts it may still mark or *)
(* retire count as marked: with them, those marked are few all along.      *)
(***************************************************************************)

Few(S, A) == Cardinality(S) <= 2 \/ Cardinality(S) * 2 <= Cardinality(A)

Marked == {u \in Active \ lapsed : users[u].since > 0}

\* What the round has in hand: the account it retires, and the missing to go through.
InHand == round.todo \cup (IF round.at \in Leaving THEN {round.user} ELSE {})

InHandIsActive ==
    /\ InHand \subseteq Active
    /\ round.at \in Leaving => round.user \notin round.todo
    /\ round.at = "idle" => round.todo = {}

FewMarked == InHandIsActive /\ Few(Marked \cup InHand, Active)

\* Fewer marked, more active.
LEMMA FewOfMore ==
    ASSUME NEW S, NEW S2 \in SUBSET S, NEW A2, NEW A \in SUBSET A2,
           IsFiniteSet(S), IsFiniteSet(A2), Few(S, A)
    PROVE  Few(S2, A2)
<1>1. /\ Cardinality(S2) <= Cardinality(S) /\ Cardinality(S2) \in Nat /\ Cardinality(S) \in Nat
      /\ Cardinality(A) <= Cardinality(A2) /\ Cardinality(A) \in Nat /\ Cardinality(A2) \in Nat
  BY FS_Subset, FS_CardinalityType
<1> QED BY <1>1 DEF Few

\* One of the marked is active no more.
LEMMA FewWithoutOne ==
    ASSUME NEW S, NEW A, NEW u \in S, u \in A, IsFiniteSet(S), IsFiniteSet(A), Few(S, A)
    PROVE  Few(S \ {u}, A \ {u})
<1>1. /\ Cardinality(S \ {u}) = Cardinality(S) - 1 /\ Cardinality(S) \in Nat
      /\ Cardinality(A \ {u}) = Cardinality(A) - 1 /\ Cardinality(A) \in Nat
  BY FS_RemoveElement, FS_CardinalityType
<1> QED BY <1>1 DEF Few

LEMMA FiniteParts ==
    ASSUME Inv
    PROVE  /\ IsFiniteSet(Active) /\ IsFiniteSet(Marked \cup InHand)
           /\ Active \subseteq Users /\ Marked \cup InHand \subseteq Users
<1>1. Active \subseteq Users /\ Marked \cup InHand \subseteq Users
  BY DEF Inv, Types, RoundState, RoundOK, Active, Marked, InHand
<1> QED BY <1>1, AccountsAssumption, FS_Subset

LEMMA ActiveFinite == IsFiniteSet(Active) /\ IsFiniteSet(Active')
<1>1. Active \in SUBSET Users /\ Active' \in SUBSET Users
  BY DEF Active
<1> QED BY <1>1, AccountsAssumption, FS_Subset

\* A step that marks nobody and retires nobody.
LEMMA FewKept ==
    ASSUME Inv, Inv', FewMarked, Marked' \cup InHand' \subseteq Marked \cup InHand,
           Active \subseteq Active', InHandIsActive'
    PROVE  FewMarked'
<1>1. IsFiniteSet(Marked \cup InHand) /\ IsFiniteSet(Active')
  BY FiniteParts, ActiveFinite
<1>2. Few((Marked \cup InHand)', Active')
  BY <1>1, FewOfMore DEF FewMarked
<1> QED BY <1>2 DEF FewMarked

\* Such are all steps that leave the table and the round as they are.
LEMMA FewUnchanged ==
    ASSUME Inv, Inv', FewMarked, UNCHANGED <<users, round>>, lapsed \subseteq lapsed'
    PROVE  FewMarked'
<1>1. Active' = Active /\ InHand' = InHand /\ Marked' \subseteq Marked
  BY DEF Active, InHand, Marked
<1>2. InHandIsActive'
  BY <1>1 DEF FewMarked, InHandIsActive
<1> QED BY <1>1, <1>2, FewKept

\* And those of leaveRoom: the account in hand stays the same one.
LEMMA FewLeaving ==
    ASSUME Inv, Inv', FewMarked, UNCHANGED users, lapsed \subseteq lapsed',
           round.at \in Leaving, round'.at \in Leaving,
           round'.user = round.user, round'.todo = round.todo
    PROVE  FewMarked'
<1>1. Active' = Active /\ InHand' = InHand /\ Marked' \subseteq Marked
  BY DEF Active, InHand, Marked
<1>2. InHandIsActive'
  BY <1>1 DEF FewMarked, InHandIsActive, Leaving, Window
<1> QED BY <1>1, <1>2, FewKept

\* Whoever is back is marked no longer, and the missing are few or left alone.
LEMMA FewReconcile == ASSUME Inv, Inv', FewMarked, Reconcile PROVE FewMarked'
<1> DEFINE back == {u \in Listed \cap Users : Away(u)}
           missing == Active \ Listed
<1>1. PICK failed \in SUBSET back : users' = Told(back \ failed) /\ lapsed' = lapsed \cup failed
  BY DEF Reconcile
<1>2. \A u \in Users : /\ u \notin back \ failed => users'[u] = users[u]
                       /\ u \in back \ failed => /\ users'[u].since = 0 /\ ~users'[u].inactive
                                                 /\ users'[u].seen = users[u].seen
  BY <1>1 DEF Told, Inv, Types, Row
<1>3. Active \subseteq Active'
  BY <1>2 DEF Active
<1>4. Marked' \subseteq Marked \cap missing
  <2> SUFFICES ASSUME NEW u \in Marked' PROVE u \in Marked /\ u \in missing
    OBVIOUS
  <2>1. /\ u \in Users /\ u \notin lapsed /\ u \notin failed /\ users'[u].since > 0
        /\ users'[u].seen /\ ~users'[u].inactive
    BY <1>1 DEF Marked, Active
  <2>2. u \notin back \ failed
    BY <2>1, <1>2
  <2>3. users'[u] = users[u] /\ u \notin back
    BY <2>1, <2>2, <1>2
  <2> QED BY <2>1, <2>3 DEF Marked, Active, Away
<1>5. CASE round' = Idle
  <2>1. InHand' = {} /\ InHandIsActive'
    BY <1>5 DEF InHand, InHandIsActive, Idle, Leaving, Window
  <2> QED BY <1>3, <1>4, <2>1, FewKept
<1>6. CASE /\ round' = [Idle EXCEPT !.at = "next", !.todo = missing]
           /\ ~TooMany(Cardinality(missing), Cardinality(Active))
  <2>1. InHand' = missing /\ InHandIsActive'
    BY <1>3, <1>6 DEF InHand, InHandIsActive, Idle, Leaving, Window
  <2>2. Few(missing, Active)
    <3>1. Cardinality(missing) \in Nat /\ Cardinality(Active) \in Nat
      BY FiniteParts, FS_Subset, FS_CardinalityType
    <3> QED BY <1>6, <3>1 DEF Few, TooMany
  <2>3. IsFiniteSet(missing) /\ IsFiniteSet(Active')
    BY ActiveFinite, FS_Subset
  <2>4. Few((Marked \cup InHand)', Active')
    BY <1>3, <1>4, <2>1, <2>2, <2>3, FewOfMore
  <2> QED BY <2>1, <2>4 DEF FewMarked
<1> QED BY <1>5, <1>6 DEF Reconcile

\* The account marked was in hand.
LEMMA FewMark == ASSUME Inv, Inv', FewMarked, NEW u \in Users, Mark(u) \/ Retire(u) PROVE FewMarked'
<1>0. users \in [Users -> Row] /\ round \in RoundState /\ lapsed' = lapsed
  BY DEF Inv, Types, Mark, Retire, history
<1>1. /\ \A v \in Users : /\ users'[v].seen = users[v].seen /\ users'[v].inactive = users[v].inactive
                          /\ v # u => users'[v] = users[v]
      /\ u \in round.todo /\ round.at = "next"
  BY <1>0 DEF Mark, Retire, Row
<1>2. Active' = Active /\ u \in Active
  BY <1>1 DEF Active, FewMarked, InHandIsActive, InHand
<1>3. /\ round'.todo = round.todo \ {u}
      /\ round'.at = "next" \/ (round'.at = "rooms" /\ round'.user = u)
  BY <1>0, <1>1 DEF Mark, Retire, RoundState
<1>4. InHand' \subseteq InHand
  BY <1>1, <1>3 DEF InHand, Leaving, Window
<1>5. InHandIsActive'
  BY <1>2, <1>3, <1>4 DEF InHandIsActive, FewMarked, Leaving, Window
<1>6. Marked' \subseteq Marked \cup InHand
  BY <1>0, <1>1, <1>2 DEF Marked, InHand, Active
<1> QED BY <1>2, <1>4, <1>5, <1>6, FewKept

\* The account retired was marked or in hand, and is one of the active no more.
LEMMA FewSetInactive == ASSUME Inv, Inv', FewMarked, SetInactive PROVE FewMarked'
<1> DEFINE u == round.user
<1>0. /\ users \in [Users -> Row] /\ round \in RoundState /\ lapsed' = lapsed
      /\ round.at \in Leaving /\ u \in Users
  BY DEF Inv, Types, RoundOK, SetInactive, history, Leaving
<1>1. u \in InHand /\ u \in Active /\ u \notin round.todo
  BY <1>0 DEF InHand, FewMarked, InHandIsActive
<1>2. round'.at = "next" /\ round'.todo = round.todo /\ InHand' = InHand \ {u}
  BY <1>0, <1>1 DEF SetInactive, Idle, InHand, Leaving, Window
<1>3. CASE UNCHANGED users
  <2>1. Active' = Active /\ Marked' = Marked
    BY <1>0, <1>3 DEF Active, Marked
  <2>2. InHandIsActive'
    BY <1>2, <2>1 DEF FewMarked, InHandIsActive, Leaving, Window
  <2> QED BY <1>2, <2>1, <2>2, FewKept
<1>4. CASE users' = [users EXCEPT ![u].inactive = TRUE]
  <2>1. /\ \A v \in Users : v # u => users'[v] = users[v]
        /\ users'[u].inactive
    BY <1>0, <1>4 DEF Row
  <2>2. Active' = Active \ {u}
    BY <2>1, <1>0 DEF Active
  <2>3. Marked' \cup InHand' \subseteq (Marked \cup InHand) \ {u}
    BY <2>1, <2>2, <1>0, <1>2 DEF Marked, Active
  <2>4. InHandIsActive'
    BY <1>2, <2>2 DEF FewMarked, InHandIsActive, Leaving, Window
  <2>5. Few((Marked \cup InHand) \ {u}, Active \ {u})
    BY <1>1, FiniteParts, FewWithoutOne DEF FewMarked
  <2>6. IsFiniteSet((Marked \cup InHand) \ {u}) /\ IsFiniteSet(Active')
    BY FiniteParts, ActiveFinite, FS_Subset
  <2>7. Few((Marked \cup InHand)', Active')
    BY <2>2, <2>3, <2>5, <2>6, FewOfMore
  <2> QED BY <2>4, <2>7 DEF FewMarked
<1> QED BY <1>3, <1>4 DEF SetInactive

LEMMA FewNext == ASSUME Inv, Inv', FewMarked, [Next]_vars PROVE FewMarked'
<1>t. Types
  BY DEF Inv
<1>1. CASE \/ \E u \in Users : Leave(u) \/ Return(u)
           \/ Clients \/ Fetch \/ NoDirectory \/ UNCHANGED vars
  <2>1. UNCHANGED <<users, round>> /\ lapsed \subseteq lapsed'
    BY <1>1 DEF Leave, Return, Clients, CreateRoom, AddMember, MemberLeaves, AddOwner, DestroyRoom,
       Put, Fetch, NoDirectory, vars, history
  <2> QED BY <2>1, FewUnchanged
<1>2. CASE \E u \in Users : SeenUser(u)
  <2>1. PICK u \in Users : SeenUser(u)
    BY <1>2
  <2>2. /\ \A v \in Users : v # u => users'[v] = users[v]
        /\ ~users[u].seen /\ users'[u].since = users[u].since
        /\ UNCHANGED <<round, lapsed>>
    BY <1>t, <2>1 DEF SeenUser, Types, Row, history
  <2>3. users[u].since \in Nat /\ ~(users[u].since > 0)
    BY <1>t, <2>2, AccountsAssumption DEF Inv, MarkedIsSeen, Types, Row
  <2>4. Active \subseteq Active' /\ Marked' \subseteq Marked /\ InHand' = InHand
    BY <2>2, <2>3 DEF Active, Marked, InHand
  <2>5. InHandIsActive'
    BY <2>2, <2>4 DEF FewMarked, InHandIsActive
  <2> QED BY <2>4, <2>5, FewKept
<1>3. CASE Tick
  <2>1. /\ \A v \in Users : /\ users'[v].seen = users[v].seen
                            /\ users'[v].inactive = users[v].inactive
                            /\ users'[v].since = Older(users[v].since)
        /\ UNCHANGED <<round, lapsed>>
    BY <1>t, <1>3 DEF Tick, Types, Row
  <2>2. \A v \in Users : Older(users[v].since) > 0 => users[v].since > 0
    BY <1>t, AccountsAssumption DEF Older, Types, Row
  <2>3. Active' = Active /\ Marked' \subseteq Marked /\ InHand' = InHand
    BY <2>1, <2>2 DEF Active, Marked, InHand
  <2>4. InHandIsActive'
    BY <2>1, <2>3 DEF FewMarked, InHandIsActive
  <2> QED BY <2>3, <2>4, FewKept
<1>4. CASE Restart \/ RoundEnds
  <2>1. UNCHANGED users /\ lapsed \subseteq lapsed' /\ round' = Idle
    BY <1>4 DEF Restart, RoundEnds, history
  <2>2. Active' = Active /\ Marked' \subseteq Marked /\ InHand' = {} /\ InHandIsActive'
    BY <2>1 DEF Active, Marked, InHand, InHandIsActive, Idle, Leaving, Window
  <2> QED BY <2>2, FewKept
<1>5. CASE \/ \E r \in Rooms : LeaveRoom(r) \/ LeaveRoomFails(r)
           \/ Destroy \/ HandOver \/ Unsubscribe \/ Unaffiliate
  <2>1. /\ UNCHANGED users /\ lapsed \subseteq lapsed'
        /\ round.at \in Leaving /\ round'.at \in Leaving
        /\ round'.user = round.user /\ round'.todo = round.todo
    BY <1>t, <1>5 DEF LeaveRoom, LeaveRoomFails, Destroy, HandOver, Unsubscribe, Unaffiliate,
       RoomFails, Leaving, Window, history, Types, RoundState
  <2> QED BY <2>1, FewLeaving
<1> QED BY <1>1, <1>2, <1>3, <1>4, <1>5, FewReconcile, FewMark, FewSetInactive DEF Next, RoundSteps

\* The accounts Reconcile has marked missing and not retired yet never are more than
\* two or than half of the active ones, over any sequence of rounds, whatever the
\* directory answers and however many accounts there are.  Those retired before do not
\* count.
THEOREM FewAreMarkedAtOnce == Spec => []MostStay
<1>1. Init => FewMarked
  <2> SUFFICES ASSUME Init PROVE FewMarked
    OBVIOUS
  <2>1. Active = {} /\ Marked = {} /\ InHand = {}
    BY DEF Init, Active, Marked, InHand, Idle, Leaving, Window
  <2>2. InHandIsActive
    BY <2>1 DEF InHandIsActive, Init, Idle, Leaving, Window
  <2> QED BY <2>1, <2>2, FS_EmptySet DEF FewMarked, Few
<1>2. IInv /\ IInv' /\ FewMarked /\ [Next]_vars => FewMarked'
  BY FewNext DEF IInv
<1>3. IInv /\ FewMarked => MostStay
  <2> SUFFICES ASSUME Inv, FewMarked PROVE MostStay
    BY DEF IInv
  <2>1. Few(Marked, Active)
    BY FiniteParts, FewOfMore DEF FewMarked
  <2> QED BY <2>1 DEF MostStay, Few, Marked
<1> QED BY <1>1, <1>2, <1>3, AlwaysIInv, PTL DEF Spec
=============================================================================
