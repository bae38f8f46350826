------------------------------ MODULE Accounts ------------------------------
(***************************************************************************)
(* The accounts of the chat and the ten-minute round that retires those    *)
(* gone from the CTI: Reconcile, retire and leaveRoom                      *)
(* (ejabberd/internal/api/reconcile.go), the table users                   *)
(* (internal/store/store.go) and the cached CTI user list                  *)
(* (internal/api/middleware.go).                                           *)
(*                                                                         *)
(* Reconcile starts with DropGoneExtRooms, which GuestRooms.tla has, and   *)
(* disconnects who is missing, which is not modelled: nor are the push     *)
(* registrations SetInactive deletes.  Users are the people of the CTI who *)
(* may chat; it has others, so its list is not empty when all of them left.*)
(*                                                                         *)
(* The round is one goroutine.  Its steps are its calls to ejabberd and    *)
(* its statements on the store; between them the clients change the rooms  *)
(* and people enter and leave the CTI.  Any call may fail, one to ejabberd *)
(* with or without its effect, and the gateway may restart at any point.   *)
(*                                                                         *)
(* A tick is a part of the grace period: a round, two minutes at the most, *)
(* lies between two.  missing_since is kept as the ticks that passed since *)
(* it was written, plus one, up to the grace period; 0 is 0.               *)
(***************************************************************************)
EXTENDS Integers, FiniteSets

CONSTANTS
    Users,    \* CTI users who may use the chat
    Rooms,    \* groups made by hand
    Added,    \* Added[r][u]: when u was added to r, as the reason says; 0 when unknown
    NameLess(_, _), \* the order of the names
    Grace,    \* ticks in the grace period
    MaxLapsed, \* bound: accounts whose retirement or return goes wrong
    MaxChanges,\* bound: people leaving the CTI and returning
    MaxMoves   \* bound: what clients do to the groups

Nobody == "nobody"
NoRoom == "no room"

ASSUME AccountsAssumption ==
    /\ IsFiniteSet(Users)
    /\ Nobody \notin Users /\ NoRoom \notin Rooms
    /\ Added \in [Rooms -> [Users -> Nat]]
    /\ Grace \in Nat \ {0} /\ MaxLapsed \in Nat /\ MaxChanges \in Nat /\ MaxMoves \in Nat

VARIABLES
    cti,      \* who is in the CTI
    list,     \* Middleware.users: the user list, fetched less than ten minutes ago;
    fresh,    \* ... there is one
    users,    \* table users
    aff,      \* ejabberd: affiliations, by room
    muc,      \* ejabberd: the rooms that exist
    subs,     \* ejabberd: subscriptions, <<room, user>>
    round,    \* the round under way
    changes,  \* people who left the CTI or returned so far
    moves,    \* what clients did so far
    gone,     \* history: ticks since the first of the lists, each compared, that lack u; -1: the last has u
    lapsed,   \* history: accounts whose retirement or return was not recorded whole
    late      \* history: rooms whose owners a client changed under the round's feet

server == <<aff, muc, subs>>
history == <<gone, lapsed, late>>
vars == <<cti, list, fresh, users, server, round, changes, moves, history>>

-----------------------------------------------------------------------------
Row == [seen: BOOLEAN, since: 0..Grace + 1, inactive: BOOLEAN]

Away(u) == users[u].seen /\ (users[u].since > 0 \/ users[u].inactive)
Active == {u \in Users : users[u].seen /\ ~users[u].inactive}
Owners(r) == {p \in Users : aff[r][p] = "owner"}

Idle == [at |-> "idle", todo |-> {}, user |-> Nobody, rooms |-> {}, room |-> NoRoom, heir |-> Nobody]

Init ==
    /\ cti = Users /\ list = {} /\ fresh = FALSE
    /\ users = [u \in Users |-> [seen |-> FALSE, since |-> 0, inactive |-> FALSE]]
    /\ aff = [r \in Rooms |-> [p \in Users |-> "none"]]
    /\ muc = {} /\ subs = {}
    /\ round = Idle /\ changes = 0 /\ moves = 0
    /\ gone = [u \in Users |-> -1] /\ lapsed = {} /\ late = {}

-----------------------------------------------------------------------------
(* Users, their clients and the clock.                                    *)

\* An administrator removes a user of the CTI, or adds it (again).
Leave(u) ==
    /\ cti' = cti \ {u} /\ u \in cti
    /\ UNCHANGED <<list, fresh, users, server, round, history>>

Return(u) ==
    /\ cti' = cti \cup {u} /\ u \notin cti
    /\ UNCHANGED <<list, fresh, users, server, round, history>>

\* WhoAmI: a valid token.  An account seen before keeps its marks.
SeenUser(u) ==
    /\ u \in cti /\ ~users[u].seen
    /\ users' = [users EXCEPT ![u].seen = TRUE]
    /\ UNCHANGED <<cti, list, fresh, server, round, history>>

\* Whoever needs the list, a push with its fifteen seconds included, has it read again.
Fetch ==
    /\ list' = cti /\ fresh' = TRUE
    /\ UNCHANGED <<cti, users, server, round, history>>

\* Mutant: the time missing has no end.
MutOlder(n) == IF n > 0 THEN n + 1 ELSE n

Older(n) == IF n \in 1..Grace THEN n + 1 ELSE n
Tick ==
    /\ round.at = "idle"
    /\ users' = [u \in Users |-> [users[u] EXCEPT !.since = Older(@)]]
    /\ gone' = [u \in Users |-> IF gone[u] \in 0..Grace - 1 THEN gone[u] + 1 ELSE gone[u]]
    /\ list' = {} /\ fresh' = FALSE
    /\ UNCHANGED <<cti, server, round, lapsed, late>>

\* An account put in a room while it is away, or being retired, may stay in it.
Put(u) == lapsed' = IF Away(u) \/ u = round.user THEN lapsed \cup {u} ELSE lapsed
\* The round has read the affiliations of r and not left it yet, and what a client
\* does may make the account it retires the only owner.
Window == {"destroy", "heir", "unsubscribe", "leave"}
Behind(r, sole) == late' = IF sole /\ round.room = r /\ round.at \in Window THEN late \cup {r} ELSE late

CreateRoom(r, u) ==
    /\ u \in cti /\ r \notin muc
    /\ muc' = muc \cup {r}
    /\ aff' = [aff EXCEPT ![r] = [p \in Users |-> IF p = u THEN "owner" ELSE "none"]]
    /\ subs' = subs \cup {<<r, u>>}
    /\ Put(u) /\ Behind(r, u = round.user)
    /\ UNCHANGED <<cti, list, fresh, users, round, gone>>

\* The owner's client adds a colleague.
AddMember(r, u) ==
    /\ u \in cti /\ r \in muc /\ aff[r][u] = "none"
    /\ aff' = [aff EXCEPT ![r][u] = "member"]
    /\ subs' = subs \cup {<<r, u>>}
    /\ Put(u)
    /\ UNCHANGED <<cti, list, fresh, users, muc, round, gone, late>>

\* A member leaves; an owner only while there is another.
MemberLeaves(r, u) ==
    /\ r \in muc /\ aff[r][u] # "none" /\ Owners(r) # {u}
    /\ aff' = [aff EXCEPT ![r][u] = "none"]
    /\ subs' = subs \ {<<r, u>>}
    /\ Behind(r, aff[r][u] = "owner" /\ u # round.user)
    /\ UNCHANGED <<cti, list, fresh, users, muc, round, gone, lapsed>>

\* An owner makes another one.
AddOwner(r, u) ==
    /\ u \in cti /\ r \in muc /\ aff[r][u] = "member" /\ Owners(r) \cap cti # {}
    /\ aff' = [aff EXCEPT ![r][u] = "owner"]
    /\ Put(u) /\ Behind(r, u = round.user)
    /\ UNCHANGED <<cti, list, fresh, users, muc, subs, round, gone>>

Destroyed(r) ==
    /\ muc' = muc \ {r}
    /\ aff' = [aff EXCEPT ![r] = [p \in Users |-> "none"]]
    /\ subs' = {s \in subs : s[1] # r}

DestroyRoom(r) ==
    /\ r \in muc /\ Owners(r) \cap cti # {}
    /\ Destroyed(r)
    /\ UNCHANGED <<cti, list, fresh, users, round, history>>

-----------------------------------------------------------------------------
(* The round.                                                              *)

\* The list in the cache when it is fresh, or what the CTI answers.
Listed == IF fresh THEN list ELSE cti

\* Mutant: one more account must be missing.
MutTooMany(missing, active) == missing > 3 /\ missing * 2 > active

\* len(missing) > 2 && len(missing)*2 > active
TooMany(missing, active) == missing > 2 /\ missing * 2 > active

\* Mutant: an account that is back is active again and keeps its missing_since.
MutTold(back) == [u \in Users |-> IF u \in back THEN [users[u] EXCEPT !.inactive = FALSE] ELSE users[u]]

\* SetPresent(u): it may fail, and nobody looks.
Told(back) == [u \in Users |-> IF u \in back THEN [users[u] EXCEPT !.since = 0, !.inactive = FALSE] ELSE users[u]]

\* The comparison.  The statements that record who is back, one row each, touch nothing
\* the others read: they are one step, failed the ones that fail.
Reconcile ==
    /\ round.at = "idle"
    /\ list' = Listed /\ fresh' = TRUE
    /\ LET back == {u \in Listed \cap Users : Away(u)}
           missing == Active \ Listed
       IN  /\ \E failed \in SUBSET back :
                 /\ users' = Told(back \ failed)
                 /\ lapsed' = lapsed \cup failed
           /\ gone' = [u \in Users |-> IF u \in Listed THEN -1
                                       ELSE IF gone[u] = -1 THEN 0 ELSE gone[u]]
           /\ round' = IF missing = {} \/ TooMany(Cardinality(missing), Cardinality(Active))
                       THEN Idle ELSE [Idle EXCEPT !.at = "next", !.todo = missing]
    /\ UNCHANGED <<cti, server, late>>

\* The user list: an error, no token seen yet, or nobody in it.  Nothing is done.
NoDirectory ==
    /\ round.at = "idle" /\ ~fresh
    /\ UNCHANGED <<cti, list, fresh, users, server, round, history>>

\* One of the missing: marked, or still in its grace period.
Mark(u) ==
    /\ round.at = "next" /\ u \in round.todo
    /\ users[u].since \in 0..Grace
    /\ \E ok \in BOOLEAN :
          users' = IF users[u].since = 0 /\ ok THEN [users EXCEPT ![u].since = 1] ELSE users
    /\ round' = [round EXCEPT !.todo = @ \ {u}]
    /\ UNCHANGED <<cti, list, fresh, server, history>>

RoundEnds ==
    /\ round.at = "next" /\ round.todo = {}
    /\ round' = Idle
    /\ UNCHANGED <<cti, list, fresh, users, server, history>>

\* Missing for the whole grace period: get_user_subscriptions.  Tried again at the next
\* round when it fails.
Retire(u) ==
    /\ round.at = "next" /\ u \in round.todo
    /\ users[u].since > Grace
    /\ \/ round' = [round EXCEPT !.todo = @ \ {u}, !.at = "rooms", !.user = u,
                                 !.rooms = {r \in Rooms : <<r, u>> \in subs}]
       \/ round' = [round EXCEPT !.todo = @ \ {u}]
    /\ UNCHANGED <<cti, list, fresh, users, server, history>>

\* A failed step of leaveRoom ends it; the error is logged.
RoomFails == /\ round' = [round EXCEPT !.at = "rooms", !.room = NoRoom, !.heir = Nobody]
             /\ lapsed' = lapsed \cup {round.user}

\* Who may inherit: the members and admins, not a guest (who is none of the Users here),
\* not away.
Candidates(r, user) ==
    {p \in Users \ {user} : aff[r][p] = "member" /\ ~Away(p)}

\* Added before, then by name; those whose time is unknown come last.
Before(r, p, q) ==
    \/ Added[r][p] > 0 /\ (Added[r][q] = 0 \/ Added[r][p] < Added[r][q])
    \/ Added[r][p] = Added[r][q] /\ NameLess(p, q)
First(r, p, C) == \A q \in C \ {p} : Before(r, p, q)

\* get_room_affiliations, and what follows from them.
LeaveRoom(r) ==
    /\ round.at = "rooms" /\ r \in round.rooms /\ r \in muc
    /\ LET C == Candidates(r, round.user)
           sole == Owners(r) = {round.user}
           Go(at, heir) == round' = [round EXCEPT !.rooms = @ \ {r}, !.room = r, !.at = at, !.heir = heir]
       IN  \/ ~sole /\ Go("unsubscribe", Nobody)
           \/ sole /\ C = {} /\ Go("destroy", Nobody)
           \/ sole /\ \E p \in C : First(r, p, C) /\ Go("heir", p)
    /\ UNCHANGED <<cti, list, fresh, users, server, history>>

LeaveRoomFails(r) ==
    /\ round.at = "rooms" /\ r \in round.rooms
    /\ round' = [round EXCEPT !.rooms = @ \ {r}]
    /\ lapsed' = lapsed \cup {round.user}
    /\ UNCHANGED <<cti, list, fresh, users, server, gone, late>>

\* Nobody to hand the room to: destroy_room.
Destroy ==
    /\ round.at = "destroy"
    /\ \/ /\ Destroyed(round.room)
          /\ round' = [round EXCEPT !.at = "rooms", !.room = NoRoom]
          /\ UNCHANGED lapsed
       \/ Destroyed(round.room) /\ RoomFails
       \/ UNCHANGED server /\ RoomFails
    /\ UNCHANGED <<cti, list, fresh, users, gone, late>>

\* ejabberd's set_room_affiliation.
SetAffiliation(r, p, a) ==
    aff' = IF r \in muc THEN [aff EXCEPT ![r][p] = a] ELSE aff

\* Mutant: the account leaves even when its heir could not be made an owner.
MutHandOver ==
    /\ round.at = "heir"
    /\ SetAffiliation(round.room, round.heir, "owner") \/ UNCHANGED aff
    /\ round' = [round EXCEPT !.at = "unsubscribe", !.heir = Nobody]
    /\ UNCHANGED <<cti, list, fresh, users, muc, subs, history>>

\* The heir becomes an owner before the account leaves.  One who left the room meanwhile
\* has no subscription, by which retire would find the room again.
HandOver ==
    /\ round.at = "heir"
    /\ \/ /\ SetAffiliation(round.room, round.heir, "owner")
          /\ round.room \in muc
          /\ round' = [round EXCEPT !.at = "unsubscribe", !.heir = Nobody]
          /\ lapsed' = IF <<round.room, round.heir>> \in subs THEN lapsed
                       ELSE lapsed \cup {round.heir}
       \/ /\ SetAffiliation(round.room, round.heir, "owner")
          /\ round' = [round EXCEPT !.at = "rooms", !.room = NoRoom, !.heir = Nobody]
          /\ lapsed' = lapsed \cup {round.user, round.heir}
       \/ UNCHANGED aff /\ RoomFails
    /\ UNCHANGED <<cti, list, fresh, users, muc, subs, gone, late>>

\* unsubscribe_room; an error does not keep the next call from being made.
Unsubscribe ==
    /\ round.at = "unsubscribe"
    /\ \/ subs' = subs \ {<<round.room, round.user>>} /\ UNCHANGED lapsed
       \/ UNCHANGED subs /\ lapsed' = lapsed \cup {round.user}
    /\ round' = [round EXCEPT !.at = "leave"]
    /\ UNCHANGED <<cti, list, fresh, users, aff, muc, gone, late>>

\* set_room_affiliation none.
Unaffiliate ==
    /\ round.at = "leave"
    /\ \/ SetAffiliation(round.room, round.user, "none") /\ UNCHANGED lapsed
       \/ UNCHANGED aff /\ lapsed' = lapsed \cup {round.user}
    /\ round' = [round EXCEPT !.at = "rooms", !.room = NoRoom]
    /\ UNCHANGED <<cti, list, fresh, users, muc, subs, gone, late>>

\* Mutant: the account is marked before it is out of its rooms.
MutSetInactive ==
    /\ round.at = "rooms"
    /\ users' = [users EXCEPT ![round.user].inactive = TRUE]
    /\ round' = [Idle EXCEPT !.at = "next", !.todo = round.todo]
    /\ UNCHANGED <<cti, list, fresh, server, history>>

\* Out of its rooms, or as many as it could: SetInactive.
SetInactive ==
    /\ round.at = "rooms" /\ round.rooms = {}
    /\ \/ users' = [users EXCEPT ![round.user].inactive = TRUE]
       \/ UNCHANGED users
    /\ round' = [Idle EXCEPT !.at = "next", !.todo = round.todo]
    /\ UNCHANGED <<cti, list, fresh, server, history>>

\* The process stops and starts: the list and the round are gone.
Restart ==
    /\ list' = {} /\ fresh' = FALSE /\ round' = Idle
    /\ lapsed' = IF round.user \in Users THEN lapsed \cup {round.user} ELSE lapsed
    /\ UNCHANGED <<cti, users, server, gone, late>>

RoundSteps ==
    \/ Reconcile \/ NoDirectory \/ RoundEnds
    \/ \E u \in Users : Mark(u) \/ Retire(u)
    \/ \E r \in Rooms : LeaveRoom(r) \/ LeaveRoomFails(r)
    \/ Destroy \/ HandOver \/ Unsubscribe \/ Unaffiliate \/ SetInactive

Clients ==
    \E r \in Rooms :
        \/ \E u \in Users : CreateRoom(r, u) \/ AddMember(r, u) \/ MemberLeaves(r, u) \/ AddOwner(r, u)
        \/ DestroyRoom(r)

Next ==
    /\ \/ /\ \E u \in Users : Leave(u) \/ Return(u)
          /\ changes < MaxChanges /\ changes' = changes + 1 /\ UNCHANGED moves
       \/ /\ Clients
          /\ moves < MaxMoves /\ moves' = moves + 1 /\ UNCHANGED changes
       \/ /\ (\E u \in Users : SeenUser(u)) \/ Fetch \/ Tick \/ Restart \/ RoundSteps
          /\ UNCHANGED <<changes, moves>>
    /\ Cardinality(lapsed') <= MaxLapsed

Spec == Init /\ [][Next]_vars

-----------------------------------------------------------------------------
Steps == {"idle", "next", "rooms"} \cup Window

RoundState ==
    [at: Steps, todo: SUBSET Users, user: Users \cup {Nobody},
     rooms: SUBSET Rooms, room: Rooms \cup {NoRoom}, heir: Users \cup {Nobody}]

Types ==
    /\ cti \subseteq Users /\ list \subseteq Users /\ fresh \in BOOLEAN
    /\ users \in [Users -> Row]
    /\ aff \in [Rooms -> [Users -> {"none", "member", "owner"}]]
    /\ muc \subseteq Rooms /\ subs \subseteq Rooms \X Users
    /\ round \in RoundState
    /\ gone \in [Users -> -1..Grace]
    /\ lapsed \subseteq Users /\ late \subseteq Rooms
Counts == changes \in 0..MaxChanges /\ moves \in 0..MaxMoves

\* The types of the table, the rooms, the cached list, the round and the bounds.
TypeOK == Types /\ Counts

(***************************************************************************)
(* leaveRoom never leaves a group without an owner, whatever fails and     *)
(* wherever it stops: the heir owns it before the account goes.  Only a    *)
(* client that takes the other owner away after the affiliations were read *)
(* can bring that about.                                                   *)
(***************************************************************************)
RoomHasOwner == \A r \in muc \ late : Owners(r) # {}

(***************************************************************************)
(* A retired account is out of every group.  retire marks it all the same  *)
(* when a call failed, and then never comes back to it; those, and the     *)
(* accounts a client put in a group while they were away, are the          *)
(* exception.                                                              *)
(***************************************************************************)
RetiredIsOut ==
    \A u \in Users \ lapsed : users[u].inactive =>
        \A r \in Rooms : aff[r][u] = "none" /\ <<r, u>> \notin subs

(***************************************************************************)
(* The accounts marked missing and not retired yet are two at the most, or *)
(* at most half of the active ones, over any sequence of rounds that mark  *)
(* a few each.  What was retired before does not count: a directory that   *)
(* stays wrong beyond the grace period may have all of them retired, a few *)
(* at a time.                                                              *)
(***************************************************************************)
MostStay ==
    LET marked == {u \in Active \ lapsed : users[u].since > 0}
    IN  Cardinality(marked) <= 2 \/ Cardinality(marked) * 2 <= Cardinality(Active)

(***************************************************************************)
(* No account is retired unless every list compared during the whole grace *)
(* period lacked it; a return that could not be recorded is the exception. *)
(***************************************************************************)
NotRetiredEarly ==
    [][\A u \in Users \ lapsed :
          users'[u].inactive /\ ~users[u].inactive => gone[u] >= Grace]_vars
=============================================================================
