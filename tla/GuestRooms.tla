----------------------------- MODULE GuestRooms -----------------------------
(***************************************************************************)
(* Rooms with people outside the PBX: the chat gateway's invite links,     *)
(* joins, removals and the forgetting of destroyed rooms                   *)
(* (ejabberd/internal/api/guest.go, guest_page.go, store/ext.go).          *)
(*                                                                         *)
(* Every HTTP request is a process.  A step of it is one statement on the  *)
(* SQLite store or one call to ejabberd, because neither spans more than   *)
(* one: the handlers use no transaction.  Each of those calls may fail,    *)
(* and a failed call to ejabberd may have had its effect all the same (a   *)
(* timeout, a request cancelled by the client).  The gateway may restart   *)
(* at any point: requests and locks are gone, both stores stay.            *)
(***************************************************************************)
EXTENDS Integers, FiniteSets

CONSTANTS
    Groups,       \* rooms operators made by hand ("g-"), open to sharing
    ExtRooms,     \* room names createExtRoom may draw ("ext-")
    Users,        \* operators
    GuestIds,     \* guest accounts the gateway may draw ("g~")
    Words,        \* what names are made of
    Typed,        \* the names people type
    OperatorWords,\* the words that are an operator's name or username
    Joins,        \* POST /guest/join requests
    Calls,        \* operators' requests and POST /guest/leave
    Polls,        \* page polls that find their room missing
    Reconciler,   \* the ten-minute round
    MaxGuests,    \* maxGuests
    MaxTail,      \* bound: the numbers guestNick tries
    MaxLinks,     \* bound: link tokens drawn
    MaxRestarts   \* bound: gateway restarts

\* A display name: a word, in upper or lower case, and what follows it: nothing
\* (0), the mark " ·" (1) or a number (2, 3, ...).
Name == [word : Words, upper : BOOLEAN, tail : 0..MaxTail]

Rooms == Groups \cup ExtRooms
Sweeps == Polls \cup {Reconciler}
Requests == Joins \cup Calls \cup Sweeps
Nobody == "nobody"

ASSUME GuestAssumption ==
    /\ IsFiniteSet(GuestIds)
    /\ MaxGuests \in Nat \ {0}
    /\ MaxTail \in Nat \ {0} /\ MaxLinks \in Nat /\ MaxRestarts \in Nat
    /\ Groups \cap ExtRooms = {}
    /\ Rooms # {} /\ Users # {} /\ GuestIds # {} /\ Words # {}
    /\ Users \cap GuestIds = {}
    /\ Typed \subseteq Name
    /\ Nobody \notin Requests

VARIABLES
    ext,      \* table ext_rooms
    guests,   \* table ext_guests
    muc,      \* ejabberd: which rooms exist
    aff,      \* ejabberd: affiliations, by room
    subs,     \* ejabberd: guests' subscriptions, <<room, guest>>
    push,     \* ejabberd: guests whose account has its push node
    lock,     \* roomLocks: who holds a room's mutex
    join,     \* the join requests
    call,     \* the operators' requests
    sweep,    \* rooms being looked for, by who looks
    issued,   \* link tokens drawn so far
    used,     \* guest accounts drawn so far
    restarts  \* bound

store == <<ext, guests>>
ejabberd == <<muc, aff, subs, push>>
vars == <<ext, guests, muc, aff, subs, push, lock, join, call, sweep, issued,
          used, restarts>>

-----------------------------------------------------------------------------
(* Names.                                                                  *)

\* strings.EqualFold: the same but for case.
EqualFold(a, b) == a.word = b.word /\ a.tail = b.tail

\* usernameRe: lower case, no space.
UsernameLike(n) == ~n.upper /\ n.tail = 0

\* operatorNamed: skeleton drops case and the mark, and keeps digits.
OperatorNamed(n) == n.word \in OperatorWords /\ n.tail \in {0, 1}

\* guestNick: the nick of name among the nicks taken.  Only a name that gets
\* the mark can find its nick taken: the other ones were refused before.
GuestNick(name, taken) ==
    LET first == IF UsernameLike(name) THEN [name EXCEPT !.tail = 1] ELSE name
        numbered(i) == [name EXCEPT !.tail = i]
    IN  IF first \notin taken
        THEN {first}
        ELSE {numbered(i) : i \in {i \in 2..MaxTail :
                 /\ numbered(i) \notin taken
                 /\ \A k \in 2..(i - 1) : numbered(k) \in taken}}

-----------------------------------------------------------------------------
(* Rows, and the requests' own state.                                      *)

ExtRow == [st : {"none", "open", "revoked"}, owner : Users,
           link : 0..MaxLinks, expired : BOOLEAN]
GuestRow == [st : {"none", "active", "removed"}, room : Rooms,
             name : Name, nick : Name]

JoinPcs == {"idle", "lock", "check", "aff", "sub", "push", "put", "undo", "tell"}
JoinReq == [pc : JoinPcs, room : Rooms, name : Name, id : GuestIds, nick : Name]

CallPcs == {"idle", "put", "shareAffs", "sharePut", "reshareAffs", "shareLink",
            "shareOwner", "affs", "own", "act", "drop", "kick", "given"}
WithLink == {"put", "shareAffs", "sharePut", "reshareAffs", "shareLink", "shareOwner"}
Kinds == {"create", "share", "get", "link", "revoke", "remove", "leave"}
CallReq == [pc : CallPcs, kind : Kinds, user : Users, room : Rooms,
            link : 0..MaxLinks, owner : Users, guest : GuestIds]

SweepPcs == {"idle", "look", "guests", "room"}
SweepReq == [pc : SweepPcs, room : Rooms, todo : SUBSET Rooms]

\* PRIMARY KEY room: at most one row, with the one link the room has.
RowOf(user, link) ==
    [st |-> "open", owner |-> user, link |-> link, expired |-> FALSE]
Linked(e, link) ==
    IF e.st = "none" THEN e
    ELSE [e EXCEPT !.st = "open", !.link = link, !.expired = FALSE]
Owned(e, user) == IF e.st = "none" THEN e ELSE [e EXCEPT !.owner = user]
Revoked(e) == IF e.st = "none" THEN e ELSE [e EXCEPT !.st = "revoked"]

InRoom(r) == {g \in GuestIds : guests[g].st # "none" /\ guests[g].room = r}
Active(r) == {g \in InRoom(r) : guests[g].st = "active"}

NoRoom == CHOOSE r \in Rooms : TRUE
NoUser == CHOOSE u \in Users : TRUE
NoId == CHOOSE g \in GuestIds : TRUE
NoName == [word |-> CHOOSE w \in Words : TRUE, upper |-> FALSE, tail |-> 0]
NoExt == [st |-> "none", owner |-> NoUser, link |-> 0, expired |-> FALSE]
NoGuest == [st |-> "none", room |-> NoRoom, name |-> NoName, nick |-> NoName]
JoinIdle == [pc |-> "idle", room |-> NoRoom, name |-> NoName, id |-> NoId,
             nick |-> NoName]
CallIdle == [pc |-> "idle", kind |-> "get", user |-> NoUser, room |-> NoRoom,
             link |-> 0, owner |-> NoUser, guest |-> NoId]
SweepIdle == [pc |-> "idle", room |-> NoRoom, todo |-> {}]

Affiliation == {"none", "member", "owner"}

\* The stores, the requests and the links: a row's link, and one a handler is
\* about to save, was drawn by newToken.
TypeOK ==
    /\ ext \in [Rooms -> ExtRow]
    /\ \A r \in Rooms : ext[r].st # "none" => ext[r].link \in 1..issued
    /\ \A c \in Calls : call[c].pc \in WithLink => call[c].link \in 1..issued
    /\ guests \in [GuestIds -> GuestRow]
    /\ muc \in [Rooms -> {"none", "alive", "destroyed"}]
    /\ aff \in [Rooms -> [Users \cup GuestIds -> Affiliation]]
    /\ subs \in SUBSET (Rooms \X GuestIds)
    /\ push \in SUBSET GuestIds
    /\ lock \in [Rooms -> Joins \cup {Nobody}]
    /\ join \in [Joins -> JoinReq]
    /\ call \in [Calls -> CallReq]
    /\ sweep \in [Sweeps -> SweepReq]
    /\ issued \in 0..MaxLinks
    /\ used \in SUBSET GuestIds
    /\ restarts \in 0..MaxRestarts

-----------------------------------------------------------------------------
\* Groups exist already, each with an owner; the rest is empty.
Init ==
    /\ ext = [r \in Rooms |-> NoExt]
    /\ guests = [g \in GuestIds |-> NoGuest]
    /\ muc = [r \in Rooms |-> IF r \in Groups THEN "alive" ELSE "none"]
    /\ \E f \in [Groups -> [Users -> Affiliation]] :
          /\ \A r \in Groups : \E u \in Users : f[r][u] = "owner"
          /\ aff = [r \in Rooms |-> [x \in Users \cup GuestIds |->
                        IF r \in Groups /\ x \in Users THEN f[r][x] ELSE "none"]]
    /\ subs = {} /\ push = {}
    /\ lock = [r \in Rooms |-> Nobody]
    /\ join = [j \in Joins |-> JoinIdle]
    /\ call = [c \in Calls |-> CallIdle]
    /\ sweep = [s \in Sweeps |-> SweepIdle]
    /\ issued = 0 /\ used = {} /\ restarts = 0

-----------------------------------------------------------------------------
(* ejabberd, as the gateway uses it (external).                            *)

\* Affiliation a for x in room r, which fails in a room that does not exist.
\* In a members-only room "none" ends the subscription too.
SetAffiliation(r, x, a) ==
    /\ aff' = [aff EXCEPT ![r][x] = a]
    /\ subs' = IF a = "none" THEN subs \ {<<r, x>>} ELSE subs

\* A call that fails: without effect, or with the effect and no answer.
MayAffiliate(r, x, a) ==
    \/ UNCHANGED <<aff, subs>>
    \/ muc[r] = "alive" /\ SetAffiliation(r, x, a)

\* The owner deletes the chat; affiliations and subscriptions go with it.
DestroyRoom(r) ==
    /\ muc[r] = "alive"
    /\ muc' = [muc EXCEPT ![r] = "destroyed"]
    /\ aff' = [aff EXCEPT ![r] = [x \in Users \cup GuestIds |-> "none"]]
    /\ subs' = {p \in subs : p[1] # r}
    /\ UNCHANGED <<store, push, lock, join, call, sweep, issued, used, restarts>>

\* The owner's client adds a colleague.
AddOperator(r, u) ==
    /\ muc[r] = "alive" /\ aff[r][u] = "none"
    /\ aff' = [aff EXCEPT ![r][u] = "member"]
    /\ UNCHANGED <<store, muc, subs, push, lock, join, call, sweep, issued, used, restarts>>

\* The room changes hands: its owner left the company or named another.
PassOwnership(r, u, v) ==
    /\ muc[r] = "alive" /\ aff[r][u] = "owner" /\ aff[r][v] = "member"
    /\ \E a \in {"none", "member"} :
          aff' = [aff EXCEPT ![r][u] = a, ![r][v] = "owner"]
    /\ UNCHANGED <<store, muc, subs, push, lock, join, call, sweep, issued, used, restarts>>

\* Thirty days passed since the link was made.
LinkExpires(r) ==
    /\ ext[r].st # "none" /\ ~ext[r].expired
    /\ ext' = [ext EXCEPT ![r].expired = TRUE]
    /\ UNCHANGED <<guests, ejabberd, lock, join, call, sweep, issued, used, restarts>>

-----------------------------------------------------------------------------
(* joinGuest.                                                              *)

\* openLink lets people in: neither revoked nor past its thirty days.
LinkOpen(e) == e.st = "open" /\ ~e.expired

\* The room of the link, read before the room's lock is asked for.  A name of
\* an operator ends the request here.
JoinOpens(j, l, n) ==
    /\ join[j].pc = "idle"
    /\ ~OperatorNamed(n)
    /\ \E r \in Rooms :
          /\ ext[r].st # "none" /\ ext[r].link = l
          /\ LinkOpen(ext[r])
          /\ join' = [join EXCEPT ![j] =
                [@ EXCEPT !.pc = "lock", !.room = r, !.name = n]]
    /\ UNCHANGED <<store, ejabberd, lock, call, sweep, issued, used, restarts>>

MutLockFree(r) == TRUE
\* roomLocks: one join at a time per room.
LockFree(r) == lock[r] = Nobody

JoinLocks(j) ==
    /\ join[j].pc = "lock"
    /\ LockFree(join[j].room)
    /\ lock' = [lock EXCEPT ![join[j].room] = j]
    /\ join' = [join EXCEPT ![j].pc = "check"]
    /\ UNCHANGED <<store, ejabberd, call, sweep, issued, used, restarts>>

MutUnlock(j) == lock' = [lock EXCEPT ![join[j].room] =
                    IF join[j].pc = "check" THEN @ ELSE Nobody]
\* The deferred unlock, whatever the answer.
Unlock(j) == lock' = [lock EXCEPT ![join[j].room] = Nobody]

JoinReturns(j) ==
    /\ Unlock(j)
    /\ join' = [join EXCEPT ![j] = JoinIdle]

NameTaken(r, n) ==
    \E g \in InRoom(r) : EqualFold(guests[g].name, n) \/ EqualFold(guests[g].nick, n)

MutFull(r) == Cardinality(Active(r)) > MaxGuests
Full(r) == Cardinality(Active(r)) >= MaxGuests

\* The room's guests read under the lock, the removed ones too: 409, or 500
\* when they cannot be read.
JoinRefused(j) ==
    /\ join[j].pc = "check"
    /\ JoinReturns(j)
    /\ UNCHANGED <<store, ejabberd, call, sweep, issued, used, restarts>>

\* An account and a nick of their own.
JoinAdmitted(j, g) ==
    LET r == join[j].room
    IN  /\ join[j].pc = "check"
        /\ ~NameTaken(r, join[j].name)
        /\ ~Full(r)
        /\ g \notin used
        /\ used' = used \cup {g}
        /\ \E nick \in GuestNick(join[j].name, {guests[x].nick : x \in InRoom(r)}) :
              join' = [join EXCEPT ![j] =
                    [@ EXCEPT !.pc = "aff", !.id = g, !.nick = nick]]
        /\ UNCHANGED <<store, ejabberd, lock, call, sweep, issued, restarts>>

\* set_room_affiliation member.
JoinAffiliates(j) ==
    LET r == join[j].room
    IN  /\ join[j].pc = "aff"
        /\ \/ /\ muc[r] = "alive"
              /\ SetAffiliation(r, join[j].id, "member")
              /\ join' = [join EXCEPT ![j].pc = "sub"]
           \/ /\ MayAffiliate(r, join[j].id, "member")
              /\ join' = [join EXCEPT ![j].pc = "undo"]
        /\ UNCHANGED <<store, muc, push, lock, call, sweep, issued, used, restarts>>

\* subscribe_room.
JoinSubscribes(j) ==
    LET r == join[j].room
        g == join[j].id
    IN  /\ join[j].pc = "sub"
        /\ \/ /\ aff[r][g] = "member"
              /\ subs' = subs \cup {<<r, g>>}
              /\ join' = [join EXCEPT ![j].pc = "push"]
           \/ /\ \/ UNCHANGED subs
                 \/ aff[r][g] = "member" /\ subs' = subs \cup {<<r, g>>}
              /\ join' = [join EXCEPT ![j].pc = "undo"]
        /\ UNCHANGED <<store, muc, aff, push, lock, call, sweep, issued, used, restarts>>

MutAfterPushFailure == "put"
\* The third EnablePush failed: the error stands.
AfterPushFailure == "undo"

\* EnablePush in a session of the guest's own, tried three times.
JoinEnablesPush(j) ==
    /\ join[j].pc = "push"
    /\ \/ /\ push' = push \cup {join[j].id}
          /\ join' = [join EXCEPT ![j].pc = "put"]
       \/ /\ \/ UNCHANGED push
             \/ push' = push \cup {join[j].id}
          /\ join' = [join EXCEPT ![j].pc = AfterPushFailure]
    /\ UNCHANGED <<store, muc, aff, subs, lock, call, sweep, issued, used, restarts>>

\* PutGuest.
JoinPuts(j) ==
    /\ join[j].pc = "put"
    /\ \/ /\ guests' = [guests EXCEPT ![join[j].id] =
                  [st |-> "active", room |-> join[j].room,
                   name |-> join[j].name, nick |-> join[j].nick]]
          /\ join' = [join EXCEPT ![j].pc = "tell"]
       \/ /\ UNCHANGED guests
          /\ join' = [join EXCEPT ![j].pc = "undo"]
    /\ UNCHANGED <<ext, ejabberd, lock, call, sweep, issued, used, restarts>>

\* The affiliation taken back, once and whatever comes of it; 502.
JoinUndoes(j) ==
    /\ join[j].pc = "undo"
    /\ MayAffiliate(join[j].room, join[j].id, "none")
    /\ JoinReturns(j)
    /\ UNCHANGED <<store, muc, push, call, sweep, issued, used, restarts>>

\* The notice in the chat, the members told, 200.
JoinTells(j) ==
    /\ join[j].pc = "tell"
    /\ JoinReturns(j)
    /\ UNCHANGED <<store, ejabberd, call, sweep, issued, used, restarts>>

-----------------------------------------------------------------------------
(* createExtRoom and shareGroup.                                           *)

MutFreshLink == issued
\* newToken: a token nobody has.
FreshLink == issued + 1

CallReturns(c) == call' = [call EXCEPT ![c] = CallIdle]

\* 200 with an invite link: extInfo reads the guests, then the answer goes out.
CallGives(c, link) == call' = [call EXCEPT ![c].pc = "given", ![c].link = link]

LinkAnswered(c) ==
    /\ call[c].pc = "given"
    /\ CallReturns(c)
    /\ UNCHANGED <<store, ejabberd, lock, join, sweep, issued, used, restarts>>

Begin(c, kind, u, r, pc, link, owner) ==
    /\ call[c].pc = "idle"
    /\ call' = [call EXCEPT ![c] = [CallIdle EXCEPT !.pc = pc, !.kind = kind,
                    !.user = u, !.room = r, !.link = link, !.owner = owner]]

\* create_room_with_opts: the operator owns the new room.
CreateRoom(c, u, r) ==
    /\ r \in ExtRooms /\ muc[r] = "none" /\ issued < MaxLinks
    /\ muc' = [muc EXCEPT ![r] = "alive"]
    /\ aff' = [aff EXCEPT ![r][u] = "owner"]
    /\ issued' = issued + 1
    /\ Begin(c, "create", u, r, "put", FreshLink, u)
    /\ UNCHANGED <<store, subs, push, lock, join, sweep, used, restarts>>

\* The room is made and the answer is lost: 502, and no row.
CreateUnanswered(c, u, r) ==
    /\ r \in ExtRooms /\ muc[r] = "none" /\ call[c].pc = "idle"
    /\ muc' = [muc EXCEPT ![r] = "alive"]
    /\ aff' = [aff EXCEPT ![r][u] = "owner"]
    /\ UNCHANGED <<store, subs, push, lock, join, call, sweep, issued, used, restarts>>

\* PutExtRoom; a room that was not saved is destroyed again.
CreatePuts(c) ==
    LET r == call[c].room
    IN  /\ call[c].pc = "put"
        /\ \/ /\ ext[r].st = "none"
              /\ ext' = [ext EXCEPT ![r] = RowOf(call[c].user, call[c].link)]
              /\ CallGives(c, call[c].link)
              /\ UNCHANGED <<muc, aff, subs>>
           \/ /\ \/ UNCHANGED <<muc, aff, subs>>
                 \/ /\ muc' = [muc EXCEPT ![r] = "destroyed"]
                    /\ aff' = [aff EXCEPT ![r] = [x \in Users \cup GuestIds |-> "none"]]
                    /\ subs' = {p \in subs : p[1] # r}
              /\ UNCHANGED ext
              /\ CallReturns(c)
        /\ UNCHANGED <<guests, push, lock, join, sweep, issued, used, restarts>>

\* A group not shared, or shared before and made private since.
ShareReads(c, u, r) ==
    /\ r \in Groups /\ issued < MaxLinks
    /\ ext[r].st # "open"
    /\ issued' = issued + 1
    /\ Begin(c, "share", u, r,
             IF ext[r].st = "revoked" THEN "reshareAffs" ELSE "shareAffs",
             FreshLink, ext[r].owner)
    /\ UNCHANGED <<store, ejabberd, lock, join, sweep, used, restarts>>

\* Only its owner; the row read before decides between update and insert.
ShareChecks(c) ==
    LET r == call[c].room
    IN  /\ call[c].pc \in {"reshareAffs", "shareAffs"}
        /\ \/ /\ muc[r] = "alive" /\ aff[r][call[c].user] = "owner"
              /\ call' = [call EXCEPT ![c].pc =
                    IF @ = "reshareAffs" THEN "shareLink" ELSE "sharePut"]
           \/ CallReturns(c)
        /\ UNCHANGED <<store, ejabberd, lock, join, sweep, issued, used, restarts>>

\* SetExtLink of a group shared again.  Its error is assigned to the err of the
\* inner if and lost there: a link that was not saved is answered as well.
ShareLinks(c) ==
    LET r == call[c].room
        l == call[c].link
    IN  /\ call[c].pc = "shareLink"
        /\ \/ /\ ext' = [ext EXCEPT ![r] = Linked(@, l)]
              /\ IF call[c].owner # call[c].user
                 THEN call' = [call EXCEPT ![c].pc = "shareOwner"]
                 ELSE CallGives(c, l)
           \/ UNCHANGED ext /\ CallGives(c, l)
        /\ UNCHANGED <<guests, ejabberd, lock, join, sweep, issued, used, restarts>>

\* SetExtOwner, its error lost the same way.
ShareOwns(c) ==
    /\ call[c].pc = "shareOwner"
    /\ \/ ext' = [ext EXCEPT ![call[c].room] = Owned(@, call[c].user)]
       \/ UNCHANGED ext
    /\ CallGives(c, call[c].link)
    /\ UNCHANGED <<guests, ejabberd, lock, join, sweep, issued, used, restarts>>

\* PutExtRoom: the primary key refuses a second row.
SharePuts(c) ==
    LET r == call[c].room
    IN  /\ call[c].pc = "sharePut"
        /\ \/ /\ ext[r].st = "none"
              /\ ext' = [ext EXCEPT ![r] = RowOf(call[c].user, call[c].link)]
              /\ CallGives(c, call[c].link)
           \/ UNCHANGED ext /\ CallReturns(c)
        /\ UNCHANGED <<guests, ejabberd, lock, join, sweep, issued, used, restarts>>

-----------------------------------------------------------------------------
(* extRoomFor and the operators' requests on a shared room.                *)

RoomKinds == {"get", "link", "revoke", "remove"}

\* The row, and in it the owner it names.
RoomReads(c, u, r, kind) ==
    /\ kind \in RoomKinds
    /\ ext[r].st # "none"
    /\ Begin(c, kind, u, r, "affs", 0, ext[r].owner)
    /\ UNCHANGED <<store, ejabberd, lock, join, sweep, issued, used, restarts>>

\* Members read; only whoever owns the room now does the rest.
MayAct(kind, a) == IF kind = "get" THEN a # "none" ELSE a = "owner"

\* get_room_affiliations: 404, 403, or on with the request; the owner the row
\* does not name takes it over first.
RoomChecks(c) ==
    LET a == aff[call[c].room][call[c].user]
    IN  /\ call[c].pc = "affs"
        /\ \/ /\ muc[call[c].room] = "alive" /\ MayAct(call[c].kind, a)
              /\ call' = [call EXCEPT ![c].pc =
                    IF a = "owner" /\ call[c].owner # call[c].user
                    THEN "own" ELSE "act"]
           \/ CallReturns(c)
        /\ UNCHANGED <<store, ejabberd, lock, join, sweep, issued, used, restarts>>

\* SetExtOwner.
RoomOwns(c) ==
    /\ call[c].pc = "own"
    /\ \/ /\ ext' = [ext EXCEPT ![call[c].room] = Owned(@, call[c].user)]
          /\ call' = [call EXCEPT ![c].pc = "act"]
       \/ UNCHANGED ext /\ CallReturns(c)
    /\ UNCHANGED <<guests, ejabberd, lock, join, sweep, issued, used, restarts>>

\* getExtRoom: nothing more to change.
GetRoom(c) ==
    /\ call[c].pc = "act" /\ call[c].kind = "get"
    /\ CallReturns(c)
    /\ UNCHANGED <<store, ejabberd, lock, join, sweep, issued, used, restarts>>

\* newExtLink.
NewLink(c) ==
    LET r == call[c].room
    IN  /\ call[c].pc = "act" /\ call[c].kind = "link"
        /\ \/ /\ issued < MaxLinks
              /\ issued' = issued + 1
              /\ ext' = [ext EXCEPT ![r] = Linked(@, FreshLink)]
              /\ CallGives(c, FreshLink)
           \/ UNCHANGED <<ext, issued>> /\ CallReturns(c)
        /\ UNCHANGED <<guests, ejabberd, lock, join, sweep, used, restarts>>

\* revokeExtLink.
RevokeLink(c) ==
    /\ call[c].pc = "act" /\ call[c].kind = "revoke"
    /\ \/ ext' = [ext EXCEPT ![call[c].room] = Revoked(@)]
       \/ UNCHANGED ext
    /\ CallReturns(c)
    /\ UNCHANGED <<guests, ejabberd, lock, join, sweep, issued, used, restarts>>

\* removeGuest: a guest of this room, removed before or not.
RemoveFinds(c, g) ==
    /\ call[c].pc = "act" /\ call[c].kind = "remove"
    /\ \/ /\ g \in InRoom(call[c].room)
          /\ call' = [call EXCEPT ![c].pc = "drop", ![c].guest = g]
       \/ /\ g \notin InRoom(call[c].room)
          /\ CallReturns(c)
    /\ UNCHANGED <<store, ejabberd, lock, join, sweep, issued, used, restarts>>

\* leaveGuest: guestFrom lets the guest through while they are in the room.
LeaveReads(c, g) ==
    /\ guests[g].st = "active"
    /\ call[c].pc = "idle"
    /\ call' = [call EXCEPT ![c] = [CallIdle EXCEPT !.pc = "drop", !.kind = "leave",
                    !.room = guests[g].room, !.guest = g]]
    /\ UNCHANGED <<store, ejabberd, lock, join, sweep, issued, used, restarts>>

\* dropGuest: RemoveGuest, whose error ends it...
DropRemoves(c) ==
    LET g == call[c].guest
    IN  /\ call[c].pc = "drop"
        /\ \/ /\ guests' = [guests EXCEPT ![g].st =
                                IF @ = "none" THEN @ ELSE "removed"]
              /\ call' = [call EXCEPT ![c].pc = "kick"]
           \/ UNCHANGED guests /\ CallReturns(c)
        /\ UNCHANGED <<ext, ejabberd, lock, join, sweep, issued, used, restarts>>

\* ... then the affiliation, whose error does not; the page woken, members told.
DropKicks(c) ==
    /\ call[c].pc = "kick"
    /\ MayAffiliate(call[c].room, call[c].guest, "none")
    /\ CallReturns(c)
    /\ UNCHANGED <<store, muc, push, lock, join, sweep, issued, used, restarts>>

-----------------------------------------------------------------------------
(* roomGone: the ten-minute round looks for every room in ext_rooms, a     *)
(* guest's page for its own when its archive cannot be read.               *)

MutRoundRooms == {r \in Rooms : ext[r].st = "open"}
\* ExtRoomIDs.
RoundRooms == {r \in Rooms : ext[r].st # "none"}

RoundStarts ==
    /\ sweep[Reconciler].pc = "idle"
    /\ RoundRooms # {}
    /\ sweep' = [sweep EXCEPT ![Reconciler].pc = "look", ![Reconciler].todo = RoundRooms]
    /\ UNCHANGED <<store, ejabberd, lock, join, call, issued, used, restarts>>

\* guestMessages: readGuest failed for a guest still in the room.
PollFails(s, g) ==
    /\ sweep[s].pc = "idle"
    /\ guests[g].st = "active"
    /\ sweep' = [sweep EXCEPT ![s].pc = "look", ![s].todo = {guests[g].room}]
    /\ UNCHANGED <<store, ejabberd, lock, join, call, issued, used, restarts>>

\* On to the next room of the list, or the end of it.
Onward(s, todo) ==
    sweep' = [sweep EXCEPT ![s] = IF todo = {} THEN SweepIdle
                  ELSE [pc |-> "look", room |-> NoRoom, todo |-> todo]]

MutRoomMissing(r) == TRUE
\* roomMissing: the error that says the room does not exist, and no other.
RoomMissing(r) == muc[r] # "alive"

\* get_room_affiliations of the next room.
SweepLooks(s, r) ==
    /\ sweep[s].pc = "look" /\ r \in sweep[s].todo
    /\ \/ /\ RoomMissing(r)
          /\ sweep' = [sweep EXCEPT ![s].pc = "guests", ![s].room = r,
                                    ![s].todo = @ \ {r}]
       \/ Onward(s, sweep[s].todo \ {r})
    /\ UNCHANGED <<store, ejabberd, lock, join, call, issued, used, restarts>>

\* DeleteExtRoom, first statement.
SweepDropsGuests(s) ==
    LET r == sweep[s].room
    IN  /\ sweep[s].pc = "guests"
        /\ \/ /\ guests' = [g \in GuestIds |-> IF g \in InRoom(r) THEN NoGuest
                                               ELSE guests[g]]
              /\ sweep' = [sweep EXCEPT ![s].pc = "room"]
           \/ UNCHANGED guests /\ Onward(s, sweep[s].todo)
        /\ UNCHANGED <<ext, ejabberd, lock, join, call, issued, used, restarts>>

\* DeleteExtRoom, second statement.
SweepDropsRoom(s) ==
    /\ sweep[s].pc = "room"
    /\ \/ ext' = [ext EXCEPT ![sweep[s].room] = NoExt]
       \/ UNCHANGED ext
    /\ Onward(s, sweep[s].todo)
    /\ UNCHANGED <<guests, ejabberd, lock, join, call, issued, used, restarts>>

-----------------------------------------------------------------------------
\* The gateway stops and starts again: requests and locks are gone.
Restart ==
    /\ restarts < MaxRestarts
    /\ restarts' = restarts + 1
    /\ lock' = [r \in Rooms |-> Nobody]
    /\ join' = [j \in Joins |-> JoinIdle]
    /\ call' = [c \in Calls |-> CallIdle]
    /\ sweep' = [s \in Sweeps |-> SweepIdle]
    /\ UNCHANGED <<store, ejabberd, issued, used>>

JoinSteps(j) ==
    \/ JoinLocks(j)
    \/ JoinRefused(j)
    \/ \E g \in GuestIds : JoinAdmitted(j, g)
    \/ JoinAffiliates(j)
    \/ JoinSubscribes(j)
    \/ JoinEnablesPush(j)
    \/ JoinPuts(j)
    \/ JoinUndoes(j)
    \/ JoinTells(j)

CallSteps(c) ==
    \/ LinkAnswered(c)
    \/ CreatePuts(c)
    \/ ShareChecks(c)
    \/ ShareLinks(c)
    \/ ShareOwns(c)
    \/ SharePuts(c)
    \/ RoomChecks(c)
    \/ RoomOwns(c)
    \/ GetRoom(c)
    \/ NewLink(c)
    \/ RevokeLink(c)
    \/ \E g \in GuestIds : RemoveFinds(c, g)
    \/ DropRemoves(c)
    \/ DropKicks(c)

SweepSteps(s) ==
    \/ \E r \in Rooms : SweepLooks(s, r)
    \/ SweepDropsGuests(s)
    \/ SweepDropsRoom(s)

JoinBegins(j) == \E l \in 1..MaxLinks, n \in Typed : JoinOpens(j, l, n)

CallBegins(c) ==
    \/ \E u \in Users, r \in Rooms : CreateRoom(c, u, r) \/ CreateUnanswered(c, u, r)
    \/ \E u \in Users, r \in Rooms : ShareReads(c, u, r)
    \/ \E u \in Users, r \in Rooms, kind \in RoomKinds : RoomReads(c, u, r, kind)
    \/ \E g \in GuestIds : LeaveReads(c, g)

SweepBegins ==
    \/ RoundStarts
    \/ \E s \in Polls, g \in GuestIds : PollFails(s, g)

Environment ==
    \E r \in Rooms :
       \/ DestroyRoom(r)
       \/ \E u \in Users : AddOperator(r, u)
       \/ \E u, v \in Users : PassOwnership(r, u, v)
       \/ LinkExpires(r)

Next ==
    \/ \E j \in Joins : JoinBegins(j) \/ JoinSteps(j)
    \/ \E c \in Calls : CallBegins(c) \/ CallSteps(c)
    \/ SweepBegins
    \/ \E s \in Sweeps : SweepSteps(s)
    \/ Environment
    \/ Restart

Spec == Init /\ [][Next]_vars

\* What the gateway's scheduling gives.  net/http runs every request until it
\* returns, and ejabberd answers EnablePush, which has no time limit, or the
\* client gives up; a Go mutex lets a waiter in after at most a millisecond of
\* contention (its starvation mode); the reconcile loop runs for ever, and
\* neither ejabberd nor SQLite fails it every single time.
Fairness ==
    /\ \A j \in Joins : WF_vars(JoinSteps(j)) /\ SF_vars(JoinLocks(j))
    /\ WF_vars(RoundStarts)
    /\ WF_vars(SweepSteps(Reconciler))
    /\ \A r \in Rooms :
          SF_vars(SweepLooks(Reconciler, r) /\ sweep'[Reconciler].pc = "guests")
    /\ SF_vars(SweepDropsGuests(Reconciler) /\ sweep'[Reconciler].pc = "room")
    /\ \A r \in Rooms : SF_vars(SweepDropsRoom(Reconciler) /\ ext'[r] # ext[r])

FairSpec == Spec /\ Fairness

-----------------------------------------------------------------------------
(* Properties.                                                             *)

\* "One join at a time per room, so the cap and the names hold": no
\* interleaving of joins, removals, sweeps and restarts puts more than
\* maxGuests people from outside in a room.
AtMostMaxGuests == \A r \in Rooms : Cardinality(Active(r)) <= MaxGuests

\* "One name, one person": two guests of a room, removed ones included, never
\* have names that differ in case only, nor the same nick, so a message in the
\* chat has one author.
OneNameOnePerson ==
    \A g, h \in GuestIds :
       /\ g # h
       /\ guests[g].st # "none" /\ guests[h].st # "none"
       /\ guests[g].room = guests[h].room
       => /\ guests[g].nick # guests[h].nick
          /\ ~EqualFold(guests[g].name, guests[h].name)

\* joinGuest writes the guest last and dropGuest unwrites it first: a guest the
\* store lets in is a subscribed member of the room with a push node, as long
\* as the room exists.
ActiveGuestIsMember ==
    \A g \in GuestIds :
       guests[g].st = "active" /\ muc[guests[g].room] = "alive"
       => /\ aff[guests[g].room][g] = "member"
          /\ <<guests[g].room, g>> \in subs
          /\ g \in push

\* roomGone forgets destroyed rooms only: whatever calls fail and whoever else
\* is at work, a room that exists keeps its row and its guests.
LivingRoomIsKept ==
    [][\A r \in Rooms : muc[r] = "alive" =>
          /\ ext[r].st # "none" => ext'[r].st # "none"
          /\ \A g \in InRoom(r) : guests'[g].st # "none"]_vars

\* Every join is answered: no path keeps a room's lock.
JoinAnswered == \A j \in Joins : join[j].pc # "idle" ~> join[j].pc = "idle"

\* "A room destroyed since takes its link along": the reconciler forgets the
\* row of a destroyed room, also when a restart or an error stopped
\* DeleteExtRoom between its two statements.
GoneRoomForgotten ==
    \A r \in Rooms : muc[r] = "destroyed" ~> ext[r].st = "none"

\* DeleteExtRoom: "a room destroyed since takes its link and its guests along".
GoneGuestsForgotten ==
    \A g \in GuestIds :
       guests[g].st # "none" /\ muc[guests[g].room] = "destroyed" ~> guests[g].st = "none"

\* revokeExtLink: "the link lets nobody new in; who joined stays".
RevokedTakesNobodyNew ==
    [][\A g \in GuestIds :
          guests[g].st = "none" /\ guests'[g].st = "active"
          => ext[guests'[g].room].st # "revoked"]_vars

\* A handler that answers an invite link has saved it: "shared again with a new
\* link, as it was".
GivenLinkIsSaved ==
    [][\A c \in Calls :
          /\ call[c].pc \in {"put", "sharePut", "shareLink"}
          /\ call'[c].pc = "given"
          => LinkOpen(ext'[call[c].room]) /\ ext'[call[c].room].link = call'[c].link]_vars
=============================================================================
