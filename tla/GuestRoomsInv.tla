--------------------------- MODULE GuestRoomsInv ----------------------------
(* The inductive invariant behind GuestRooms' safety properties.           *)
EXTENDS GuestRooms

\* A join under its room's lock, and one on its way to a row of its own.
Holding == {"check", "aff", "sub", "push", "put", "undo", "tell"}
Entering == {"aff", "sub", "push", "put"}

\* A join past its lock holds its room's lock.
LockInv == \A j \in Joins : join[j].pc \in Holding => lock[join[j].room] = j

\* Accounts are drawn once: the one a join is making has no row yet, is no
\* other join's, and nobody is dropping it.
AccountInv ==
    /\ \A g \in GuestIds : guests[g].st # "none" => g \in used
    /\ \A j \in Joins : join[j].pc \in Entering \cup {"undo"} =>
          /\ join[j].id \in used
          /\ guests[join[j].id].st = "none"
          /\ \A k \in Joins : k # j /\ join[k].pc \in Entering \cup {"undo"}
                => join[k].id # join[j].id
          /\ \A c \in Calls : call[c].pc \in {"drop", "kick"}
                => call[c].guest # join[j].id
    /\ \A c \in Calls : call[c].pc \in {"drop", "kick"} => call[c].guest \in used
    /\ \A c \in Calls : call[c].pc = "kick" => guests[call[c].guest].st # "active"

\* Whatever refers to a room refers to one that exists or existed.
RoomInv ==
    /\ \A r \in Rooms : ext[r].st # "none" => muc[r] # "none"
    /\ \A g \in GuestIds : guests[g].st # "none" => muc[guests[g].room] # "none"
    /\ \A j \in Joins : join[j].pc # "idle" => muc[join[j].room] # "none"
    /\ \A c \in Calls : call[c].pc \in {"put", "sharePut"} => muc[call[c].room] # "none"
    /\ \A s \in Sweeps : \A r \in sweep[s].todo : muc[r] # "none"

\* What ejabberd knows of the guest a join is making.
EnteringInv ==
    \A j \in Joins : muc[join[j].room] = "alive" =>
       /\ join[j].pc \in {"sub", "push", "put"} => aff[join[j].room][join[j].id] = "member"
       /\ join[j].pc \in {"push", "put"} => <<join[j].room, join[j].id>> \in subs
       /\ join[j].pc = "put" => join[j].id \in push

\* What the join found under the lock still holds.
RoomForOneMore ==
    \A j \in Joins : join[j].pc \in Entering =>
       Cardinality(Active(join[j].room)) < MaxGuests
NameStillFree ==
    \A j \in Joins : join[j].pc \in Entering =>
       \A g \in InRoom(join[j].room) :
          /\ guests[g].nick # join[j].nick
          /\ ~EqualFold(guests[g].name, join[j].name)

\* A sweep deletes nothing of a room that exists.
SweepInv ==
    \A s \in Sweeps : sweep[s].pc \in {"guests", "room"} => muc[sweep[s].room] = "destroyed"

\* Everything above together with the properties: preserved by every step of
\* joinGuest, dropGuest, roomGone, the operators' handlers and a restart.
IInv ==
    /\ TypeOK
    /\ LockInv
    /\ AccountInv
    /\ RoomInv
    /\ EnteringInv
    /\ RoomForOneMore
    /\ NameStillFree
    /\ SweepInv
    /\ AtMostMaxGuests
    /\ OneNameOnePerson
    /\ ActiveGuestIsMember
=============================================================================
