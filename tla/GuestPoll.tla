----------------------------- MODULE GuestPoll ------------------------------
(***************************************************************************)
(* A guest's page and its long polls (guestMessages): the waiters a push   *)
(* wakes (guestWaiters, WakeGuest), the pushes ejabberd sends and the      *)
(* gateway drops when too many are being delivered (push/component.go),    *)
(* and the removal of the guest meanwhile (dropGuest).                     *)
(*                                                                         *)
(* One guest, one page.  A connection that breaks leaves its request       *)
(* behind in the gateway, where it waits on: guestPolls bounds those.      *)
(***************************************************************************)
EXTENDS Integers, Sequences, FiniteSets

CONSTANTS
    Reqs,        \* GET /guest/messages requests
    NoReq,
    GuestPolls,  \* guestPolls
    Slots,       \* capacity of deliveries
    PageSize,    \* archive entries read at once
    MaxMessages, \* bound: entries of the archive
    MaxLost,     \* bound: connections the page loses
    MaxRestarts  \* bound: gateway restarts

ASSUME PollAssumption ==
    /\ IsFiniteSet(Reqs) /\ NoReq \notin Reqs
    /\ GuestPolls \in Nat \ {0} /\ Slots \in Nat \ {0} /\ PageSize \in Nat \ {0}
    /\ MaxMessages \in Nat /\ MaxLost \in Nat /\ MaxRestarts \in Nat

VARIABLES
    archive,  \* the room's archive: whether each entry has something to show
    pushes,   \* entries whose push is on its way from ejabberd
    inflight, \* entries whose push is being delivered
    missed,   \* entries whose push was lost or dropped
    waiters,  \* guestWait.m[id]: requests whose channel is registered
    woken,    \* requests whose channel is closed
    req,      \* the requests
    cur,      \* the request the page listens to
    shown,    \* archive ids the page was given, in order
    cursor,   \* the last of them: where its next request starts
    page,     \* "open", or "stopped" by a 410
    guest,    \* the guest's row: "active" or "removed"
    member,   \* the guest's affiliation in ejabberd
    drop,     \* dropGuest
    lost, restarts

\* What the page is promised.
Feed == INSTANCE GuestFeed

server == <<waiters, woken, req>>
client == <<cur, shown, cursor, page>>
removal == <<guest, member, drop>>
bounds == <<lost, restarts>>
feed == <<pushes, inflight, missed>>
vars == <<archive, feed, server, client, removal, bounds>>

Ids == 1..MaxMessages
Pcs == {"idle", "from", "register", "read", "wait", "still", "reread"}
Registered == {"read", "wait", "still", "reread"}
Req == [pc : Pcs, after : 0..MaxMessages, lo : 1..(MaxMessages + 1),
        hi : 0..MaxMessages, at : 0..MaxMessages]
ReqIdle == [pc |-> "idle", after |-> 0, lo |-> 1, hi |-> 0, at |-> 0]

ArchiveOK == archive \in Seq(BOOLEAN) /\ Len(archive) <= MaxMessages
FeedOK == /\ pushes \subseteq 1..Len(archive) /\ inflight \subseteq 1..Len(archive)
          /\ missed \subseteq 1..Len(archive)
ListOK == waiters \subseteq Reqs /\ woken \subseteq Reqs
ReqOK == req \in [Reqs -> Req] /\ \A q \in Reqs : req[q].hi <= Len(archive)
ClientOK == /\ cur \in Reqs \cup {NoReq}
            /\ shown \in Seq(1..Len(archive)) /\ cursor \in 0..Len(archive)
            /\ page \in {"open", "stopped"}
RestOK == /\ guest \in {"active", "removed"} /\ member \in BOOLEAN
          /\ drop \in {"idle", "kick", "wake"}
          /\ lost \in 0..MaxLost /\ restarts \in 0..MaxRestarts
\* Nothing is read, pushed or shown that the archive does not hold.
TypeOK == ArchiveOK /\ FeedOK /\ ListOK /\ ReqOK /\ ClientOK /\ RestOK

Init ==
    /\ archive = <<>>
    /\ pushes = {} /\ inflight = {} /\ missed = {}
    /\ waiters = {} /\ woken = {}
    /\ req = [q \in Reqs |-> ReqIdle]
    /\ cur = NoReq /\ shown = <<>> /\ cursor = 0 /\ page = "open"
    /\ guest = "active" /\ member = TRUE /\ drop = "idle"
    /\ lost = 0 /\ restarts = 0

-----------------------------------------------------------------------------
(* ejabberd, the push component and WakeGuest.                             *)

\* An entry reaches the archive; its push is sent, or lost with the component
\* away or the guest's push disabled (external).
EntryArrives(shows) ==
    /\ Len(archive) < MaxMessages
    /\ archive' = Append(archive, shows)
    /\ \/ pushes' = pushes \cup {Len(archive')} /\ UNCHANGED missed
       \/ missed' = missed \cup {Len(archive')} /\ UNCHANGED pushes
    /\ UNCHANGED <<inflight, server, client, removal, bounds>>

\* The handler of runOnce: a delivery of its own, or none when the slots are
\* taken, by this guest's pushes and everybody else's.
PushHandled(m) ==
    /\ m \in pushes
    /\ pushes' = pushes \ {m}
    /\ \/ /\ Cardinality(inflight) < Slots
          /\ inflight' = inflight \cup {m} /\ UNCHANGED missed
       \/ missed' = missed \cup {m} /\ UNCHANGED inflight
    /\ UNCHANGED <<archive, server, client, removal, bounds>>

MutWakeGuest == woken' = woken /\ waiters' = {}
\* Every registered channel is closed, and the guest's list deleted.
WakeGuest == woken' = woken \cup waiters /\ waiters' = {}

\* Deliver: a guest node wakes the guest's pages.
PushWakes(m) ==
    /\ m \in inflight
    /\ inflight' = inflight \ {m}
    /\ WakeGuest
    /\ UNCHANGED <<archive, pushes, missed, req, client, removal, bounds>>

-----------------------------------------------------------------------------
(* guestMessages.                                                          *)

\* readGuest: PageSize entries after the id, the last ones without it.
ReadHi(after) ==
    IF after > 0 /\ after + PageSize < Len(archive) THEN after + PageSize ELSE Len(archive)
MutReadLo(after) ==
    IF after > 0 THEN after
    ELSE IF PageSize < Len(archive) THEN Len(archive) - PageSize + 1 ELSE 1
ReadLo(after) ==
    IF after > 0 THEN after + 1
    ELSE IF PageSize < Len(archive) THEN Len(archive) - PageSize + 1 ELSE 1

\* page.empty: nothing to show, whatever the entries are.
Empty(lo, hi) == \A i \in lo..hi : ~archive[i]

MutEnds(q) == req' = [req EXCEPT ![q] = ReqIdle] /\ UNCHANGED <<waiters, woken>>
\* The handler returns, and its deferred drop takes its channel off the list.
Ends(q) ==
    /\ req' = [req EXCEPT ![q] = ReqIdle]
    /\ waiters' = waiters \ {q}
    /\ woken' = woken \ {q}

\* 200 with a page, 410, or another status: only a page that still listens
\* takes notice.
Answers(q, lo, hi) ==
    /\ Ends(q)
    /\ cur' = IF cur = q THEN NoReq ELSE cur
    /\ shown' = IF cur = q /\ lo <= hi THEN shown \o Feed!Stretch(lo, hi) ELSE shown
    /\ cursor' = IF cur = q /\ lo <= hi THEN hi ELSE cursor
    /\ UNCHANGED page
Gone(q) ==
    /\ Ends(q)
    /\ cur' = IF cur = q THEN NoReq ELSE cur
    /\ page' = IF cur = q THEN "stopped" ELSE page
    /\ UNCHANGED <<shown, cursor>>
Fails(q) == Answers(q, 1, 0)

others == <<archive, feed, removal, bounds>>

PollComes(q) ==
    /\ page = "open" /\ cur = NoReq /\ req[q].pc = "idle"
    /\ cur' = q
    /\ req' = [req EXCEPT ![q] = [ReqIdle EXCEPT !.pc = "from", !.after = cursor]]
    /\ UNCHANGED <<waiters, woken, shown, cursor, page, others>>

MutLetIn == TRUE
\* g.Removed.
LetIn == guest = "active"

\* guestFrom.
PollLetIn(q) ==
    /\ req[q].pc = "from" /\ LetIn
    /\ req' = [req EXCEPT ![q].pc = "register"]
    /\ UNCHANGED <<waiters, woken, client, others>>
PollShutOut(q) ==
    /\ req[q].pc = "from"
    /\ ~LetIn /\ Gone(q)
    /\ UNCHANGED others

MutPollRegisters(q) ==
    /\ req[q].pc = "register" /\ Cardinality(waiters) < GuestPolls
    /\ req' = [req EXCEPT ![q].pc = "read"]
    /\ UNCHANGED <<waiters, woken, client, others>>
\* guestWaiters.wait: registered before reading.
PollRegisters(q) ==
    /\ req[q].pc = "register" /\ Cardinality(waiters) < GuestPolls
    /\ req' = [req EXCEPT ![q].pc = "read"]
    /\ waiters' = waiters \cup {q}
    /\ UNCHANGED <<woken, client, others>>

\* 429: the guest has guestPolls of them already.
PollTooMany(q) ==
    /\ req[q].pc = "register" /\ Cardinality(waiters) >= GuestPolls
    /\ Fails(q)
    /\ UNCHANGED others

\* The first read: answered, or with nothing to show kept for the wait.
PollReads(q) ==
    LET lo == ReadLo(req[q].after)
        hi == ReadHi(req[q].after)
    IN  /\ req[q].pc = "read" /\ member
        /\ IF Empty(lo, hi)
           THEN /\ req' = [req EXCEPT ![q] = [@ EXCEPT !.pc = "wait", !.lo = lo,
                                !.hi = hi, !.at = Len(archive)]]
                /\ UNCHANGED <<waiters, woken, client>>
           ELSE Answers(q, lo, hi)
        /\ UNCHANGED others

\* The wake-up: guestStill, whose errors count as removed, and the second read.
PollWakes(q) ==
    /\ req[q].pc = "wait" /\ q \in woken
    /\ req' = [req EXCEPT ![q].pc = "still"]
    /\ UNCHANGED <<waiters, woken, client, others>>
PollStill(q) ==
    /\ req[q].pc = "still" /\ guest = "active"
    /\ req' = [req EXCEPT ![q].pc = "reread"]
    /\ UNCHANGED <<waiters, woken, client, others>>
PollNotStill(q) ==
    /\ req[q].pc = "still"
    /\ Gone(q)
    /\ UNCHANGED others
PollRereads(q) ==
    /\ req[q].pc = "reread" /\ member
    /\ Answers(q, ReadLo(req[q].after), ReadHi(req[q].after))
    /\ UNCHANGED others

MutPollTimesOut(q) ==
    /\ req[q].pc = "wait"
    /\ Answers(q, req[q].lo, req[q].hi + 1)
    /\ UNCHANGED others
\* guestWait is over: the page read before the wait.
PollTimesOut(q) ==
    /\ req[q].pc = "wait"
    /\ Answers(q, req[q].lo, req[q].hi)
    /\ UNCHANGED others

\* The store or the archive fails, the guest is over guestCalls, or the
\* connection is known to be broken.
PollFails(q) ==
    /\ req[q].pc \in {"from", "read", "reread"} \/ (req[q].pc = "wait" /\ cur # q)
    /\ Fails(q)
    /\ UNCHANGED others

PollSteps(q) ==
    \/ PollLetIn(q) \/ PollShutOut(q)
    \/ PollRegisters(q) \/ PollTooMany(q)
    \/ PollReads(q)
    \/ PollWakes(q) \/ PollStill(q) \/ PollNotStill(q) \/ PollRereads(q)
    \/ PollTimesOut(q)
    \/ PollFails(q)

\* The page loses its connection; the request stays where it is (external).
ConnectionLost ==
    /\ cur # NoReq /\ lost < MaxLost
    /\ cur' = NoReq /\ lost' = lost + 1
    /\ UNCHANGED <<archive, feed, server, shown, cursor, page, removal, restarts>>

-----------------------------------------------------------------------------
(* dropGuest, and the gateway's restart.                                   *)

DropRemoves ==
    /\ drop = "idle" /\ guest = "active"
    /\ guest' = "removed" /\ drop' = "kick"
    /\ UNCHANGED <<archive, feed, server, client, member, bounds>>
DropKicks ==
    /\ drop = "kick"
    /\ member' \in {FALSE, member} /\ drop' = "wake"
    /\ UNCHANGED <<archive, feed, server, client, guest, bounds>>
DropWakes ==
    /\ drop = "wake" /\ drop' = "idle"
    /\ WakeGuest
    /\ UNCHANGED <<archive, feed, req, client, guest, member, bounds>>

Restart ==
    /\ restarts < MaxRestarts /\ restarts' = restarts + 1
    /\ pushes' = {} /\ inflight' = {} /\ missed' = missed \cup pushes \cup inflight
    /\ waiters' = {} /\ woken' = {}
    /\ req' = [q \in Reqs |-> ReqIdle]
    /\ cur' = NoReq /\ drop' = "idle"
    /\ UNCHANGED <<archive, shown, cursor, page, guest, member, lost>>

Next ==
    \/ \E shows \in BOOLEAN : EntryArrives(shows)
    \/ \E m \in Ids : PushHandled(m) \/ PushWakes(m)
    \/ \E q \in Reqs : PollComes(q) \/ PollSteps(q)
    \/ ConnectionLost
    \/ DropRemoves \/ DropKicks \/ DropWakes
    \/ Restart

Spec == Init /\ [][Next]_vars

\* net/http runs every handler on and time.After fires; the page asks again
\* after every answer; neither the store nor the archive fails for ever.
Fairness ==
    /\ WF_vars(\E q \in Reqs : PollComes(q))
    /\ \A q \in Reqs :
          /\ WF_vars(PollSteps(q))
          /\ SF_vars(PollLetIn(q) \/ PollShutOut(q))
          /\ SF_vars(PollReads(q))
          /\ SF_vars(PollRereads(q))
          /\ SF_vars(PollStill(q))

FairSpec == Spec /\ Fairness

-----------------------------------------------------------------------------
(* Properties.                                                             *)

\* guestWaiters' list: a request under way is either on it or has been woken,
\* never both, and one that returned is not.  A request off the list cannot be
\* woken, one left on it would take one of the guestPolls places for ever, and
\* one both on it and woken would have its channel closed twice, a panic.
ListedOrWoken ==
    /\ waiters \cup woken = {q \in Reqs : req[q].pc \in Registered}
    /\ waiters \cap woken = {}

\* "Registered before reading: a message landing in between still wakes this
\* request": an entry that came after the read of a request that still waits
\* has its push on its way, unless that push was lost.
LandingInBetweenWakes ==
    \A q \in Reqs : req[q].pc = "wait" /\ q \notin woken =>
       (req[q].at + 1)..Len(archive) \subseteq pushes \cup inflight \cup missed

\* guestMessages keeps the promise of GuestFeed: what the page shows is a
\* stretch of the archive without gaps or repeats, and nothing after its 410.
FeedKept == Feed!FeedSpec

\* Every entry reaches the page, whatever pushes and connections are lost on
\* the way, unless the guest is out.
EntryReachesPage ==
    \A m \in Ids : Len(archive) >= m ~> (cursor >= m \/ page = "stopped" \/ guest = "removed")

\* "Their page stops working": the page of a removed guest is told so.
RemovedPageStops == guest = "removed" ~> page = "stopped"
=============================================================================
