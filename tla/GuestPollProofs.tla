-------------------------- MODULE GuestPollProofs ---------------------------
(***************************************************************************)
(* Proofs about GuestPoll, for any number of requests, places, delivery    *)
(* slots and archive entries: the list of waiters is exact, a message that *)
(* lands between a request's registration and its wait wakes it, and the   *)
(* page implements GuestFeed.                                              *)
(***************************************************************************)
EXTENDS GuestPoll, SequenceTheorems, TLAPS

-----------------------------------------------------------------------------
(* Types.                                                                  *)

LEMMA IdleType == ReqIdle \in Req
BY PollAssumption DEF ReqIdle, Req, Pcs

\* readGuest reads within the archive, from the entry after the id it is given.
LEMMA ReadRange ==
    ASSUME ArchiveOK, NEW after \in 0..MaxMessages
    PROVE  /\ ReadLo(after) \in 1..(MaxMessages + 1)
           /\ ReadHi(after) \in 0..Len(archive)
           /\ ReadHi(after) \in 0..MaxMessages
           /\ after > 0 => ReadLo(after) = after + 1
<1>1. Len(archive) \in Nat /\ Len(archive) <= MaxMessages /\ MaxMessages \in Nat
    BY PollAssumption DEF ArchiveOK
<1> QED
    BY <1>1, PollAssumption DEF ReadLo, ReadHi

\* A handler that returns, whatever it answers.
LEMMA EndsType ==
    ASSUME ReqOK, ListOK, ArchiveOK, NEW q \in Reqs, Ends(q), UNCHANGED archive
    PROVE  ReqOK' /\ ListOK'
<1>1. req' \in [Reqs -> Req]
    BY IdleType DEF ReqOK, Ends
<1>2. \A p \in Reqs : req'[p].hi <= Len(archive')
    <2>1. Len(archive) \in Nat
        BY DEF ArchiveOK
    <2> QED
        BY <2>1 DEF ReqOK, Ends, ReqIdle
<1> QED
    BY <1>1, <1>2 DEF ReqOK, ListOK, Ends

\* The ids of a page, in order, end with its last one.
LEMMA StretchSeq ==
    ASSUME NEW n \in Nat, NEW lo \in 1..n, NEW hi \in 1..n, lo <= hi
    PROVE  /\ Feed!Stretch(lo, hi) \in Seq(1..n)
           /\ Len(Feed!Stretch(lo, hi)) = hi - lo + 1
           /\ Feed!Stretch(lo, hi)[hi - lo + 1] = hi
<1>1. hi - lo + 1 \in Nat /\ hi - lo + 1 \in 1..(hi - lo + 1)
    OBVIOUS
<1>2. Feed!Stretch(lo, hi) \in [1..(hi - lo + 1) -> 1..n]
    BY DEF Feed!Stretch
<1>3. Feed!Stretch(lo, hi) \in Seq(1..n)
    BY <1>1, <1>2, SeqDef
<1> QED
    BY <1>1, <1>2, <1>3 DEF Feed!Stretch

\* An answer goes on where the page ends.
LEMMA PageGrows ==
    ASSUME NEW n \in Nat, NEW s \in Seq(1..n), NEW lo \in 1..n, NEW hi \in 1..n, lo <= hi
    PROVE  LET t == s \o Feed!Stretch(lo, hi)
           IN  t \in Seq(1..n) /\ t # <<>> /\ t[Len(t)] = hi
<1> DEFINE z == Feed!Stretch(lo, hi)
<1>1. z \in Seq(1..n) /\ Len(z) = hi - lo + 1 /\ z[hi - lo + 1] = hi
    BY StretchSeq
<1> HIDE DEF z
<1>2. /\ s \o z \in Seq(1..n)
      /\ Len(s \o z) = Len(s) + Len(z)
      /\ \A i \in 1..(Len(s) + Len(z)) :
            (s \o z)[i] = IF i <= Len(s) THEN s[i] ELSE z[i - Len(s)]
    BY <1>1, ConcatProperties
<1>3. Len(s) \in Nat /\ Len(z) >= 1 /\ Len(z) \in Nat
    BY <1>1
<1>4. (s \o z)[Len(s) + Len(z)] = z[Len(z)]
    BY <1>2, <1>3
<1> QED
    BY <1>1, <1>2, <1>3, <1>4 DEF z

LEMMA AnswersType ==
    ASSUME ClientOK, ArchiveOK, NEW q \in Reqs, NEW lo \in 1..(MaxMessages + 1),
           NEW hi \in 0..Len(archive), Answers(q, lo, hi), UNCHANGED archive
    PROVE  ClientOK'
<1>1. Len(archive) \in Nat /\ MaxMessages \in Nat
    BY PollAssumption DEF ArchiveOK
<1>2. shown' \in Seq(1..Len(archive'))
    <2>1. lo <= hi => lo \in 1..Len(archive) /\ hi \in 1..Len(archive)
        BY <1>1
    <2> QED
        BY <1>1, <2>1, PageGrows DEF ClientOK, Answers
<1>3. cursor' \in 0..Len(archive')
    BY <1>1 DEF ClientOK, Answers
<1> QED
    BY <1>2, <1>3 DEF ClientOK, Answers

LEMMA GoneType ==
    ASSUME ClientOK, NEW q \in Reqs, Gone(q), UNCHANGED archive
    PROVE  ClientOK'
BY DEF ClientOK, Gone

\* Every way a request ends: with a page, a 410 or another status.
LEMMA ReturnsType ==
    ASSUME TypeOK, NEW q \in Reqs, UNCHANGED others,
           \/ \E lo \in 1..(MaxMessages + 1), hi \in 0..Len(archive) : Answers(q, lo, hi)
           \/ Gone(q)
    PROVE  TypeOK'
<1>1. Ends(q) /\ UNCHANGED <<archive, feed, removal, bounds>>
    BY DEF Answers, Gone, others
<1>2. ReqOK' /\ ListOK'
    BY <1>1, EndsType DEF TypeOK
<1>3. ClientOK'
    BY <1>1, AnswersType, GoneType DEF TypeOK
<1>4. ArchiveOK' /\ FeedOK' /\ RestOK'
    BY <1>1 DEF TypeOK, ArchiveOK, FeedOK, RestOK, feed, removal, bounds
<1> QED
    BY <1>2, <1>3, <1>4 DEF TypeOK

\* A request that moves on.
LEMMA MovesType ==
    ASSUME TypeOK, NEW q \in Reqs, NEW pc \in Pcs, req' = [req EXCEPT ![q].pc = pc],
           UNCHANGED <<client, others>>, ListOK'
    PROVE  TypeOK'
<1>1. ReqOK'
    BY DEF TypeOK, ReqOK, Req, others
<1> QED
    BY <1>1 DEF TypeOK, others, feed, removal, bounds, client, ArchiveOK, FeedOK, ClientOK, RestOK

\* How a request may return: an answer with a page it read, or a refusal.
LEMMA Returns ==
    ASSUME TypeOK, NEW q \in Reqs,
           \/ PollShutOut(q) \/ PollTooMany(q) \/ PollNotStill(q) \/ PollRereads(q)
           \/ PollTimesOut(q) \/ PollFails(q)
           \/ PollReads(q) /\ Ends(q)
    PROVE  /\ UNCHANGED others
           /\ \/ \E lo \in 1..(MaxMessages + 1), hi \in 0..Len(archive) :
                    /\ Answers(q, lo, hi)
                    /\ \/ lo = 1 /\ hi = 0
                       \/ lo = ReadLo(req[q].after) /\ hi = ReadHi(req[q].after)
                       \/ req[q].pc = "wait" /\ lo = req[q].lo /\ hi = req[q].hi
              \/ Gone(q)
<1>1. UNCHANGED others
    BY DEF PollShutOut, PollTooMany, PollNotStill, PollRereads, PollTimesOut, PollFails, PollReads
<1>2. req[q].after \in 0..MaxMessages /\ req[q].lo \in 1..(MaxMessages + 1)
      /\ req[q].hi \in 0..MaxMessages /\ req[q].hi <= Len(archive)
    BY DEF TypeOK, ReqOK, Req
<1>3. ArchiveOK /\ Len(archive) \in Nat /\ MaxMessages \in Nat
    BY PollAssumption DEF TypeOK, ArchiveOK
<1>4. CASE PollShutOut(q) \/ PollNotStill(q)
    BY <1>1, <1>4 DEF PollShutOut, PollNotStill
<1>5. CASE PollTooMany(q) \/ PollFails(q)
    <2>1. 1 \in 1..(MaxMessages + 1) /\ 0 \in 0..Len(archive) /\ Answers(q, 1, 0)
        BY <1>3, <1>5 DEF PollTooMany, PollFails, Fails
    <2> QED
        BY <1>1, <2>1
<1>6. CASE PollRereads(q)
    BY <1>1, <1>2, <1>3, <1>6, ReadRange DEF PollRereads
<1>7. CASE PollTimesOut(q)
    <2>1. req[q].hi \in 0..Len(archive)
        BY <1>2, <1>3
    <2> QED
        BY <1>1, <1>2, <1>7, <2>1 DEF PollTimesOut
<1>8. CASE PollReads(q) /\ Ends(q)
    <2>1. req'[q].pc = "idle"
        BY <1>8 DEF TypeOK, Ends, ReqOK, ReqIdle
    <2>2. Answers(q, ReadLo(req[q].after), ReadHi(req[q].after))
        <3>1. \A r : r = [req[q] EXCEPT !.pc = "wait", !.lo = ReadLo(req[q].after),
                             !.hi = ReadHi(req[q].after), !.at = Len(archive)]
                => r.pc = "wait"
            BY DEF TypeOK, ReqOK, Req
        <3>2. CASE Empty(ReadLo(req[q].after), ReadHi(req[q].after))
            <4>1. req'[q].pc = "wait"
                BY <1>8, <3>1, <3>2 DEF TypeOK, PollReads, ReqOK
            <4> QED
                BY <2>1, <4>1
        <3> QED
            BY <1>8, <3>2 DEF PollReads
    <2> QED
        BY <1>1, <1>2, <1>3, <2>2, ReadRange
<1> QED
    BY <1>4, <1>5, <1>6, <1>7, <1>8

\* How a request moves on without returning.
LEMMA Moves ==
    ASSUME TypeOK, NEW q \in Reqs, PollLetIn(q) \/ PollRegisters(q) \/ PollWakes(q) \/ PollStill(q)
    PROVE  /\ UNCHANGED <<client, others>>
           /\ \E pc \in Pcs \ {"idle", "from", "wait"} :
                 /\ req' = [req EXCEPT ![q].pc = pc]
                 /\ \/ /\ UNCHANGED <<waiters, woken>>
                       /\ pc \in Registered <=> req[q].pc \in Registered
                    \/ /\ waiters' = waiters \cup {q} /\ UNCHANGED woken
                       /\ pc \in Registered /\ req[q].pc = "register"
<1>1. CASE PollLetIn(q)
    <2>1. UNCHANGED <<waiters, woken, client, others>> /\ req[q].pc = "from"
          /\ req' = [req EXCEPT ![q].pc = "register"]
        BY <1>1 DEF PollLetIn
    <2>2. "register" \in Pcs \ {"idle", "from", "wait"} /\ "register" \notin Registered
          /\ "from" \notin Registered
        BY DEF Pcs, Registered
    <2> QED
        BY <2>1, <2>2
<1>2. CASE PollRegisters(q)
    BY <1>2 DEF PollRegisters, Pcs, Registered
<1>3. CASE PollWakes(q)
    BY <1>3 DEF PollWakes, Pcs, Registered
<1>4. CASE PollStill(q)
    BY <1>4 DEF PollStill, Pcs, Registered
<1> QED
    BY <1>1, <1>2, <1>3, <1>4

\* The read that starts a wait.
LEMMA StartsWaiting ==
    ASSUME TypeOK, NEW q \in Reqs, PollReads(q), ~Ends(q)
    PROVE  /\ UNCHANGED <<waiters, woken, client, others>>
           /\ req[q].pc = "read" /\ req'[q].pc = "wait" /\ req'[q].after = req[q].after
           /\ req'[q].lo = ReadLo(req[q].after) /\ req'[q].hi = ReadHi(req[q].after)
           /\ req'[q].at = Len(archive)
           /\ \A p \in Reqs : p # q => req'[p] = req[p]
           /\ req' \in [Reqs -> Req] /\ \A p \in Reqs : req'[p].hi <= Len(archive)
<1>1. req \in [Reqs -> Req] /\ req[q] \in Req
    BY DEF TypeOK, ReqOK
<1>2. /\ UNCHANGED <<waiters, woken, client, others>> /\ req[q].pc = "read"
      /\ req' = [req EXCEPT ![q] = [@ EXCEPT !.pc = "wait", !.lo = ReadLo(req[q].after),
                    !.hi = ReadHi(req[q].after), !.at = Len(archive)]]
    BY DEF PollReads, Answers
<1>3. req'[q] = [req[q] EXCEPT !.pc = "wait", !.lo = ReadLo(req[q].after),
                    !.hi = ReadHi(req[q].after), !.at = Len(archive)]
      /\ \A p \in Reqs : p # q => req'[p] = req[p]
    BY <1>1, <1>2
<1>4. /\ ReadLo(req[q].after) \in 1..(MaxMessages + 1)
      /\ ReadHi(req[q].after) \in 0..MaxMessages /\ ReadHi(req[q].after) \in 0..Len(archive)
    <2>1. req[q].after \in 0..MaxMessages
        BY <1>1 DEF Req
    <2> QED
        BY <2>1, ReadRange DEF TypeOK
<1>5. Len(archive) \in 0..MaxMessages
    BY PollAssumption DEF TypeOK, ArchiveOK
<1>6. req'[q] \in Req
    BY <1>1, <1>3, <1>4, <1>5 DEF Req, Pcs
<1>7. req' \in [Reqs -> Req]
    BY <1>1, <1>2, <1>3, <1>6
<1>8. /\ req'[q].pc = "wait" /\ req'[q].after = req[q].after
      /\ req'[q].lo = ReadLo(req[q].after) /\ req'[q].hi = ReadHi(req[q].after)
      /\ req'[q].at = Len(archive)
    BY <1>1, <1>3 DEF Req
<1>9. \A p \in Reqs : req'[p].hi <= Len(archive)
    <2>1. req'[q].hi <= Len(archive)
        BY <1>4, <1>5, <1>8
    <2> QED
        BY <1>3, <2>1 DEF TypeOK, ReqOK
<1> QED
    BY <1>2, <1>3, <1>7, <1>8, <1>9

\* The steps that leave the requests alone, and the restart.
LEMMA OtherTypes ==
    ASSUME TypeOK,
           \/ \E shows \in BOOLEAN : EntryArrives(shows)
           \/ \E m \in Ids : PushHandled(m) \/ PushWakes(m)
           \/ ConnectionLost \/ DropRemoves \/ DropKicks \/ DropWakes \/ Restart
    PROVE  TypeOK'
<1>len. archive \in Seq(BOOLEAN) /\ Len(archive) \in Nat /\ Len(archive) <= MaxMessages
        /\ MaxMessages \in Nat
    BY PollAssumption DEF TypeOK, ArchiveOK
<1>1. ASSUME NEW shows \in BOOLEAN, EntryArrives(shows)
      PROVE  TypeOK'
    <2>1. archive' \in Seq(BOOLEAN) /\ Len(archive') = Len(archive) + 1 /\ Len(archive) < MaxMessages
        BY <1>1, <1>len DEF EntryArrives
    <2>2. 1..Len(archive) \subseteq 1..Len(archive') /\ 0..Len(archive) \subseteq 0..Len(archive')
          /\ Len(archive') \in 1..Len(archive')
        BY <1>len, <2>1
    <2>3. ArchiveOK'
        BY <1>len, <2>1 DEF ArchiveOK
    <2>4. FeedOK'
        BY <1>1, <2>2 DEF TypeOK, FeedOK, EntryArrives
    <2>5. ReqOK'
        <3>1. \A q \in Reqs : req[q].hi \in Int /\ req[q].hi <= Len(archive)
            BY DEF TypeOK, ReqOK, Req
        <3> QED
            BY <1>1, <1>len, <2>1, <3>1 DEF TypeOK, ReqOK, EntryArrives, server
    <2>6. ClientOK'
        BY <1>1, <2>2 DEF TypeOK, ClientOK, EntryArrives, client
    <2> QED
        BY <1>1, <2>3, <2>4, <2>5, <2>6
        DEF TypeOK, ListOK, RestOK, EntryArrives, server, removal, bounds
<1>2. ASSUME NEW m \in Ids, PushHandled(m)
      PROVE  TypeOK'
    <2>1. FeedOK'
        BY <1>2 DEF TypeOK, FeedOK, PushHandled
    <2> QED
        BY <1>2, <2>1 DEF TypeOK, ArchiveOK, ListOK, ReqOK, ClientOK, RestOK, PushHandled, server,
                          client, removal, bounds
<1>3. ASSUME NEW m \in Ids, PushWakes(m)
      PROVE  TypeOK'
    BY <1>3 DEF TypeOK, ArchiveOK, FeedOK, ListOK, ReqOK, ClientOK, RestOK, PushWakes, WakeGuest,
                client, removal, bounds
<1>4. CASE ConnectionLost
    <2>1. lost' \in 0..MaxLost
        BY <1>4, PollAssumption DEF TypeOK, RestOK, ConnectionLost
    <2> QED
        BY <1>4, <2>1 DEF TypeOK, ArchiveOK, FeedOK, ListOK, ReqOK, ClientOK, RestOK, ConnectionLost,
                          feed, server, removal
<1>5. CASE DropRemoves \/ DropKicks
    BY <1>5 DEF TypeOK, ArchiveOK, FeedOK, ListOK, ReqOK, ClientOK, RestOK, DropRemoves, DropKicks,
                feed, server, client, bounds
<1>6. CASE DropWakes
    BY <1>6 DEF TypeOK, ArchiveOK, FeedOK, ListOK, ReqOK, ClientOK, RestOK, DropWakes, WakeGuest,
                feed, client, bounds
<1>7. CASE Restart
    <2>1. restarts' \in 0..MaxRestarts
        BY <1>7, PollAssumption DEF TypeOK, RestOK, Restart
    <2>2. ReqOK'
        BY <1>7, <1>len, IdleType DEF ReqOK, Restart, ReqIdle
    <2> QED
        BY <1>7, <2>1, <2>2 DEF TypeOK, ArchiveOK, FeedOK, ListOK, ClientOK, RestOK, Restart
<1> QED
    BY <1>1, <1>2, <1>3, <1>4, <1>5, <1>6, <1>7

LEMMA ComesType == ASSUME TypeOK, NEW q \in Reqs, PollComes(q) PROVE TypeOK'
<1>1. cursor \in 0..MaxMessages
    BY PollAssumption DEF TypeOK, ArchiveOK, ClientOK
<1>2. [ReqIdle EXCEPT !.pc = "from", !.after = cursor] \in Req
    BY <1>1, IdleType DEF Req, Pcs
<1>3. [ReqIdle EXCEPT !.pc = "from", !.after = cursor].hi = 0
    BY DEF ReqIdle
<1>4. Len(archive) \in Nat
    BY DEF TypeOK, ArchiveOK
<1>5. ReqOK'
    BY <1>2, <1>3, <1>4 DEF TypeOK, ReqOK, PollComes, others
<1> QED
    BY <1>5 DEF TypeOK, ArchiveOK, FeedOK, ListOK, ClientOK, RestOK, PollComes, others, feed,
                removal, bounds

\* The shapes a step can have, for the proofs below.
LEMMA NextCases ==
    ASSUME Next
    PROVE  \/ \E shows \in BOOLEAN : EntryArrives(shows)
           \/ \E m \in Ids : PushHandled(m) \/ PushWakes(m)
           \/ ConnectionLost \/ DropRemoves \/ DropKicks \/ DropWakes \/ Restart
           \/ \E q \in Reqs :
                 \/ PollComes(q)
                 \/ PollLetIn(q) \/ PollRegisters(q) \/ PollWakes(q) \/ PollStill(q)
                 \/ PollReads(q) /\ ~Ends(q)
                 \/ \/ PollShutOut(q) \/ PollTooMany(q) \/ PollNotStill(q) \/ PollRereads(q)
                    \/ PollTimesOut(q) \/ PollFails(q)
                    \/ PollReads(q) /\ Ends(q)
BY DEF Next, PollSteps

LEMMA TypeNext == TypeOK /\ [Next]_vars => TypeOK'
<1> SUFFICES ASSUME TypeOK, [Next]_vars PROVE TypeOK'
    OBVIOUS
<1>1. CASE UNCHANGED vars
    BY <1>1 DEF TypeOK, ArchiveOK, FeedOK, ListOK, ReqOK, ClientOK, RestOK, vars, feed, server,
                client, removal, bounds
<1>2. ASSUME NEW q \in Reqs,
             PollLetIn(q) \/ PollRegisters(q) \/ PollWakes(q) \/ PollStill(q)
      PROVE  TypeOK'
    <2>1. ListOK'
        BY <1>2, Moves DEF TypeOK, ListOK
    <2> QED
        BY <1>2, <2>1, Moves, MovesType
<1>3. ASSUME NEW q \in Reqs, PollReads(q), ~Ends(q)
      PROVE  TypeOK'
    BY <1>3, StartsWaiting
    DEF TypeOK, ArchiveOK, FeedOK, ListOK, ReqOK, ClientOK, RestOK, others, feed, client, removal, bounds
<1>4. ASSUME NEW q \in Reqs,
             \/ PollShutOut(q) \/ PollTooMany(q) \/ PollNotStill(q) \/ PollRereads(q)
             \/ PollTimesOut(q) \/ PollFails(q)
             \/ PollReads(q) /\ Ends(q)
      PROVE  TypeOK'
    BY <1>4, Returns, ReturnsType
<1> QED
    BY <1>1, <1>2, <1>3, <1>4, NextCases, OtherTypes, ComesType

LEMMA TypeInit == Init => TypeOK
<1> SUFFICES ASSUME Init PROVE TypeOK
    OBVIOUS
<1>1. archive \in Seq(BOOLEAN) /\ Len(archive) = 0
    BY DEF Init
<1> QED
    BY <1>1, IdleType, PollAssumption
    DEF Init, TypeOK, ArchiveOK, FeedOK, ListOK, ReqOK, ClientOK, RestOK, ReqIdle

\* Nothing is read, pushed or shown that the archive does not hold.
THEOREM PollTypeCorrect == Spec => []TypeOK
    BY TypeInit, TypeNext, PTL DEF Spec

-----------------------------------------------------------------------------
(* The list of waiters.                                                    *)

Polling == ListedOrWoken /\ LandingInBetweenWakes

\* A handler that returns leaves nothing behind.
LEMMA EndsKeeps ==
    ASSUME TypeOK, Polling, NEW q \in Reqs, Ends(q), UNCHANGED <<archive, feed>>
    PROVE  Polling'
<1>1. req'[q].pc = "idle" /\ \A p \in Reqs : p # q => req'[p] = req[p]
    BY DEF TypeOK, ReqOK, Ends, ReqIdle
<1>2. ListedOrWoken'
    BY <1>1 DEF Polling, ListedOrWoken, Ends, Registered
<1>3. LandingInBetweenWakes'
    BY <1>1 DEF Polling, LandingInBetweenWakes, Ends, feed
<1> QED
    BY <1>2, <1>3 DEF Polling

\* A request that moves on is on the list from its registration.
LEMMA MovesKeeps ==
    ASSUME TypeOK, Polling, NEW q \in Reqs,
           PollLetIn(q) \/ PollRegisters(q) \/ PollWakes(q) \/ PollStill(q)
    PROVE  Polling'
<1>1. PICK pc \in Pcs \ {"idle", "from", "wait"} :
         /\ req' = [req EXCEPT ![q].pc = pc]
         /\ \/ /\ UNCHANGED <<waiters, woken>>
               /\ pc \in Registered <=> req[q].pc \in Registered
            \/ /\ waiters' = waiters \cup {q} /\ UNCHANGED woken
               /\ pc \in Registered /\ req[q].pc = "register"
    BY Moves
<1>2. UNCHANGED <<archive, feed>>
    BY Moves DEF others
<1>3. req'[q].pc = pc /\ \A p \in Reqs : p # q => req'[p] = req[p]
    BY <1>1 DEF TypeOK, ReqOK, Req
<1>4. ListedOrWoken'
    BY <1>1, <1>3 DEF Polling, ListedOrWoken, Registered
<1>5. LandingInBetweenWakes'
    BY <1>1, <1>2, <1>3 DEF Polling, LandingInBetweenWakes, feed
<1> QED
    BY <1>4, <1>5 DEF Polling

\* WakeGuest leaves no request waiting on an open channel.
LEMMA WakeKeeps ==
    ASSUME Polling, WakeGuest, UNCHANGED req
    PROVE  Polling'
<1>1. ListedOrWoken'
    BY DEF Polling, ListedOrWoken, WakeGuest
<1>2. \A q \in Reqs : req'[q].pc = "wait" => q \in woken'
    BY DEF Polling, ListedOrWoken, WakeGuest, Registered
<1> QED
    BY <1>1, <1>2 DEF Polling, LandingInBetweenWakes

LEMMA PollingNext == TypeOK /\ Polling /\ [Next]_vars => Polling'
<1> SUFFICES ASSUME TypeOK, Polling, [Next]_vars PROVE Polling'
    OBVIOUS
<1>len. archive \in Seq(BOOLEAN) /\ Len(archive) \in Nat
    BY DEF TypeOK, ArchiveOK
<1>1. ASSUME NEW shows \in BOOLEAN, EntryArrives(shows)
      PROVE  Polling'
    <2>1. Len(archive') = Len(archive) + 1
        BY <1>1, <1>len DEF EntryArrives
    <2>2. UNCHANGED <<waiters, woken, req, inflight>>
          /\ pushes' \cup missed' = pushes \cup missed \cup {Len(archive) + 1}
        BY <1>1, <2>1 DEF EntryArrives, server
    <2>3. \A q \in Reqs : \A i \in (req[q].at + 1)..(Len(archive) + 1) :
             i \in (req[q].at + 1)..Len(archive) \/ i = Len(archive) + 1
        BY <1>len DEF TypeOK, ReqOK, Req
    <2>4. LandingInBetweenWakes'
        <3> SUFFICES ASSUME NEW q \in Reqs, req[q].pc = "wait", q \notin woken,
                            NEW i \in (req[q].at + 1)..(Len(archive) + 1)
                     PROVE  i \in pushes' \cup inflight' \cup missed'
            BY <2>1, <2>2 DEF LandingInBetweenWakes
        <3>1. CASE i \in (req[q].at + 1)..Len(archive)
            BY <2>2, <3>1 DEF Polling, LandingInBetweenWakes
        <3>2. CASE i = Len(archive) + 1
            BY <2>2, <3>2
        <3> QED
            BY <2>3, <3>1, <3>2
    <2> QED
        BY <2>2, <2>4 DEF Polling, ListedOrWoken
<1>2. ASSUME NEW m \in Ids, PushHandled(m)
      PROVE  Polling'
    <2>1. /\ UNCHANGED <<archive, waiters, woken, req>>
          /\ pushes' \cup inflight' \cup missed' = pushes \cup inflight \cup missed
        BY <1>2 DEF PushHandled, server
    <2> QED
        BY <2>1 DEF Polling, ListedOrWoken, LandingInBetweenWakes
<1>3. CASE (\E m \in Ids : PushWakes(m)) \/ DropWakes
    BY <1>3, WakeKeeps DEF PushWakes, DropWakes
<1>4. CASE ConnectionLost \/ DropRemoves \/ DropKicks
    BY <1>4 DEF ConnectionLost, DropRemoves, DropKicks, feed, server, Polling, ListedOrWoken,
                LandingInBetweenWakes
<1>5. CASE Restart
    <2>1. \A q \in Reqs : req'[q].pc = "idle"
        BY <1>5 DEF Restart, ReqIdle
    <2> QED
        BY <1>5, <2>1 DEF Restart, Polling, ListedOrWoken, LandingInBetweenWakes, Registered
<1>6. ASSUME NEW q \in Reqs, PollComes(q)
      PROVE  Polling'
    <2>1. /\ UNCHANGED <<archive, feed, waiters, woken>> /\ req[q].pc = "idle"
          /\ req'[q].pc = "from" /\ \A p \in Reqs : p # q => req'[p] = req[p]
        BY <1>6 DEF PollComes, others, TypeOK, ReqOK, ReqIdle
    <2> QED
        BY <2>1 DEF Polling, ListedOrWoken, LandingInBetweenWakes, Registered, feed
<1>7. ASSUME NEW q \in Reqs, PollReads(q), ~Ends(q)
      PROVE  Polling'
    <2>1. /\ UNCHANGED <<archive, feed, waiters, woken>> /\ req[q].pc = "read"
          /\ req'[q].pc = "wait" /\ req'[q].at = Len(archive)
          /\ \A p \in Reqs : p # q => req'[p] = req[p]
        BY <1>7, StartsWaiting DEF others
    <2>2. (req'[q].at + 1)..Len(archive') = {}
        BY <1>len, <2>1
    <2>3. ListedOrWoken'
        BY <2>1 DEF Polling, ListedOrWoken, Registered
    <2>4. LandingInBetweenWakes'
        BY <2>1, <2>2 DEF Polling, LandingInBetweenWakes, feed
    <2> QED
        BY <2>3, <2>4 DEF Polling
<1>8. ASSUME NEW q \in Reqs,
             \/ PollShutOut(q) \/ PollTooMany(q) \/ PollNotStill(q) \/ PollRereads(q)
             \/ PollTimesOut(q) \/ PollFails(q)
             \/ PollReads(q) /\ Ends(q)
      PROVE  Polling'
    <2>1. Ends(q) /\ UNCHANGED <<archive, feed>>
        BY <1>8, Returns DEF Answers, Gone, others
    <2> QED
        BY <2>1, EndsKeeps
<1>9. CASE UNCHANGED vars
    BY <1>9 DEF vars, feed, server, Polling, ListedOrWoken, LandingInBetweenWakes
<1> QED
    BY <1>1, <1>2, <1>3, <1>4, <1>5, <1>6, <1>7, <1>8, <1>9, NextCases, MovesKeeps

LEMMA PollingInit == Init => Polling
BY DEF Init, Polling, ListedOrWoken, LandingInBetweenWakes, ReqIdle, Registered

\* The two together are inductive under the types.
THEOREM PollingKept == Spec => []Polling
    BY TypeInit, TypeNext, PollingInit, PollingNext, PTL DEF Spec

\* No request under way is off the list unwoken, none that returned is on it,
\* and WakeGuest closes no channel twice.
THEOREM ListExact == Spec => []ListedOrWoken
<1>1. Polling => ListedOrWoken
    BY DEF Polling
<1> QED
    BY <1>1, PollingKept, PTL

\* Registered before reading: a message landing in between still wakes the
\* request.
THEOREM NoLostWakeup == Spec => []LandingInBetweenWakes
<1>1. Polling => LandingInBetweenWakes
    BY DEF Polling
<1> QED
    BY <1>1, PollingKept, PTL

-----------------------------------------------------------------------------
(* The page implements GuestFeed.                                          *)

\* The page's cursor is the end of what it shows, the request it listens to
\* asks for what comes after, and a page kept over a wait starts there.  A page that
\* was stopped listens to nothing.
FeedInv ==
    /\ page = "stopped" => cur = NoReq
    /\ shown = <<>> => cursor = 0
    /\ shown # <<>> => shown[Len(shown)] = cursor
    /\ \A q \in Reqs : cur = q => req[q].after = cursor
    /\ \A q \in Reqs : req[q].pc = "wait" /\ req[q].after > 0 => req[q].lo = req[q].after + 1

\* An answer shows what comes next, or nothing.
LEMMA AnswerShows ==
    ASSUME TypeOK, FeedInv, NEW q \in Reqs, UNCHANGED others,
           NEW lo \in 1..(MaxMessages + 1), NEW hi \in 0..Len(archive), Answers(q, lo, hi),
           \/ lo = 1 /\ hi = 0
           \/ lo = ReadLo(req[q].after) /\ hi = ReadHi(req[q].after)
           \/ req[q].pc = "wait" /\ lo = req[q].lo /\ hi = req[q].hi
    PROVE  FeedInv' /\ [Feed!Show]_<<archive, shown, page>>
<1>t. /\ Len(archive) \in Nat /\ MaxMessages \in Nat
      /\ cursor \in 0..Len(archive) /\ shown \in Seq(1..Len(archive))
      /\ req[q].after \in 0..MaxMessages /\ ArchiveOK
    BY PollAssumption DEF TypeOK, ArchiveOK, ClientOK, ReqOK, Req
<1>1. req'[q].pc = "idle" /\ (\A p \in Reqs : p # q => req'[p] = req[p]) /\ UNCHANGED <<archive, page>>
    BY DEF Answers, Ends, TypeOK, ReqOK, ReqIdle, others
<1>2. CASE cur # q \/ lo > hi
    <2>1. ~(lo <= hi) \/ cur # q
        BY <1>2, <1>t
    <2>2. shown' = shown /\ cursor' = cursor /\ cur' \in {cur, NoReq} /\ cur' # q
        BY <1>2, <1>t, <2>1, PollAssumption DEF Answers
    <2>3. FeedInv'
        BY <1>1, <2>2, PollAssumption DEF FeedInv
    <2> QED
        BY <1>1, <2>2, <2>3
<1>3. CASE cur = q /\ lo <= hi
    <2>1. cur' = NoReq /\ cursor' = hi /\ shown' = shown \o Feed!Stretch(lo, hi)
        BY <1>3 DEF Answers
    <2>2. req[q].after = cursor
        BY <1>3 DEF FeedInv
    <2>3. cursor > 0 => lo = cursor + 1
        <3>1. ~(lo = 1 /\ hi = 0)
            BY <1>3
        <3> QED
            BY <1>t, <2>2, <3>1, ReadRange DEF FeedInv
    <2>4. hi \in 1..Len(archive) /\ lo \in 1..Len(archive)
        BY <1>3, <1>t
    <2>5. shown' # <<>> /\ shown'[Len(shown')] = hi
        BY <1>3, <1>t, <2>1, <2>4, PageGrows
    <2>6. FeedInv'
        BY <1>1, <1>t, <2>1, <2>5, PollAssumption DEF FeedInv
    <2>7. shown = <<>> \/ lo = shown[Len(shown)] + 1
        <3>1. SUFFICES ASSUME shown # <<>> PROVE lo = shown[Len(shown)] + 1
            OBVIOUS
        <3>2. Len(shown) \in 1..Len(shown) /\ shown[Len(shown)] = cursor
            BY <1>t, <3>1 DEF FeedInv
        <3>3. cursor > 0
            BY <1>t, <3>2
        <3> QED
            BY <2>3, <3>2, <3>3
    <2>8. page = "open"
        BY <1>3, PollAssumption DEF FeedInv, TypeOK, ClientOK
    <2>9. Feed!Show
        BY <1>1, <1>3, <2>1, <2>4, <2>7, <2>8 DEF Feed!Show
    <2> QED
        BY <2>6, <2>9
<1> QED
    BY <1>2, <1>3, <1>t

\* Every step of the gateway, the page and ejabberd is a step of GuestFeed or
\* changes nothing the page shows.
LEMMA FeedNext ==
    TypeOK /\ FeedInv /\ [Next]_vars
    => FeedInv' /\ [Feed!Arrive \/ Feed!Show \/ Feed!Stop]_<<archive, shown, page>>
<1> SUFFICES ASSUME TypeOK, FeedInv, [Next]_vars
             PROVE  FeedInv' /\ [Feed!Arrive \/ Feed!Show \/ Feed!Stop]_<<archive, shown, page>>
    OBVIOUS
<1>req. req \in [Reqs -> Req]
    BY DEF TypeOK, ReqOK
<1>same. ASSUME UNCHANGED <<req, client>>
         PROVE  FeedInv'
    BY <1>same DEF FeedInv, client
<1>1. ASSUME NEW shows \in BOOLEAN, EntryArrives(shows)
      PROVE  FeedInv' /\ Feed!Arrive
    BY <1>1, <1>same DEF EntryArrives, server, client, Feed!Arrive
<1>2. ASSUME NEW m \in Ids, PushHandled(m) \/ PushWakes(m)
      PROVE  FeedInv' /\ UNCHANGED <<archive, shown, page>>
    BY <1>2, <1>same DEF PushHandled, PushWakes, server, client
<1>3. CASE DropRemoves \/ DropKicks \/ DropWakes \/ UNCHANGED vars
    BY <1>3, <1>same DEF DropRemoves, DropKicks, DropWakes, vars, server, client
<1>4. CASE ConnectionLost
    BY <1>4, PollAssumption DEF ConnectionLost, server, FeedInv
<1>5. CASE Restart
    <2>1. \A q \in Reqs : req'[q].pc = "idle" /\ cur' # q
        BY <1>5, PollAssumption DEF Restart, ReqIdle
    <2> QED
        BY <1>5, <2>1 DEF Restart, FeedInv
<1>6. ASSUME NEW q \in Reqs, PollComes(q)
      PROVE  FeedInv' /\ UNCHANGED <<archive, shown, page>>
    <2>1. /\ UNCHANGED <<archive, shown, cursor, page>> /\ cur' = q /\ page = "open"
          /\ req'[q].pc = "from" /\ req'[q].after = cursor
          /\ \A p \in Reqs : p # q => req'[p] = req[p]
        BY <1>6, <1>req DEF PollComes, others, ReqIdle
    <2> QED
        BY <2>1 DEF FeedInv
<1>7. ASSUME NEW q \in Reqs, PollLetIn(q) \/ PollRegisters(q) \/ PollWakes(q) \/ PollStill(q)
      PROVE  FeedInv' /\ UNCHANGED <<archive, shown, page>>
    <2>1. PICK pc \in Pcs \ {"idle", "from", "wait"} : req' = [req EXCEPT ![q].pc = pc]
        BY <1>7, Moves
    <2>2. UNCHANGED <<archive, client>>
        BY <1>7, Moves DEF others
    <2>3. req'[q].pc # "wait" /\ req'[q].after = req[q].after
          /\ \A p \in Reqs : p # q => req'[p] = req[p]
        BY <1>req, <2>1 DEF Req
    <2> QED
        BY <2>2, <2>3 DEF FeedInv, client
<1>8. ASSUME NEW q \in Reqs, PollReads(q), ~Ends(q)
      PROVE  FeedInv' /\ UNCHANGED <<archive, shown, page>>
    <2>1. /\ UNCHANGED <<archive, client>>
          /\ req'[q].after = req[q].after /\ req'[q].lo = ReadLo(req[q].after)
          /\ \A p \in Reqs : p # q => req'[p] = req[p]
        BY <1>8, StartsWaiting DEF others
    <2>2. req[q].after > 0 => ReadLo(req[q].after) = req[q].after + 1
        <3>1. req[q].after \in 0..MaxMessages
            BY <1>req DEF Req
        <3> QED
            BY <3>1, ReadRange DEF TypeOK
    <2> QED
        BY <2>1, <2>2 DEF FeedInv, client
<1>9. ASSUME NEW q \in Reqs,
             \/ PollShutOut(q) \/ PollTooMany(q) \/ PollNotStill(q) \/ PollRereads(q)
             \/ PollTimesOut(q) \/ PollFails(q)
             \/ PollReads(q) /\ Ends(q)
      PROVE  FeedInv' /\ [Feed!Show \/ Feed!Stop]_<<archive, shown, page>>
    <2>1. CASE Gone(q)
        <3>1. /\ req'[q].pc = "idle" /\ (\A p \in Reqs : p # q => req'[p] = req[p])
              /\ UNCHANGED <<archive, shown, cursor>> /\ cur' \in {cur, NoReq} /\ cur' # q
              /\ (page' = "stopped" /\ cur' = NoReq) \/ page' = page
            BY <1>9, <2>1, <1>req, Returns, PollAssumption DEF Gone, Ends, ReqIdle, others
        <3>2. FeedInv'
            BY <3>1, PollAssumption DEF FeedInv
        <3> QED
            BY <3>1, <3>2 DEF Feed!Stop
    <2>2. CASE ~Gone(q)
        BY <1>9, <2>2, Returns, AnswerShows
    <2> QED
        BY <2>1, <2>2
<1> QED
    BY <1>1, <1>2, <1>3, <1>4, <1>5, <1>6, <1>7, <1>8, <1>9, NextCases

LEMMA FeedStart == Init => FeedInv /\ Feed!FeedInit
BY PollAssumption DEF Init, FeedInv, ReqIdle, Feed!FeedInit

\* The long poll implements the feed: whatever pushes, connections and
\* answers are lost, the page shows the archive without gaps or repetitions.
THEOREM PollImplementsFeed == Spec => FeedKept
<1>1. Spec => Feed!FeedInit /\ [][Feed!Arrive \/ Feed!Show \/ Feed!Stop]_<<archive, shown, page>>
    BY TypeInit, TypeNext, FeedStart, FeedNext, PTL DEF Spec
<1> QED
    BY <1>1 DEF FeedKept, Feed!FeedSpec, Feed!feedVars
=============================================================================
