----------------------------- MODULE FiasProofs -----------------------------
(***************************************************************************)
(* Proofs about FiasBridge, for any number of scripts, messages,           *)
(* parameters and stops.                                                   *)
(***************************************************************************)
EXTENDS FiasBridgeInv, FiniteSetTheorems, TLAPS

-----------------------------------------------------------------------------
(* What the queries return.                                                *)

\* How many of S come up to j, j included: its place in an ORDER BY id.
Rank(S, j) == Cardinality({x \in S : x <= j})

\* Places are a numbering of S: one each, from 1 to the number of rows, and in
\* the order of the ids.
LEMMA RankNumbers ==
    ASSUME NEW S \in SUBSET Ids
    PROVE  /\ IsFiniteSet(S) /\ Cardinality(S) \in Nat
           /\ \A j \in S : Rank(S, j) \in 1..Cardinality(S)
           /\ \A i, j \in S : i < j => Rank(S, i) < Rank(S, j)
           /\ \A k \in 1..Cardinality(S) : \E j \in S : Rank(S, j) = k
<1>1. IsFiniteSet(Ids)
    BY FiasAssumption, FS_Interval DEF Ids
<1>2. \A T \in SUBSET S : /\ IsFiniteSet(T) /\ Cardinality(T) \in Nat
                          /\ Cardinality(T) <= Cardinality(S)
    BY <1>1, FS_Subset, FS_CardinalityType
<1>3. IsFiniteSet(S) /\ Cardinality(S) \in Nat
    BY <1>2
<1>4. \A j \in S : j \in Nat
    BY FiasAssumption DEF Ids
<1>5. ASSUME NEW j \in S
      PROVE  Rank(S, j) \in 1..Cardinality(S)
    <2> DEFINE T == {x \in S : x <= j}
    <2>1. T \in SUBSET S /\ j \in T
        BY <1>4
    <2>2. Cardinality(T) \in Nat /\ Cardinality(T) <= Cardinality(S)
        BY <1>2, <2>1
    <2>3. Cardinality(T) # 0
        BY <1>2, <2>1, FS_EmptySet
    <2> QED
        BY <1>3, <2>2, <2>3 DEF Rank
<1>6. ASSUME NEW i \in S, NEW j \in S, i < j
      PROVE  Rank(S, i) < Rank(S, j)
    <2> DEFINE T == {x \in S : x <= i}
               U == {x \in S : x <= j}
    <2>1. T \in SUBSET U /\ T # U /\ U \in SUBSET S /\ T \in SUBSET S
        BY <1>4, <1>6
    <2>2. IsFiniteSet(U) /\ Cardinality(U) \in Nat /\ Cardinality(T) \in Nat
        BY <1>2, <2>1
    <2>3. Cardinality(T) <= Cardinality(U) /\ Cardinality(T) # Cardinality(U)
        BY <2>1, <2>2, FS_Subset
    <2> QED
        BY <2>2, <2>3 DEF Rank
<1>7. ASSUME NEW k \in 1..Cardinality(S)
      PROVE  \E j \in S : Rank(S, j) = k
    <2> DEFINE n == Cardinality(S)
               f == [j \in S |-> Rank(S, j)]
    <2>1. f \in [S -> 1..n]
        BY <1>5
    <2>2. \A i, j \in S : i # j => f[i] # f[j]
        <3>1. \A j \in S : Rank(S, j) \in Nat
            BY <1>3, <1>5
        <3>2. \A i, j \in S : i # j => i < j \/ j < i
            BY <1>4
        <3> QED
            BY <3>1, <3>2, <1>6
    <2>3. f \in Injection(S, 1..n)
        BY <2>1, <2>2 DEF Injection, IsInjective
    <2>4. IsFiniteSet(1..n) /\ Cardinality(1..n) = n
        BY <1>3, FS_Interval
    <2>5. f \in Surjection(S, 1..n)
        BY <2>3, <2>4, FS_Injection
    <2>6. \E j \in S : f[j] = k
        BY <2>5 DEF Surjection
    <2> QED
        BY <2>6
<1> QED
    BY <1>3, <1>5, <1>6, <1>7

\* SELECT ... ORDER BY id LIMIT 1.
LEMMA OldestIsFirst ==
    ASSUME NEW S \in SUBSET Ids, S # {}
    PROVE  Oldest(S) \in S /\ \A j \in S : Oldest(S) <= j
<1>1. IsFiniteSet(S) /\ Cardinality(S) \in Nat
    BY RankNumbers
<1>2. Cardinality(S) # 0
    BY <1>1, FS_EmptySet
<1>3. PICK i \in S : Rank(S, i) = 1
    BY <1>1, <1>2, RankNumbers
<1>4. \A j \in S : j \in Nat
    BY FiasAssumption DEF Ids
<1>5. \A j \in S : i <= j
    <2>1. \A j \in S : Rank(S, j) \in 1..Cardinality(S)
        BY RankNumbers
    <2>2. \A j \in S : j < i => Rank(S, j) < Rank(S, i)
        BY RankNumbers
    <2> QED
        BY <2>1, <2>2, <1>3, <1>4, <1>1
<1> QED
    BY <1>5 DEF Oldest

\* The rows dispatcher.php gets: those of S, each of them once, in order.
LEMMA RowsAreInOrder ==
    ASSUME NEW S \in SUBSET Ids
    PROVE  LET b == RowsInOrder(S) IN
           /\ DOMAIN b = 1..Cardinality(S) /\ Cardinality(S) \in Nat
           /\ \A k \in DOMAIN b : /\ b[k].id \in S
                                  /\ b[k] = [id |-> b[k].id, cmd |-> msgs[b[k].id].cmd,
                                             has |-> msgs[b[k].id].has]
           /\ \A k, l \in DOMAIN b : k < l => b[k].id < b[l].id
           /\ \A i \in S : \E k \in DOMAIN b : b[k].id = i
<1> DEFINE b == RowsInOrder(S)
           n == Cardinality(S)
           row(k) == CHOOSE j \in S : Rank(S, j) = k
<1>nat. \A j \in S : j \in Nat
    BY FiasAssumption DEF Ids
<1>1. n \in Nat
    BY RankNumbers
<1>2. \A k \in 1..n : row(k) \in S /\ Rank(S, row(k)) = k
    BY RankNumbers
<1>3. DOMAIN b = 1..n
    BY DEF RowsInOrder
<1>4. ASSUME NEW k \in 1..n
      PROVE  b[k] = [id |-> row(k), cmd |-> msgs[row(k)].cmd, has |-> msgs[row(k)].has]
    <2> DEFINE g == [m \in 1..n |-> [id |-> row(m), cmd |-> msgs[row(m)].cmd, has |-> msgs[row(m)].has]]
    <2>1. b = g
        BY DEF RowsInOrder, Rank
    <2> HIDE DEF b, row
    <2> QED
        BY <2>1
<1> HIDE DEF row, b
<1>5. ASSUME NEW k \in 1..n
      PROVE  b[k].id = row(k)
    <2>1. b[k] = [id |-> row(k), cmd |-> msgs[row(k)].cmd, has |-> msgs[row(k)].has]
        BY <1>4
    <2> QED
        BY <2>1
<1>6. ASSUME NEW k \in 1..n, NEW l \in 1..n, k < l
      PROVE  row(k) < row(l)
    <2>1. row(k) \in S /\ row(l) \in S /\ Rank(S, row(k)) = k /\ Rank(S, row(l)) = l
        BY <1>2
    <2>2. row(l) < row(k) => Rank(S, row(l)) < Rank(S, row(k))
        BY <2>1, RankNumbers
    <2>3. row(k) # row(l)
        BY <2>1, <1>6
    <2>4. k \in Nat /\ l \in Nat
        BY <1>1
    <2>5. ~ (l < k)
        BY <1>6, <2>4
    <2>6. ~ (row(l) < row(k))
        BY <2>1, <2>2, <2>5
    <2>7. row(k) \in Nat /\ row(l) \in Nat
        BY <2>1, <1>nat
    <2> QED
        BY <2>3, <2>6, <2>7
<1>7. ASSUME NEW i \in S
      PROVE  \E k \in 1..n : row(k) = i
    <2>1. Rank(S, i) \in 1..n
        BY RankNumbers
    <2> DEFINE k == Rank(S, i)
    <2>2. row(k) \in S /\ Rank(S, row(k)) = k
        BY <2>1, <1>2
    <2>3. /\ i < row(k) => Rank(S, i) < Rank(S, row(k))
          /\ row(k) < i => Rank(S, row(k)) < Rank(S, i)
        BY <2>2, RankNumbers
    <2>4. i \in Nat /\ row(k) \in Nat /\ k \in Nat
        BY <2>1, <2>2, <1>nat, <1>1
    <2>5. row(k) = i
        BY <2>2, <2>3, <2>4
    <2> QED
        BY <2>1, <2>5
<1> QED
    BY <1>1, <1>2, <1>3, <1>4, <1>5, <1>6, <1>7 DEF b

\* The histories grow at their end; the batch shrinks at its beginning.
LEMMA AppendFacts ==
    ASSUME NEW T, NEW s \in Seq(T), NEW x \in T
    PROVE  /\ Append(s, x) \in Seq(T)
           /\ Len(s) \in Nat /\ DOMAIN s = 1..Len(s)
           /\ DOMAIN Append(s, x) = 1..(Len(s) + 1)
           /\ \A k \in DOMAIN s : k \in DOMAIN Append(s, x) /\ Append(s, x)[k] = s[k]
           /\ \A k \in DOMAIN Append(s, x) : k \in DOMAIN s \/ k = Len(s) + 1
           /\ Append(s, x)[Len(s) + 1] = x
OBVIOUS

LEMMA TailFacts ==
    ASSUME NEW T, NEW s \in Seq(T), s # <<>>
    PROVE  /\ Tail(s) \in Seq(T)
           /\ 1 \in DOMAIN s
           /\ \A k \in DOMAIN s : k \in Nat
           /\ \A k \in DOMAIN Tail(s) : /\ k \in Nat /\ k + 1 \in DOMAIN s
                                        /\ Tail(s)[k] = s[k + 1]
           /\ \A k \in DOMAIN s : k # 1 => /\ k - 1 \in DOMAIN Tail(s)
                                           /\ Tail(s)[k - 1] = s[k]
<1>1. /\ Tail(s) \in Seq(T) /\ Len(s) \in Nat /\ Len(s) > 0 /\ Len(Tail(s)) = Len(s) - 1
      /\ DOMAIN s = 1..Len(s) /\ DOMAIN Tail(s) = 1..(Len(s) - 1)
    OBVIOUS
<1>2. \A k \in 1..(Len(s) - 1) : Tail(s)[k] = s[k + 1]
    OBVIOUS
<1>3. \A k \in 1..Len(s) : k # 1 => k - 1 \in 1..(Len(s) - 1) /\ (k - 1) + 1 = k
    BY <1>1
<1> QED
    BY <1>1, <1>2, <1>3

-----------------------------------------------------------------------------
(* What a statement on the tables leaves as it was.                        *)

\* Rows stay, with their direction and command; what is no longer pending does
\* not become so again, parameters are added only, and a new row has none.
RowsGrow ==
    /\ last <= last'
    /\ \A i \in 1..last :
          /\ msgs'[i].dir = msgs[i].dir /\ msgs'[i].cmd = msgs[i].cmd
          /\ msgs'[i].st = "pending" => msgs[i].st = "pending"
          /\ msgs'[i].has >= msgs[i].has
    /\ \A i \in Ids : last < i /\ i <= last' => msgs'[i].has = 0

\* No message of direction dir is acknowledged or deleted.
Keeps(dir) == \A i \in 1..last : msgs[i].dir = dir => msgs'[i].st = msgs[i].st

\* The ids and the rows, as numbers.
LEMMA RowFacts ==
    ASSUME TypeOK
    PROVE  /\ Ids = 1..MaxId /\ MaxId \in Nat /\ last \in Nat /\ last <= MaxId
           /\ 1..last \subseteq Ids
           /\ \A i \in Ids : /\ i \in Nat /\ msgs[i] \in Row /\ msgs[i].has \in Nat
                             /\ i <= last <=> i \in 1..last
BY FiasAssumption DEF TypeOK, Ids, Row

LEMMA TablesSame ==
    ASSUME TypeOK, RowsInv, UNCHANGED <<msgs, last>>
    PROVE  RowsInv' /\ RowsGrow /\ \A dir : Keeps(dir)
BY RowFacts DEF RowsInv, RowsGrow, Keeps

LEMMA RowInserted ==
    ASSUME TypeOK, RowsInv, NEW dir \in {"PBX", "PMS"}, NEW cmd \in FromPms \cup ToPmsCmds \cup {"none"},
           NEW want \in Nat, InsertRow(dir, cmd, want)
    PROVE  /\ msgs' \in [Ids -> Row] /\ last' \in 0..MaxId
           /\ RowsInv' /\ RowsGrow /\ \A d : Keeps(d)
           /\ last + 1 \in Ids /\ last' = last + 1
           /\ msgs'[last + 1] = [st |-> "pending", dir |-> dir, cmd |-> cmd, want |-> want, has |-> 0]
           /\ \A i \in Ids : i # last + 1 => msgs'[i] = msgs[i]
<1>1. last' = last + 1 /\ last + 1 \in Ids /\ last' \in 0..MaxId
    BY RowFacts DEF InsertRow
<1>2. [st |-> "pending", dir |-> dir, cmd |-> cmd, want |-> want, has |-> 0] \in Row
    BY DEF Row
<1>3. msgs' \in [Ids -> Row]
    BY <1>2, RowFacts DEF InsertRow, TypeOK
<1>4. /\ msgs'[last + 1] = [st |-> "pending", dir |-> dir, cmd |-> cmd, want |-> want, has |-> 0]
      /\ \A i \in Ids : i # last + 1 => msgs'[i] = msgs[i]
    BY <1>1 DEF InsertRow, TypeOK
<1>5. RowsInv'
    BY <1>1, <1>4, RowFacts DEF RowsInv
<1>6. RowsGrow /\ \A d : Keeps(d)
    BY <1>1, <1>4, RowFacts DEF RowsGrow, Keeps
<1> QED
    BY <1>1, <1>3, <1>4, <1>5, <1>6

LEMMA ParameterInserted ==
    ASSUME TypeOK, RowsInv, NEW id \in 1..last, InsertParameter(id)
    PROVE  /\ msgs' \in [Ids -> Row] /\ last' = last
           /\ RowsInv' /\ RowsGrow /\ \A d : Keeps(d)
           /\ \A i \in Ids : i # id => msgs'[i] = msgs[i]
<1>1. id \in Ids /\ msgs[id] \in Row /\ last' = last
    BY RowFacts DEF InsertParameter
<1>2. msgs'[id] = [msgs[id] EXCEPT !.has = @ + 1]
    BY <1>1 DEF InsertParameter, TypeOK
<1>o. \A i \in Ids : i # id => msgs'[i] = msgs[i]
    BY <1>1 DEF InsertParameter, TypeOK
<1>3. /\ msgs'[id] \in Row /\ msgs'[id].st = msgs[id].st /\ msgs'[id].dir = msgs[id].dir
      /\ msgs'[id].cmd = msgs[id].cmd /\ msgs'[id].has = msgs[id].has + 1
    BY <1>1, <1>2 DEF Row
<1>4. msgs' \in [Ids -> Row]
    BY <1>1, <1>2, <1>3 DEF InsertParameter, TypeOK
<1>5. RowsInv'
    BY <1>1, <1>o, <1>3, RowFacts DEF RowsInv
<1>6. RowsGrow /\ \A d : Keeps(d)
    BY <1>1, <1>o, <1>3, RowFacts DEF RowsGrow, Keeps
<1> QED
    BY <1>1, <1>o, <1>4, <1>5, <1>6

LEMMA RowElaborated ==
    ASSUME TypeOK, RowsInv, NEW id \in 1..last, msgs[id].st = "pending", Elaborated(id)
    PROVE  /\ msgs' \in [Ids -> Row] /\ last' = last
           /\ RowsInv' /\ RowsGrow /\ \A d : d # msgs[id].dir => Keeps(d)
           /\ \A i \in Ids : i # id => msgs'[i] = msgs[i]
           /\ msgs'[id].st = "done" /\ msgs'[id].dir = msgs[id].dir
           /\ msgs'[id].cmd = msgs[id].cmd
<1>1. id \in Ids /\ msgs[id] \in Row /\ last' = last
    BY RowFacts DEF Elaborated
<1>2. msgs'[id] = [msgs[id] EXCEPT !.st = "done"]
    BY <1>1 DEF Elaborated, TypeOK
<1>o. \A i \in Ids : i # id => msgs'[i] = msgs[i]
    BY <1>1 DEF Elaborated, TypeOK
<1>3. /\ msgs'[id] \in Row /\ msgs'[id].st = "done" /\ msgs'[id].dir = msgs[id].dir
      /\ msgs'[id].cmd = msgs[id].cmd /\ msgs'[id].has = msgs[id].has
    BY <1>1, <1>2 DEF Row
<1>4. msgs' \in [Ids -> Row]
    BY <1>1, <1>2, <1>3 DEF Elaborated, TypeOK
<1>5. RowsInv'
    BY <1>1, <1>o, <1>3, RowFacts DEF RowsInv
<1>6. RowsGrow /\ \A d : d # msgs[id].dir => Keeps(d)
    BY <1>1, <1>o, <1>3, RowFacts DEF RowsGrow, Keeps
<1> QED
    BY <1>1, <1>o, <1>3, <1>4, <1>5, <1>6

-----------------------------------------------------------------------------
(* Frames of the parts of the invariant.                                   *)

\* Messages pending after the step were pending before, or are new.
LEMMA PendingBefore ==
    ASSUME TypeOK, TypeOK', RowsInv', RowsGrow, NEW dir, NEW i \in Ids, i \in Pending(dir)'
    PROVE  i \in Pending(dir) \/ i > last
<1>1. msgs'[i].st = "pending" /\ msgs'[i].dir = dir
    BY DEF Pending
<1> QED
    BY <1>1, RowFacts DEF RowsGrow, Pending

\* A script that goes on is at the row it was at.
LEMMA ScriptsKept ==
    ASSUME TypeOK, TypeOK', InsertInv, RowsGrow,
           \A s \in Scripts : script'[s] # NoRecord =>
              script[s] # NoRecord /\ script'[s].id = script[s].id
    PROVE  \A s \in Scripts : script'[s] # NoRecord =>
              script'[s].id \in 1..last' /\ msgs'[script'[s].id].dir = "PMS"
<1>1. last' \in Nat /\ last \in Nat /\ last <= last'
    BY DEF TypeOK, RowsGrow
<1> QED
    BY <1>1 DEF InsertInv, RowsGrow

\* fiasd.php not at the parameters of a message.
LEMMA InsertKept ==
    ASSUME TypeOK, TypeOK', InsertInv, RowsGrow, UNCHANGED script, link' # "WriteParams"
    PROVE  InsertInv'
BY ScriptsKept DEF InsertInv

\* fiasd.php where it was while somebody else is at work.
LEMMA InsertKeptByOthers ==
    ASSUME TypeOK, TypeOK', RowsInv, InsertInv, RowsGrow, UNCHANGED <<link, rec>>,
           \A s \in Scripts : script'[s] # NoRecord =>
              script'[s].id \in 1..last' /\ msgs'[script'[s].id].dir = "PMS",
           \A i \in 1..last' : i > last => msgs'[i].dir = "PMS"
    PROVE  InsertInv'
<1>1. last' \in Nat /\ last \in Nat /\ last <= last'
    BY DEF TypeOK, RowsGrow
<1>2. \A i \in 1..last' : i \in 1..last \/ i > last
    BY <1>1
<1>3. link = "WriteParams" => \A i \in 1..last' : msgs'[i].dir = "PBX" => i <= rec.id
    BY <1>2, <1>1 DEF InsertInv, RowsGrow
<1>4. link = "WriteParams" => rec.id \in 1..last' /\ msgs'[rec.id].dir = "PBX"
    BY <1>1 DEF InsertInv, RowsGrow
<1> QED
    BY <1>3, <1>4 DEF InsertInv

\* Nothing of what was sent is after a message that is pending.
LEMMA SentKept ==
    ASSUME TypeOK, TypeOK', RowsInv', RowsGrow, SendInv, UNCHANGED sent
    PROVE  /\ \A k \in DOMAIN sent' : sent'[k].id \in 1..last'
           /\ \A k \in DOMAIN sent' : \A i \in Pending("PMS")' : sent'[k].id <= i
<1>1. last' \in Nat /\ last \in Nat /\ last <= last'
    BY DEF TypeOK, RowsGrow
<1>2. \A k \in DOMAIN sent : sent[k].id \in 1..last
    BY DEF SendInv
<1>3. ASSUME NEW k \in DOMAIN sent, NEW i \in Pending("PMS")'
      PROVE  sent[k].id <= i
    <2>1. i \in Ids /\ i \in Nat
        BY RowFacts DEF Pending
    <2>2. i \in Pending("PMS") \/ i > last
        BY <1>3, <2>1, PendingBefore
    <2> QED
        BY <1>1, <1>2, <2>1, <2>2 DEF SendInv
<1> QED
    BY <1>1, <1>2, <1>3

LEMMA SendKept ==
    ASSUME TypeOK, TypeOK', RowsInv', RowsGrow, SendInv, UNCHANGED sent, link' \notin Sending
    PROVE  SendInv'
BY SentKept DEF SendInv, Sending

LEMMA SendKeptByOthers ==
    ASSUME TypeOK, TypeOK', RowsInv, RowsInv', RowsGrow, Keeps("PMS"), SendInv,
           UNCHANGED <<link, rec, sent>>
    PROVE  SendInv'
<1>1. link \in Sending => rec.id \in 1..last /\ rec.id \in Ids
    BY RowFacts DEF SendInv, Pending, RowsInv, NoRow
<1>2. link \in Sending => rec.id \in Pending("PMS")' /\ rec.cmd = msgs'[rec.id].cmd
    BY <1>1 DEF SendInv, Pending, Keeps, RowsGrow
<1>3. link \in {"ReadParams", "SendData"} => \A i \in Pending("PMS")' : rec.id <= i
    <2> SUFFICES ASSUME link \in {"ReadParams", "SendData"}, NEW i \in Pending("PMS")'
                 PROVE  rec.id <= i
        OBVIOUS
    <2>1. i \in Ids /\ i \in Nat /\ last \in Nat
        BY RowFacts DEF Pending
    <2>2. i \in Pending("PMS") \/ i > last
        BY <2>1, PendingBefore
    <2> QED
        BY <1>1, <2>1, <2>2 DEF SendInv, Sending
<1> QED
    BY <1>2, <1>3, SentKept DEF SendInv

\* The batch and the handlers that ran while somebody else is at work: a message
\* gets its first parameter only as the last one fiasd.php has inserted.
LEMMA BatchKept ==
    ASSUME TypeOK, TypeOK', RowsInv, RowsInv', RowsGrow, Keeps("PBX"), BatchInv, RanInv,
           UNCHANGED <<batch, acking, ran, unrun>>,
           \A i \in Waiting' : i \notin Waiting =>
              \A j \in 1..last : msgs[j].dir = "PBX" => j <= i
    PROVE  BatchInv' /\ RanInv'
<1>num. last' \in Nat /\ last \in Nat /\ last <= last'
    BY DEF TypeOK, RowsGrow
<1>1. \A i \in Found : /\ i \in Ids /\ i \in 1..last /\ i \in Found'
                       /\ msgs[i].dir = "PBX" /\ msgs'[i].cmd = msgs[i].cmd
    <2> SUFFICES ASSUME NEW i \in Found
                 PROVE  /\ i \in Ids /\ i \in 1..last /\ i \in Found'
                        /\ msgs[i].dir = "PBX" /\ msgs'[i].cmd = msgs[i].cmd
        OBVIOUS
    <2>1. i \in Ids /\ msgs[i].st = "pending" /\ msgs[i].dir = "PBX" /\ msgs[i].has > 0
        BY DEF Found, Pending
    <2>2. i \in 1..last
        BY <2>1, RowFacts DEF RowsInv, NoRow
    <2>3. msgs'[i].has > 0
        <3>1. msgs[i].has \in Nat /\ msgs'[i].has \in Nat
            BY <2>1 DEF TypeOK, Row
        <3> QED
            BY <2>1, <2>2, <3>1 DEF RowsGrow
    <2> QED
        BY <2>1, <2>2, <2>3 DEF RowsGrow, Keeps, Found, Pending
<1>2. \A k \in DOMAIN batch : batch[k].id \in Found' /\ batch[k].cmd = msgs'[batch[k].id].cmd
    BY <1>1 DEF BatchInv
<1>3. ASSUME NEW i \in Waiting'
      PROVE  \/ \E k \in DOMAIN batch : batch[k].id = i
             \/ \A k \in DOMAIN batch : batch[k].id < i
    <2>1. CASE i \in Waiting
        BY <2>1 DEF BatchInv
    <2>2. CASE i \notin Waiting
        <3>1. \A k \in DOMAIN batch : batch[k].id \in 1..last /\ batch[k].id <= i
            BY <1>3, <2>2, <1>1 DEF BatchInv
        <3>2. i \in Nat
            BY RowFacts DEF Waiting, Found, Pending
        <3> QED
            BY <1>num, <3>1, <3>2
    <2> QED
        BY <2>1, <2>2
<1>4. BatchInv'
    BY <1>2, <1>3 DEF BatchInv
<1>5. \A k \in DOMAIN ran : ran[k].id \in 1..last' /\ msgs'[ran[k].id].dir = "PBX"
    BY <1>num DEF RanInv, RowsGrow
<1>6. \A k \in DOMAIN ran : \A i \in Waiting' : ran[k].id <= i
    BY DEF RanInv
<1> QED
    BY <1>4, <1>5, <1>6 DEF RanInv

\* Without a new parameter nothing begins to wait.
LEMMA NothingNew ==
    ASSUME TypeOK, TypeOK', RowsInv', RowsGrow,
           \A i \in 1..last : msgs'[i].has > msgs[i].has => msgs[i].dir # "PBX"
    PROVE  Waiting' \subseteq Waiting
<1> SUFFICES ASSUME NEW i \in Waiting' PROVE i \in Waiting
    OBVIOUS
<1>1. /\ i \in Ids /\ msgs'[i].has > 0 /\ msgs'[i].dir = "PBX" /\ msgs'[i].cmd = "GI"
      /\ i \in Pending("PBX")'
    BY DEF Waiting, Found, Pending
<1>2. i \in Pending("PBX") \/ i > last
    BY <1>1, PendingBefore
<1>3. msgs[i].has \in Nat /\ msgs'[i].has \in Nat /\ i \in Nat /\ last \in Nat /\ last' \in Nat
    BY <1>1, RowFacts DEF TypeOK, Row
<1>4. i <= last'
    BY <1>1, <1>3 DEF RowsInv, NoRow
<1>5. i \in 1..last
    BY <1>1, <1>2, <1>3, <1>4, RowFacts DEF RowsGrow
<1> QED
    BY <1>1, <1>2, <1>3, <1>5, RowFacts DEF RowsGrow, Waiting, Found, Pending

-----------------------------------------------------------------------------
(* fiasd.php.                                                              *)

\* A step that reads and writes no table and leaves no message in hand.
LEMMA QuietDaemon ==
    ASSUME IInv, UNCHANGED <<msgs, last, script, batch, acking, ran, unrun, sent>>,
           link' \in LinkStates \ (Sending \cup {"WriteParams"}), lock' \in BOOLEAN, up' \in BOOLEAN,
           rec' \in Record, stops' \in 0..MaxStops, LinkInv'
    PROVE  IInv'
<1>1. TypeOK /\ TypeOK'
    BY DEF IInv, TypeOK
<1>2. RowsInv' /\ RowsGrow /\ Keeps("PBX")
    BY <1>1, TablesSame DEF IInv
<1>3. InsertInv'
    BY <1>1, <1>2, InsertKept DEF IInv
<1>4. SendInv'
    BY <1>1, <1>2, SendKept DEF IInv
<1>5. BatchInv' /\ RanInv'
    BY DEF IInv, BatchInv, RanInv, Waiting, Found, Pending
<1> QED
    BY <1>1, <1>2, <1>3, <1>4, <1>5 DEF IInv

LEMMA NoRecordType == NoRecord \in Record
BY DEF NoRecord, Record

\* The handshake and the reading of records.
LEMMA DaemonTalks ==
    ASSUME IInv,
           Disconnected \/ WaitForSincro \/ WaitForLSLA \/ WaitForLA \/ WaitForData
           \/ SendLA \/ SendLDLRLA \/ SendLS \/ DaemonStatementFails \/ DaemonStops
    PROVE  IInv'
<1>t. /\ lock \in BOOLEAN /\ up \in BOOLEAN /\ rec \in Record /\ stops \in 0..MaxStops
      /\ LinkInv
    BY DEF IInv, TypeOK
<1>1. CASE Disconnected
    BY <1>1, <1>t, NoRecordType, QuietDaemon
    DEF Disconnected, LinkInv, OnLink, LinkStates, Sending, tables, dispatcher, history
<1>2. CASE WaitForSincro
    <2>1. link' \in {"SendLDLRLA", "SendLS", "Disconnected"}
        BY <1>2 DEF WaitForSincro
    <2> QED
        BY <1>2, <2>1, <1>t, QuietDaemon
        DEF WaitForSincro, LinkInv, OnLink, LinkStates, Sending, tables, dispatcher, history
<1>3. CASE WaitForLSLA
    <2>1. /\ link' \in {"SendLDLRLA", "WaitForData", "SendLA", "Disconnected"}
          /\ up' \in BOOLEAN /\ link' = "WaitForData" => up'
        BY <1>3 DEF WaitForLSLA
    <2> QED
        BY <1>3, <2>1, <1>t, QuietDaemon
        DEF WaitForLSLA, LinkInv, OnLink, LinkStates, Sending, tables, dispatcher, history
<1>4. CASE WaitForLA
    <2>1. link' \in {"WaitForData", "Disconnected"} /\ up' \in BOOLEAN /\ link' = "WaitForData" => up'
        BY <1>4 DEF WaitForLA
    <2> QED
        BY <1>4, <2>1, <1>t, QuietDaemon
        DEF WaitForLA, LinkInv, OnLink, LinkStates, Sending, tables, dispatcher, history
<1>5. CASE WaitForData
    <2>1. PICK h \in Heard :
             /\ link' = CASE h = "LS" -> "SendLDLRLA"
                          [] h \in {"LA", "DS", "DE"} -> "WaitForData"
                          [] h = "timeout" -> "ReadDB"
                          [] h \in {"data", "LD"} -> "WriteDB"
                          [] h \in {"LE", "broken"} -> "Disconnected"
             /\ up' = (up /\ h # "LS")
             /\ lock' = CASE h = "DS" -> TRUE [] h = "DE" -> FALSE [] OTHER -> lock
             /\ \/ h = "data" /\ \E c \in FromPms, n \in 0..MaxParams :
                      /\ c = "BAD" => n = 0
                      /\ rec' = [id |-> 0, cmd |-> c, want |-> n, has |-> 0]
                \/ h = "LD" /\ rec' = [id |-> 0, cmd |-> "XX", want |-> MaxParams, has |-> 0]
                \/ h \notin {"data", "LD"} /\ UNCHANGED rec
        BY <1>5 DEF WaitForData
    <2>2. link' \in {"SendLDLRLA", "WaitForData", "ReadDB", "WriteDB", "Disconnected"}
        BY <2>1 DEF Heard, LinkRecords
    <2>3. h = "LS" => link' = "SendLDLRLA"
        BY <2>1
    <2>4. up /\ up' \in BOOLEAN /\ (h # "LS" => up')
        BY <2>1, <1>5, <1>t DEF WaitForData, LinkInv, OnLink
    <2>5. lock' \in BOOLEAN
        BY <2>1, <1>t
    <2>6. rec' \in Record
        BY <2>1, <1>t, FiasAssumption DEF Record, FromPms
    <2>7. LinkInv'
        BY <2>2, <2>3, <2>4 DEF LinkInv, OnLink
    <2> QED
        BY <1>5, <1>t, <2>2, <2>4, <2>5, <2>6, <2>7, QuietDaemon
        DEF WaitForData, LinkStates, Sending, tables, dispatcher, history
<1>6. CASE SendLA
    <2>1. link' \in {"WaitForData", "Disconnected"} /\ up' \in BOOLEAN /\ link' = "WaitForData" => up'
        BY <1>6 DEF SendLA
    <2> QED
        BY <1>6, <2>1, <1>t, QuietDaemon
        DEF SendLA, LinkInv, OnLink, LinkStates, Sending, tables, dispatcher, history
<1>7. CASE SendLDLRLA \/ SendLS
    BY <1>7, <1>t, QuietDaemon
    DEF SendLDLRLA, SendLS, LinkInv, OnLink, LinkStates, Sending, tables, dispatcher, history
<1>8. CASE DaemonStatementFails
    <2>1. stops' \in 0..MaxStops
        BY <1>8, <1>t, FiasAssumption DEF DaemonStatementFails
    <2> QED
        BY <1>8, <2>1, <1>t, QuietDaemon
        DEF DaemonStatementFails, LinkInv, OnLink, LinkStates, Sending, tables, dispatcher, history
<1>9. CASE DaemonStops
    <2>1. stops' \in 0..MaxStops
        BY <1>9, <1>t, FiasAssumption DEF DaemonStops
    <2> QED
        BY <1>9, <2>1, <1>t, NoRecordType, QuietDaemon
        DEF DaemonStops, LinkInv, OnLink, LinkStates, Sending, tables, dispatcher, history
<1> QED
    BY <1>1, <1>2, <1>3, <1>4, <1>5, <1>6, <1>7, <1>8, <1>9

\* The oldest pending message read, with its parameters, and written to the socket.
LEMMA DaemonSends ==
    ASSUME IInv, ReadDB \/ ReadParams \/ SendData
    PROVE  IInv'
<1>t. /\ lock \in BOOLEAN /\ up \in BOOLEAN /\ rec \in Record /\ stops \in 0..MaxStops
      /\ LinkInv /\ TypeOK /\ RowsInv
    BY DEF IInv, TypeOK
<1>same. /\ UNCHANGED <<msgs, last, script, batch, acking, ran, unrun, lock, up, stops>>
         /\ RowsInv' /\ RowsGrow
    <2>1. UNCHANGED <<msgs, last, script, batch, acking, ran, unrun, lock, up, stops>>
        BY DEF ReadDB, ReadParams, SendData, tables, dispatcher, history
    <2> QED
        BY <2>1, <1>t, TablesSame
<1>batch. BatchInv' /\ RanInv'
    BY <1>same DEF IInv, BatchInv, RanInv, Waiting, Found, Pending
<1>pend. Pending("PMS")' = Pending("PMS")
    BY <1>same DEF Pending
<1>rows. \A i \in Pending("PMS") : i \in Ids /\ i \in Nat /\ i \in 1..last /\ msgs[i] \in Row
    BY <1>t, RowFacts DEF Pending, RowsInv, NoRow
<1>1. ASSUME TypeOK', LinkInv', SendInv', link' # "WriteParams"
      PROVE  IInv'
    <2>1. InsertInv'
        BY <1>1, <1>same, <1>t, InsertKept DEF IInv
    <2> QED
        BY <1>1, <2>1, <1>same, <1>batch DEF IInv
<1>2. CASE ReadDB
    <2>1. CASE link' \in {"WaitForData", "SendLS"}
        <3>1. UNCHANGED <<rec, sent>>
            BY <1>2, <2>1 DEF ReadDB, history
        <3>2. LinkInv'
            BY <1>2, <2>1, <1>t, <1>same DEF ReadDB, LinkInv, OnLink
        <3> QED
            BY <2>1, <3>1, <3>2, <1>t, <1>same, QuietDaemon DEF LinkStates, Sending
    <2>2. CASE link' \notin {"WaitForData", "SendLS"}
        <3>1. PICK i \in Pending("PMS") :
                 /\ ~lock /\ link' = "ReadParams"
                 /\ \A j \in Pending("PMS") : i <= j
                 /\ rec' = [id |-> i, cmd |-> msgs[i].cmd, want |-> msgs[i].want, has |-> 0]
            <4>1. /\ ~lock /\ Pending("PMS") # {} /\ link' = "ReadParams"
                  /\ LET i == Oldest(Pending("PMS"))
                     IN  rec' = [id |-> i, cmd |-> msgs[i].cmd, want |-> msgs[i].want, has |-> 0]
                BY <1>2, <2>2 DEF ReadDB
            <4>2. Pending("PMS") \in SUBSET Ids
                BY DEF Pending
            <4> QED
                BY <4>1, <4>2, OldestIsFirst
        <3>2. rec' \in Record
            BY <3>1, <1>rows DEF Record, Row
        <3>3. TypeOK'
            BY <1>2, <3>1, <3>2, <1>t, <1>same DEF TypeOK, ReadDB, history, LinkStates
        <3>4. LinkInv'
            BY <1>2, <3>1, <1>t, <1>same DEF ReadDB, LinkInv, OnLink
        <3>5. UNCHANGED sent
            BY <1>2 DEF ReadDB, history
        <3>6. SendInv'
            <4>1. /\ \A k \in DOMAIN sent' : sent'[k].id \in 1..last'
                  /\ \A k \in DOMAIN sent' : \A j \in Pending("PMS")' : sent'[k].id <= j
                BY <3>3, <3>5, <1>t, <1>same, SentKept DEF IInv
            <4>2. rec'.id = i /\ rec'.cmd = msgs[i].cmd
                BY <3>1
            <4> QED
                BY <3>1, <4>1, <4>2, <1>pend, <1>same DEF SendInv, Sending
        <3> QED
            BY <3>1, <3>3, <3>4, <3>6, <1>1
    <2> QED
        BY <2>1, <2>2
<1>3. CASE ReadParams
    <2> DEFINE r == [rec EXCEPT !.has = msgs[rec.id].has]
    <2>1. /\ link = "ReadParams" /\ rec' = r
          /\ \/ rec.cmd # "LE" /\ link' = "SendData" /\ UNCHANGED sent
             \/ rec.cmd = "LE" /\ link' = "AckLE" /\ sent' \in {sent, Append(sent, r)}
        BY <1>3 DEF ReadParams
    <2>2. /\ rec.id \in Pending("PMS") /\ rec.cmd = msgs[rec.id].cmd
          /\ \A i \in Pending("PMS") : rec.id <= i
        BY <2>1 DEF IInv, SendInv, Sending
    <2>3. r \in Record /\ r.id = rec.id /\ r.cmd = rec.cmd
        BY <2>2, <1>t, <1>rows DEF Record, Row
    <2> HIDE DEF r
    <2>4. sent \in Seq(Record)
        BY DEF IInv, TypeOK
    <2>5. sent' \in Seq(Record)
        BY <2>1, <2>3, <2>4, AppendFacts
    <2>6. TypeOK'
        BY <2>1, <2>3, <2>5, <1>t, <1>same DEF TypeOK, LinkStates
    <2>7. LinkInv'
        BY <2>1, <1>t, <1>same DEF LinkInv, OnLink
    <2>8. \A k \in DOMAIN sent' : /\ sent'[k].id \in 1..last
                                  /\ \A i \in Pending("PMS") : sent'[k].id <= i
        <3>1. \A k \in DOMAIN sent : /\ sent[k].id \in 1..last
                                     /\ \A i \in Pending("PMS") : sent[k].id <= i
            BY DEF IInv, SendInv
        <3>2. CASE UNCHANGED sent
            BY <3>1, <3>2
        <3>3. CASE sent' = Append(sent, r)
            BY <3>1, <3>3, <2>2, <2>3, <2>4, <1>rows, AppendFacts
        <3> QED
            BY <2>1, <3>2, <3>3
    <2>9. SendInv'
        BY <2>1, <2>2, <2>3, <2>8, <1>pend, <1>same DEF SendInv, Sending
    <2> QED
        BY <2>1, <2>6, <2>7, <2>9, <1>1
<1>4. CASE SendData
    <2>1. /\ link = "SendData" /\ UNCHANGED rec
          /\ \/ link' = "Disconnected" /\ UNCHANGED sent
             \/ link' = "AckData" /\ sent' = Append(sent, rec)
        BY <1>4 DEF SendData
    <2>2. CASE link' = "Disconnected" /\ UNCHANGED sent
        <3>1. LinkInv'
            BY <2>2 DEF LinkInv, OnLink
        <3> QED
            BY <2>1, <2>2, <3>1, <1>t, <1>same, QuietDaemon DEF LinkStates, Sending
    <2>3. CASE link' = "AckData" /\ sent' = Append(sent, rec)
        <3>1. /\ rec.id \in Pending("PMS") /\ rec.cmd = msgs[rec.id].cmd
              /\ \A i \in Pending("PMS") : rec.id <= i
            BY <2>1 DEF IInv, SendInv, Sending
        <3>2. sent \in Seq(Record)
            BY DEF IInv, TypeOK
        <3>3. TypeOK'
            BY <2>1, <2>3, <3>2, <1>t, <1>same, AppendFacts DEF TypeOK, LinkStates
        <3>4. LinkInv'
            BY <2>1, <2>3, <1>t, <1>same DEF LinkInv, OnLink
        <3>5. \A k \in DOMAIN sent : /\ sent[k].id \in 1..last
                                     /\ \A i \in Pending("PMS") : sent[k].id <= i
            BY DEF IInv, SendInv
        <3>6. \A k \in DOMAIN sent' : /\ sent'[k].id \in 1..last
                                      /\ \A i \in Pending("PMS") : sent'[k].id <= i
            BY <2>3, <3>1, <3>2, <3>5, <1>t, <1>rows, AppendFacts
        <3>7. \E k \in DOMAIN sent' : sent'[k].id = rec.id
            BY <2>3, <3>2, <1>t, AppendFacts
        <3>8. SendInv'
            BY <2>1, <2>3, <3>1, <3>6, <3>7, <1>pend, <1>same DEF SendInv, Sending
        <3> QED
            BY <2>3, <3>3, <3>4, <3>8, <1>1
    <2> QED
        BY <2>1, <2>2, <2>3
<1> QED
    BY <1>2, <1>3, <1>4

\* stStart: the messages LE left over are deleted.
LEMMA StartDeletes ==
    ASSUME IInv, Start
    PROVE  /\ TypeOK' /\ RowsInv' /\ RowsGrow /\ Keeps("PBX")
           /\ \A i \in Ids : /\ msgs'[i].dir = msgs[i].dir /\ msgs'[i].cmd = msgs[i].cmd
                             /\ msgs'[i].has = msgs[i].has
                             /\ \/ msgs'[i].st = msgs[i].st
                                \/ /\ msgs'[i].st = "deleted"
                                   /\ msgs[i].dir = "PMS" /\ msgs[i].cmd = "LE"
<1>t. TypeOK /\ RowsInv /\ msgs \in [Ids -> Row]
    BY DEF IInv, TypeOK
<1>1. \A i \in Ids : msgs'[i] = IF i \in Pending("PMS") /\ msgs[i].cmd = "LE"
                                THEN [msgs[i] EXCEPT !.st = "deleted"] ELSE msgs[i]
    BY DEF Start
<1>2. ASSUME NEW i \in Ids
      PROVE  /\ msgs'[i].dir = msgs[i].dir /\ msgs'[i].cmd = msgs[i].cmd
             /\ msgs'[i].has = msgs[i].has /\ msgs'[i] \in Row
             /\ \/ msgs'[i] = msgs[i]
                \/ /\ msgs'[i].st = "deleted" /\ msgs[i].st = "pending"
                   /\ msgs[i].dir = "PMS" /\ msgs[i].cmd = "LE"
    <2>1. msgs[i] \in Row
        BY <1>t
    <2>2. CASE i \in Pending("PMS") /\ msgs[i].cmd = "LE"
        <3>1. msgs'[i] = [msgs[i] EXCEPT !.st = "deleted"]
            BY <1>1, <2>2
        <3> QED
            BY <2>1, <2>2, <3>1 DEF Row, Pending
    <2>3. CASE ~ (i \in Pending("PMS") /\ msgs[i].cmd = "LE")
        BY <1>1, <2>1, <2>3
    <2> QED
        BY <2>2, <2>3
<1>3. msgs' \in [Ids -> Row]
    <2>1. msgs' = [i \in Ids |-> msgs'[i]]
        BY DEF Start
    <2> QED
        BY <1>2, <2>1
<1>4. TypeOK'
    BY <1>t, <1>3 DEF TypeOK, Start, LinkStates, dispatcher, history
<1>5. last' = last
    BY DEF Start
<1>6. RowsInv'
    BY <1>t, <1>2, <1>5 DEF RowsInv, NoRow
<1>7. RowsGrow
    BY <1>t, <1>2, <1>5, RowFacts DEF RowsGrow
<1>8. Keeps("PBX")
    BY <1>t, <1>2, RowFacts DEF Keeps
<1> QED
    BY <1>2, <1>4, <1>6, <1>7, <1>8

LEMMA DaemonStarts ==
    ASSUME IInv, Start
    PROVE  IInv'
<1>t. TypeOK /\ RowsInv /\ InsertInv /\ SendInv /\ BatchInv /\ RanInv
    BY DEF IInv
<1>1. /\ link' \in {"WaitForSincro", "Disconnected"}
      /\ UNCHANGED <<last, script, batch, acking, ran, unrun, sent>>
    BY DEF Start, dispatcher, history
<1>2. TypeOK' /\ RowsInv' /\ RowsGrow /\ Keeps("PBX")
    BY StartDeletes
<1>3. LinkInv' /\ InsertInv' /\ SendInv'
    BY <1>t, <1>1, <1>2, InsertKept, SendKept DEF LinkInv, OnLink, Sending
<1>4. Waiting' \subseteq Waiting
    <2>1. \A i \in 1..last : ~ (msgs'[i].has > msgs[i].has)
        <3>1. \A i \in 1..last : msgs'[i].has = msgs[i].has /\ msgs[i].has \in Nat
            BY <1>t, StartDeletes, RowFacts
        <3> QED
            BY <3>1
    <2> QED
        BY <2>1, <1>t, <1>2, NothingNew
<1>5. BatchInv' /\ RanInv'
    BY <1>t, <1>1, <1>2, <1>4, BatchKept
<1> QED
    BY <1>2, <1>3, <1>5 DEF IInv

\* The message in hand is acknowledged.
LEMMA DaemonAcknowledges ==
    ASSUME IInv, AckData \/ AckLE
    PROVE  IInv'
<1>t. TypeOK /\ RowsInv /\ InsertInv /\ SendInv /\ BatchInv /\ RanInv /\ LinkInv
    BY DEF IInv
<1>1. /\ link \in Sending /\ Elaborated(rec.id) /\ rec' = NoRecord
      /\ link' \in {"WaitForData", "Start"}
      /\ UNCHANGED <<script, batch, acking, ran, unrun, sent, stops>>
    BY DEF AckData, AckLE, Sending, dispatcher, history
<1>2. rec.id \in 1..last /\ msgs[rec.id].st = "pending" /\ msgs[rec.id].dir = "PMS"
    BY <1>t, <1>1, RowFacts DEF SendInv, Pending, RowsInv, NoRow
<1>3. /\ msgs' \in [Ids -> Row] /\ last' = last
      /\ RowsInv' /\ RowsGrow /\ Keeps("PBX")
      /\ \A i \in Ids : i # rec.id => msgs'[i] = msgs[i]
    BY <1>t, <1>1, <1>2, RowElaborated
<1>4. lock' \in BOOLEAN /\ up' \in BOOLEAN /\ LinkInv'
    BY <1>t DEF AckData, AckLE, TypeOK, LinkInv, OnLink
<1>5. TypeOK'
    BY <1>t, <1>1, <1>3, <1>4, NoRecordType DEF TypeOK, LinkStates
<1>6. InsertInv' /\ SendInv'
    BY <1>t, <1>1, <1>3, <1>5, InsertKept, SendKept DEF Sending
<1>7. Waiting' \subseteq Waiting
    <2>1. \A i \in 1..last : msgs'[i].has > msgs[i].has => msgs[i].dir # "PBX"
        <3>1. \A i \in 1..last : i \in Ids /\ msgs[i].has \in Nat
            BY <1>t, RowFacts
        <3> QED
            BY <3>1, <1>2, <1>3
    <2> QED
        BY <2>1, <1>t, <1>3, <1>5, NothingNew
<1>8. BatchInv' /\ RanInv'
    BY <1>t, <1>1, <1>3, <1>5, <1>7, BatchKept
<1> QED
    BY <1>3, <1>4, <1>5, <1>6, <1>8 DEF IInv

\* A message of the PMS stored, statement by statement.
LEMMA DaemonStores ==
    ASSUME IInv, WriteDB \/ WriteParams
    PROVE  IInv'
<1>t. TypeOK /\ RowsInv /\ InsertInv /\ SendInv /\ BatchInv /\ RanInv /\ LinkInv
    BY DEF IInv
<1>v. /\ rec \in Record /\ lock \in BOOLEAN /\ up \in BOOLEAN /\ stops \in 0..MaxStops
      /\ last \in Nat
    BY <1>t, RowFacts DEF TypeOK
<1>1. CASE WriteDB /\ rec.cmd = "BAD"
    <2>1. LinkInv'
        BY <1>1 DEF WriteDB, LinkInv, OnLink
    <2> QED
        BY <1>1, <2>1, <1>v, QuietDaemon
        DEF WriteDB, tables, dispatcher, history, LinkStates, Sending
<1>2. CASE WriteDB /\ rec.cmd # "BAD"
    <2>1. /\ link = "WriteDB" /\ InsertRow("PBX", rec.cmd, rec.want)
          /\ rec' = (IF rec.want = 0 THEN NoRecord ELSE [rec EXCEPT !.id = last + 1])
          /\ link' = (IF rec.want = 0 THEN "ReadDB" ELSE "WriteParams")
          /\ UNCHANGED <<lock, up, script, batch, acking, ran, unrun, sent, stops>>
        BY <1>2 DEF WriteDB, dispatcher, history
    <2>2. rec.cmd \in FromPms \cup ToPmsCmds \cup {"none"} /\ rec.want \in Nat
        BY <1>v DEF Record
    <2> DEFINE new == [st |-> "pending", dir |-> "PBX", cmd |-> rec.cmd, want |-> rec.want, has |-> 0]
    <2>3. /\ msgs' \in [Ids -> Row] /\ last' \in 0..MaxId
          /\ RowsInv' /\ RowsGrow /\ Keeps("PBX") /\ Keeps("PMS")
          /\ last + 1 \in Ids /\ last' = last + 1
          /\ msgs'[last + 1] = new
          /\ \A i \in Ids : i # last + 1 => msgs'[i] = msgs[i]
        BY <1>t, <2>1, <2>2, RowInserted
    <2>4. rec' \in Record /\ link' \in {"ReadDB", "WriteParams"} /\ (link' = "WriteParams" => rec'.id = last + 1)
        BY <2>1, <1>v, NoRecordType DEF Record
    <2>5. TypeOK'
        BY <1>t, <2>1, <2>3, <2>4 DEF TypeOK, LinkStates
    <2>6. LinkInv'
        BY <1>t, <2>1, <2>4 DEF LinkInv, OnLink
    <2>7. \A s \in Scripts : script'[s] # NoRecord =>
             script'[s].id \in 1..last' /\ msgs'[script'[s].id].dir = "PMS"
        BY <1>t, <2>1, <2>3, <2>5, ScriptsKept
    <2>8. /\ last + 1 \in 1..last' /\ msgs'[last + 1].dir = "PBX"
          /\ \A i \in 1..last' : i <= last + 1
        BY <1>v, <2>3
    <2>9. InsertInv'
        BY <2>4, <2>7, <2>8 DEF InsertInv
    <2>10. SendInv'
        BY <1>t, <2>1, <2>3, <2>4, <2>5, SendKept DEF Sending
    <2>11. Waiting' \subseteq Waiting
        <3>1. \A i \in 1..last : i \in Ids /\ msgs[i].has \in Nat /\ i # last + 1
            BY <1>t, RowFacts
        <3>2. \A i \in 1..last : ~ (msgs'[i].has > msgs[i].has)
            BY <3>1, <2>3
        <3> QED
            BY <3>2, <1>t, <2>3, <2>5, NothingNew
    <2>12. BatchInv' /\ RanInv'
        BY <1>t, <2>1, <2>3, <2>5, <2>11, BatchKept
    <2> QED
        BY <2>3, <2>5, <2>6, <2>9, <2>10, <2>12 DEF IInv
<1>3. CASE WriteParams
    <2>1. /\ link = "WriteParams" /\ InsertParameter(rec.id)
          /\ rec' = (IF rec.has + 1 = rec.want THEN NoRecord ELSE [rec EXCEPT !.has = @ + 1])
          /\ link' = (IF rec.has + 1 = rec.want THEN "ReadDB" ELSE "WriteParams")
          /\ UNCHANGED <<lock, up, script, batch, acking, ran, unrun, sent, stops>>
        BY <1>3 DEF WriteParams, dispatcher, history
    <2>2. /\ rec.id \in 1..last /\ msgs[rec.id].dir = "PBX"
          /\ \A i \in 1..last : msgs[i].dir = "PBX" => i <= rec.id
        BY <1>t, <2>1 DEF InsertInv
    <2>3. /\ msgs' \in [Ids -> Row] /\ last' = last
          /\ RowsInv' /\ RowsGrow /\ Keeps("PBX") /\ Keeps("PMS")
          /\ \A i \in Ids : i # rec.id => msgs'[i] = msgs[i]
        BY <1>t, <2>1, <2>2, ParameterInserted
    <2>4. rec' \in Record /\ link' \in {"ReadDB", "WriteParams"} /\ (link' = "WriteParams" => rec'.id = rec.id)
        BY <2>1, <1>v, NoRecordType DEF Record
    <2>5. TypeOK'
        BY <1>t, <2>1, <2>3, <2>4 DEF TypeOK, LinkStates
    <2>6. LinkInv'
        BY <1>t, <2>1, <2>4 DEF LinkInv, OnLink
    <2>7. \A s \in Scripts : script'[s] # NoRecord =>
             script'[s].id \in 1..last' /\ msgs'[script'[s].id].dir = "PMS"
        BY <1>t, <2>1, <2>3, <2>5, ScriptsKept
    <2>8. InsertInv'
        BY <2>2, <2>3, <2>4, <2>7 DEF InsertInv, RowsGrow
    <2>9. SendInv'
        BY <1>t, <2>1, <2>3, <2>4, <2>5, SendKept DEF Sending
    <2>10. ASSUME NEW i \in Waiting', i \notin Waiting
           PROVE  i = rec.id
        <3>1. i \in Ids /\ msgs'[i].st = "pending" /\ msgs'[i].dir = "PBX" /\ msgs'[i].has > 0
              /\ msgs'[i].cmd = "GI"
            BY <2>10 DEF Waiting, Found, Pending
        <3> QED
            BY <2>10, <3>1, <2>3 DEF Waiting, Found, Pending
    <2>11. \A i \in Waiting' : i \notin Waiting => \A j \in 1..last : msgs[j].dir = "PBX" => j <= i
        BY <2>2, <2>10
    <2>12. BatchInv' /\ RanInv'
        BY <1>t, <2>1, <2>3, <2>5, <2>11, BatchKept
    <2> QED
        BY <2>3, <2>5, <2>6, <2>8, <2>9, <2>12 DEF IInv
<1> QED
    BY <1>1, <1>2, <1>3

-----------------------------------------------------------------------------
(* dispatcher.php.                                                         *)

\* What the dispatcher leaves to the others.
LEMMA DispatcherApart ==
    ASSUME IInv, TypeOK', RowsInv', RowsGrow, Keeps("PMS"), last' = last,
           UNCHANGED <<link, lock, rec, up, script, sent>>
    PROVE  LinkInv' /\ InsertInv' /\ SendInv'
<1>t. TypeOK /\ RowsInv /\ InsertInv /\ SendInv /\ LinkInv /\ last \in Nat
    BY RowFacts DEF IInv
<1>1. \A s \in Scripts : script'[s] # NoRecord =>
         script'[s].id \in 1..last' /\ msgs'[script'[s].id].dir = "PMS"
    BY <1>t, ScriptsKept
<1>2. InsertInv'
    BY <1>t, <1>1, InsertKeptByOthers
<1>3. SendInv'
    BY <1>t, SendKeptByOthers
<1> QED
    BY <1>t, <1>2, <1>3 DEF LinkInv

\* The query: nothing in hand before, everything it found after.
LEMMA DispatcherPolls ==
    ASSUME IInv, Poll
    PROVE  IInv'
<1>t. TypeOK /\ RowsInv /\ RanInv /\ BatchInv
    BY DEF IInv
<1>1. /\ UNCHANGED <<msgs, last, link, lock, rec, up, script, acking, ran, unrun, sent, stops>>
      /\ batch = <<>> /\ batch' = RowsInOrder(Found) /\ ~acking
    BY <1>t DEF Poll, tables, daemon, history, BatchInv
<1>2. Found \in SUBSET Ids /\ \A i \in Found : msgs[i] \in Row /\ i \in Nat
    BY <1>t, RowFacts DEF Found, Pending
<1>3. /\ DOMAIN batch' = 1..Cardinality(Found) /\ Cardinality(Found) \in Nat
      /\ \A k \in DOMAIN batch' :
            /\ batch'[k].id \in Found
            /\ batch'[k] = [id |-> batch'[k].id, cmd |-> msgs[batch'[k].id].cmd,
                            has |-> msgs[batch'[k].id].has]
      /\ \A k, l \in DOMAIN batch' : k < l => batch'[k].id < batch'[l].id
      /\ \A i \in Found : \E k \in DOMAIN batch' : batch'[k].id = i
    BY <1>1, <1>2, RowsAreInOrder
<1>4. batch' \in Seq(Handed)
    <2>1. \A k \in DOMAIN batch' : batch'[k] \in Handed
        BY <1>2, <1>3 DEF Handed, Row
    <2>2. batch' = [k \in DOMAIN batch' |-> batch'[k]]
        BY <1>1 DEF RowsInOrder
    <2>3. batch' \in [1..Cardinality(Found) -> Handed]
        BY <2>1, <2>2, <1>3
    <2> QED
        BY <2>3, <1>3
<1>5. TypeOK'
    BY <1>t, <1>1, <1>4 DEF TypeOK
<1>6. RowsInv' /\ RowsGrow /\ Keeps("PMS")
    BY <1>t, <1>1, TablesSame
<1>7. Found' = Found /\ Waiting' = Waiting
    BY <1>1 DEF Waiting, Found, Pending
<1>8. \A k \in DOMAIN batch' : batch'[k].cmd = msgs[batch'[k].id].cmd
    BY <1>3
<1>9. BatchInv'
    BY <1>1, <1>3, <1>7, <1>8 DEF BatchInv, Waiting
<1>10. RanInv'
    BY <1>t, <1>1, <1>7 DEF RanInv
<1> QED
    BY <1>1, <1>5, <1>6, <1>9, <1>10, DispatcherApart DEF IInv

\* The handler of the first message of the batch: the oldest one that waits.
LEMMA DispatcherRunsHandler ==
    ASSUME IInv, RunHandler
    PROVE  IInv'
<1>t. TypeOK /\ RowsInv /\ RanInv /\ BatchInv
    BY DEF IInv
<1>1. /\ UNCHANGED <<msgs, last, link, lock, rec, up, script, batch, unrun, sent, stops>>
      /\ batch # <<>> /\ batch[1].cmd = "GI" /\ ran' = Append(ran, batch[1]) /\ acking'
      /\ acking' \in BOOLEAN
    BY DEF RunHandler, tables, daemon
<1>2. ran \in Seq(Handed) /\ batch \in Seq(Handed)
    BY <1>t DEF TypeOK
<1>3. 1 \in DOMAIN batch /\ batch[1] \in Handed /\ \A k \in DOMAIN batch : k \in Nat /\ (k = 1 \/ 1 < k)
    BY <1>1, <1>2
<1>4. batch[1].id \in Waiting
    BY <1>t, <1>1, <1>3 DEF BatchInv, Waiting
<1>5. batch[1].id \in 1..last /\ msgs[batch[1].id].dir = "PBX" /\ batch[1].id \in Nat
    BY <1>t, <1>4, RowFacts DEF Waiting, Found, Pending, RowsInv, NoRow
<1>6. \A i \in Waiting : batch[1].id <= i
    <2> SUFFICES ASSUME NEW i \in Waiting PROVE batch[1].id <= i
        OBVIOUS
    <2>1. i \in Nat
        BY <1>t, RowFacts DEF Waiting, Found, Pending
    <2>2. CASE \E k \in DOMAIN batch : batch[k].id = i
        BY <1>t, <1>3, <1>5, <2>1, <2>2 DEF BatchInv
    <2>3. CASE \A k \in DOMAIN batch : batch[k].id < i
        BY <1>3, <1>5, <2>1, <2>3
    <2> QED
        BY <1>t, <2>2, <2>3 DEF BatchInv
<1>7. TypeOK'
    BY <1>t, <1>1, <1>2, <1>3, AppendFacts DEF TypeOK
<1>8. RowsInv' /\ RowsGrow /\ Keeps("PMS")
    BY <1>t, <1>1, TablesSame
<1>9. Found' = Found /\ Waiting' = Waiting
    BY <1>1 DEF Waiting, Found, Pending
<1>10. RanInv'
    <2>1. \A k \in DOMAIN ran' : (k \in DOMAIN ran /\ ran'[k] = ran[k]) \/ ran'[k] = batch[1]
        BY <1>1, <1>2, <1>3, AppendFacts
    <2> QED
        BY <1>t, <1>1, <1>5, <1>6, <1>9, <2>1 DEF RanInv
<1>11. \E k \in DOMAIN ran' : ran'[k].id = batch[1].id
    BY <1>1, <1>2, <1>3, AppendFacts
<1>12. BatchInv'
    BY <1>t, <1>1, <1>9, <1>11 DEF BatchInv
<1> QED
    BY <1>1, <1>7, <1>8, <1>10, <1>12, DispatcherApart DEF IInv

\* Its handler not started: no history but that of the messages given up.
LEMMA DispatcherGivesUp ==
    ASSUME IInv, HandlerNotStarted
    PROVE  IInv'
<1>t. TypeOK /\ RowsInv /\ RanInv /\ BatchInv
    BY DEF IInv
<1>1. /\ UNCHANGED <<msgs, last, link, lock, rec, up, script, batch, ran, sent, stops>>
      /\ batch # <<>> /\ unrun' = unrun \cup {batch[1].id} /\ acking' = TRUE
    BY DEF HandlerNotStarted, tables, daemon
<1>2. batch[1].id \in Ids
    <2>1. 1 \in DOMAIN batch
        BY <1>t, <1>1, TailFacts DEF TypeOK
    <2> QED
        BY <1>t, <2>1 DEF BatchInv, Found, Pending
<1>b. acking' \in BOOLEAN
    BY <1>1
<1>3. TypeOK'
    BY <1>t, <1>1, <1>2, <1>b DEF TypeOK
<1>4. RowsInv' /\ RowsGrow /\ Keeps("PMS")
    BY <1>t, <1>1, TablesSame
<1>5. Found' = Found /\ Waiting' = Waiting
    BY <1>1 DEF Waiting, Found, Pending
<1>6. BatchInv' /\ RanInv'
    BY <1>t, <1>1, <1>5 DEF BatchInv, RanInv
<1> QED
    BY <1>1, <1>3, <1>4, <1>6, DispatcherApart DEF IInv

\* The first message of the batch done with: acknowledged, or skipped when
\* fias.conf has nothing for it.
LEMMA DispatcherGoesOn ==
    ASSUME IInv, AcknowledgeLR \/ SkipUndefined \/ AcknowledgeRun
    PROVE  IInv'
<1>t. TypeOK /\ RowsInv /\ RanInv /\ BatchInv
    BY DEF IInv
<1>1. /\ UNCHANGED <<link, lock, rec, up, script, ran, unrun, sent, stops>>
      /\ batch # <<>> /\ batch' = Tail(batch) /\ ~acking'
      /\ \/ Elaborated(batch[1].id)
         \/ batch[1].cmd = "XX" /\ UNCHANGED <<msgs, last>>
    BY <1>t DEF AcknowledgeLR, SkipUndefined, AcknowledgeRun, tables, daemon, history, BatchInv, TypeOK
<1>bool. acking' \in BOOLEAN
    BY <1>t DEF AcknowledgeLR, SkipUndefined, AcknowledgeRun, TypeOK
<1>2. batch \in Seq(Handed)
    BY <1>t DEF TypeOK
<1>3. /\ 1 \in DOMAIN batch /\ batch' \in Seq(Handed)
      /\ \A k \in DOMAIN batch : k \in Nat
      /\ \A k \in DOMAIN batch' : k \in Nat /\ k + 1 \in DOMAIN batch /\ batch'[k] = batch[k + 1]
      /\ \A k \in DOMAIN batch : k # 1 => k - 1 \in DOMAIN batch' /\ batch'[k - 1] = batch[k]
    BY <1>1, <1>2, TailFacts
<1> DEFINE id == batch[1].id
<1>4. id \in Found /\ batch[1].cmd = msgs[id].cmd
    BY <1>t, <1>3 DEF BatchInv
<1>5. id \in 1..last /\ id \in Nat /\ msgs[id].st = "pending" /\ msgs[id].dir = "PBX"
    BY <1>t, <1>4, RowFacts DEF Found, Pending, RowsInv, NoRow
<1> HIDE DEF id
<1>6. /\ msgs' \in [Ids -> Row] /\ last' = last /\ RowsInv' /\ RowsGrow /\ Keeps("PMS")
      /\ \A i \in Ids : i # id => msgs'[i] = msgs[i]
      /\ \/ msgs'[id].st = "done"
         \/ UNCHANGED msgs /\ msgs[id].cmd = "XX"
    <2>1. CASE Elaborated(id)
        BY <1>t, <1>5, <2>1, RowElaborated
    <2>2. CASE batch[1].cmd = "XX" /\ UNCHANGED <<msgs, last>>
        BY <1>t, <1>4, <2>2, TablesSame DEF TypeOK
    <2> QED
        BY <1>1, <2>1, <2>2 DEF id
<1>7. TypeOK'
    BY <1>t, <1>1, <1>bool, <1>3, <1>6 DEF TypeOK
<1>8. \A i \in Waiting' : i \in Waiting /\ i # id
    BY <1>6 DEF Waiting, Found, Pending
<1>9. \A k \in DOMAIN batch' : id < batch'[k].id
    <2>1. \A k \in DOMAIN batch' : k + 1 \in DOMAIN batch /\ 1 < k + 1
        BY <1>3
    <2> QED
        BY <1>t, <1>3, <2>1 DEF BatchInv, id
<1>10. \A k \in DOMAIN batch' : batch'[k].id \in Found' /\ batch'[k].cmd = msgs'[batch'[k].id].cmd
    <2> SUFFICES ASSUME NEW k \in DOMAIN batch'
                 PROVE  batch'[k].id \in Found' /\ batch'[k].cmd = msgs'[batch'[k].id].cmd
        OBVIOUS
    <2>1. batch'[k].id \in Found /\ batch'[k].cmd = msgs[batch'[k].id].cmd
        BY <1>t, <1>3 DEF BatchInv
    <2>2. batch'[k].id # id /\ batch'[k].id \in Ids
        <3>1. batch'[k].id \in Nat
            BY <1>t, <2>1, RowFacts DEF Found, Pending
        <3> QED
            BY <1>5, <1>9, <2>1, <3>1 DEF Found, Pending
    <2>3. msgs'[batch'[k].id] = msgs[batch'[k].id]
        BY <2>2, <1>6
    <2> QED
        BY <2>1, <2>2, <2>3 DEF Found, Pending
<1>11. \A k, l \in DOMAIN batch' : k < l => batch'[k].id < batch'[l].id
    BY <1>t, <1>3 DEF BatchInv
<1>12. ASSUME NEW i \in Waiting'
       PROVE  \/ \E k \in DOMAIN batch' : batch'[k].id = i
              \/ \A k \in DOMAIN batch' : batch'[k].id < i
    <2>1. i \in Waiting /\ i # id
        BY <1>12, <1>8
    <2>2. CASE \E k \in DOMAIN batch : batch[k].id = i
        <3>1. PICK k \in DOMAIN batch : batch[k].id = i
            BY <2>2
        <3>2. k # 1
            BY <2>1, <3>1 DEF id
        <3> QED
            BY <3>1, <3>2, <1>3
    <2>3. CASE \A k \in DOMAIN batch : batch[k].id < i
        BY <2>3, <1>3
    <2> QED
        BY <1>t, <2>1, <2>2, <2>3 DEF BatchInv
<1>13. BatchInv'
    BY <1>1, <1>10, <1>11, <1>12 DEF BatchInv
<1>14. RanInv'
    BY <1>t, <1>1, <1>6, <1>8 DEF RanInv, RowsGrow
<1> QED
    BY <1>1, <1>6, <1>7, <1>13, <1>14, DispatcherApart DEF IInv

\* The dispatcher ends, its batch half through.
LEMMA DispatcherEnds ==
    ASSUME IInv, DispatcherStops
    PROVE  IInv'
<1>t. TypeOK /\ RowsInv /\ RanInv /\ stops \in 0..MaxStops
    BY DEF IInv, TypeOK
<1>1. /\ UNCHANGED <<msgs, last, link, lock, rec, up, script, ran, unrun, sent>>
      /\ batch' = <<>> /\ acking' = FALSE
    BY DEF DispatcherStops, tables, daemon, history
<1>2. stops' \in 0..MaxStops
    BY <1>t, FiasAssumption DEF DispatcherStops
<1>b. acking' \in BOOLEAN
    BY DEF DispatcherStops
<1>e. <<>> \in Seq(Handed)
    OBVIOUS
<1>f. batch' \in Seq(Handed)
    BY <1>1, <1>e, Zenon
<1>3. TypeOK'
    BY <1>t, <1>1, <1>2, <1>b, <1>f DEF TypeOK
<1>4. RowsInv' /\ RowsGrow /\ Keeps("PMS")
    BY <1>t, <1>1, TablesSame
<1>5. BatchInv' /\ RanInv'
    BY <1>t, <1>1 DEF BatchInv, RanInv, Waiting, Found, Pending
<1> QED
    BY <1>1, <1>3, <1>4, <1>5, DispatcherApart DEF IInv

-----------------------------------------------------------------------------
(* The scripts.                                                            *)

LEMMA ScriptSteps ==
    ASSUME IInv, NEW s \in Scripts, Queue(s) \/ QueueParameter(s) \/ ScriptStops(s)
    PROVE  IInv'
<1>t. TypeOK /\ RowsInv /\ InsertInv /\ SendInv /\ BatchInv /\ RanInv /\ LinkInv
    BY DEF IInv
<1>v. script \in [Scripts -> Record] /\ last \in Nat /\ stops \in 0..MaxStops
    BY <1>t, RowFacts DEF TypeOK
<1>same. UNCHANGED <<link, lock, rec, up, batch, acking, ran, unrun, sent>>
    BY DEF Queue, QueueParameter, ScriptStops, daemon, dispatcher, history
\* What is left to show of each of the three.
<1>frame. ASSUME TypeOK', RowsInv', RowsGrow, Keeps("PBX"), Keeps("PMS"),
                 \A x \in Scripts : script'[x] # NoRecord =>
                    script'[x].id \in 1..last' /\ msgs'[script'[x].id].dir = "PMS",
                 \A i \in 1..last' : i > last => msgs'[i].dir = "PMS",
                 \A i \in 1..last : msgs'[i].has > msgs[i].has => msgs[i].dir # "PBX"
          PROVE  IInv'
    <2>1. InsertInv'
        BY <1>frame, <1>t, <1>same, InsertKeptByOthers
    <2>2. SendInv'
        BY <1>frame, <1>t, <1>same, SendKeptByOthers
    <2>3. Waiting' \subseteq Waiting
        BY <1>frame, <1>t, NothingNew
    <2>4. BatchInv' /\ RanInv'
        BY <1>frame, <1>t, <1>same, <2>3, BatchKept
    <2>5. LinkInv'
        BY <1>t, <1>same DEF LinkInv
    <2> QED
        BY <1>frame, <2>1, <2>2, <2>4, <2>5 DEF IInv
<1>1. CASE Queue(s)
    <2>1. PICK c \in ToPmsCmds, n \in 0..MaxParams :
             /\ InsertRow("PMS", c, n)
             /\ script' = [script EXCEPT ![s] =
                   IF n = 0 THEN NoRecord
                   ELSE [id |-> last + 1, cmd |-> c, want |-> n, has |-> 0]]
        BY <1>1 DEF Queue
    <2>2. n \in Nat
        BY FiasAssumption
    <2>3. /\ msgs' \in [Ids -> Row] /\ last' \in 0..MaxId
          /\ RowsInv' /\ RowsGrow /\ Keeps("PBX") /\ Keeps("PMS")
          /\ last + 1 \in Ids /\ last' = last + 1
          /\ msgs'[last + 1] = [st |-> "pending", dir |-> "PMS", cmd |-> c, want |-> n, has |-> 0]
          /\ \A i \in Ids : i # last + 1 => msgs'[i] = msgs[i]
        BY <1>t, <2>1, <2>2, RowInserted
    <2>4. script' \in [Scripts -> Record]
        BY <2>1, <2>2, <1>v, NoRecordType DEF Record
    <2>5. TypeOK'
        BY <1>t, <1>1, <1>same, <2>3, <2>4 DEF TypeOK, Queue
    <2>6. /\ \A x \in Scripts : x # s => script'[x] = script[x]
          /\ script'[s] # NoRecord => script'[s].id = last + 1
        BY <2>1, <1>v
    <2>7. last + 1 \in 1..last' /\ msgs'[last + 1].dir = "PMS"
        BY <2>3, <1>v
    <2>8. \A x \in Scripts : script'[x] # NoRecord =>
             script'[x].id \in 1..last' /\ msgs'[script'[x].id].dir = "PMS"
        <3>1. \A x \in Scripts : x # s /\ script[x] # NoRecord =>
                 script[x].id \in 1..last' /\ msgs'[script[x].id].dir = "PMS"
            BY <1>t, <1>v, <2>3 DEF InsertInv, RowsGrow
        <3> QED
            BY <2>6, <2>7, <3>1
    <2>9. \A i \in 1..last' : i > last => msgs'[i].dir = "PMS"
        <3>1. \A i \in 1..last' : i > last => i = last + 1
            BY <1>v, <2>3
        <3> QED
            BY <3>1, <2>7
    <2>10. \A i \in 1..last : ~ (msgs'[i].has > msgs[i].has)
        <3>1. \A i \in 1..last : i \in Ids /\ i # last + 1 /\ msgs[i].has \in Nat
            BY <1>t, <1>v, RowFacts
        <3> QED
            BY <3>1, <2>3
    <2> QED
        BY <2>3, <2>5, <2>8, <2>9, <2>10, <1>frame
<1>2. CASE QueueParameter(s)
    <2>1. /\ script[s] # NoRecord /\ InsertParameter(script[s].id)
          /\ script' = [script EXCEPT ![s] =
                IF @.has + 1 = @.want THEN NoRecord ELSE [script[s] EXCEPT !.has = @ + 1]]
        BY <1>2 DEF QueueParameter
    <2>2. script[s].id \in 1..last /\ msgs[script[s].id].dir = "PMS"
        BY <1>t, <2>1 DEF InsertInv
    <2>3. /\ msgs' \in [Ids -> Row] /\ last' = last
          /\ RowsInv' /\ RowsGrow /\ Keeps("PBX") /\ Keeps("PMS")
          /\ \A i \in Ids : i # script[s].id => msgs'[i] = msgs[i]
        BY <1>t, <2>1, <2>2, ParameterInserted
    <2>4. [script[s] EXCEPT !.has = @ + 1] \in Record /\ [script[s] EXCEPT !.has = @ + 1].id = script[s].id
        <3>1. script[s] \in Record
            BY <1>v
        <3> QED
            BY <3>1 DEF Record
    <2>5. /\ script' \in [Scripts -> Record]
          /\ \A x \in Scripts : script'[x] # NoRecord =>
                script[x] # NoRecord /\ script'[x].id = script[x].id
        <3> DEFINE on == [script[s] EXCEPT !.has = @ + 1]
        <3> DEFINE r == IF script[s].has + 1 = script[s].want THEN NoRecord ELSE on
        <3>r. r \in {NoRecord, on}
            OBVIOUS
        <3>0. script' = [script EXCEPT ![s] = r]
            BY <2>1
        <3> HIDE DEF on, r
        <3>1. /\ \A x \in Scripts : x # s => script'[x] = script[x]
              /\ script'[s] \in {NoRecord, on}
              /\ script' = [x \in Scripts |-> script'[x]]
            BY <3>0, <3>r, <1>v
        <3>2. on \in Record /\ on.id = script[s].id
            BY <2>4 DEF on
        <3> QED
            BY <2>1, <3>1, <3>2, <1>v, NoRecordType
    <2>6. TypeOK'
        BY <1>t, <1>2, <1>same, <2>3, <2>5 DEF TypeOK, QueueParameter
    <2>7. \A x \in Scripts : script'[x] # NoRecord =>
             script'[x].id \in 1..last' /\ msgs'[script'[x].id].dir = "PMS"
        BY <1>t, <2>3, <2>5, <2>6, ScriptsKept
    <2>8. \A i \in 1..last : msgs'[i].has > msgs[i].has => msgs[i].dir # "PBX"
        <3>1. \A i \in 1..last : i \in Ids /\ msgs[i].has \in Nat
            BY <1>t, RowFacts
        <3> QED
            BY <3>1, <2>2, <2>3
    <2>9. \A i \in 1..last' : ~ (i > last)
        BY <2>3, <1>v
    <2> QED
        BY <2>3, <2>6, <2>7, <2>8, <2>9, <1>frame
<1>3. CASE ScriptStops(s)
    <2>1. UNCHANGED <<msgs, last>> /\ script' = [script EXCEPT ![s] = NoRecord]
        BY <1>3 DEF ScriptStops, tables
    <2>2. stops' \in 0..MaxStops
        BY <1>3, <1>v, FiasAssumption DEF ScriptStops
    <2>3. RowsInv' /\ RowsGrow /\ Keeps("PBX") /\ Keeps("PMS")
        BY <1>t, <2>1, TablesSame
    <2>4. /\ script' \in [Scripts -> Record]
          /\ \A x \in Scripts : script'[x] # NoRecord =>
                script[x] # NoRecord /\ script'[x].id = script[x].id
        BY <2>1, <1>v, NoRecordType
    <2>5. TypeOK'
        BY <1>t, <1>same, <2>1, <2>2, <2>4 DEF TypeOK
    <2>6. \A x \in Scripts : script'[x] # NoRecord =>
             script'[x].id \in 1..last' /\ msgs'[script'[x].id].dir = "PMS"
        BY <1>t, <2>3, <2>4, <2>5, ScriptsKept
    <2>7. /\ \A i \in 1..last' : ~ (i > last)
          /\ \A i \in 1..last : ~ (msgs'[i].has > msgs[i].has)
        BY <1>t, <1>v, <2>1, RowFacts
    <2> QED
        BY <2>3, <2>5, <2>6, <2>7, <1>frame
<1> QED
    BY <1>1, <1>2, <1>3

-----------------------------------------------------------------------------
LEMMA FiasInit == Init => IInv
<1> SUFFICES ASSUME Init PROVE IInv
    OBVIOUS
<1>e. <<>> \in Seq(Handed) /\ <<>> \in Seq(Record)
    OBVIOUS
<1>r. NoRow \in Row
    BY DEF NoRow, Row
<1>b. lock \in BOOLEAN /\ up \in BOOLEAN /\ acking \in BOOLEAN
    BY DEF Init
<1>i. /\ msgs \in [Ids -> Row] /\ script \in [Scripts -> Record]
      /\ last \in 0..MaxId /\ stops \in 0..MaxStops /\ link \in LinkStates
    BY <1>r, NoRecordType, FiasAssumption DEF Init, LinkStates
<1>1. TypeOK
    BY <1>e, <1>b, <1>i, NoRecordType DEF Init, TypeOK
<1>2. \A i \in Ids : msgs[i] = NoRow /\ i \in Nat /\ i > 0
    BY <1>1, RowFacts, FiasAssumption DEF Init, Ids
<1>3. RowsInv
    BY <1>2 DEF Init, RowsInv
<1>4. Waiting = {}
    BY <1>2 DEF Waiting, Found, Pending, NoRow
<1>5. DOMAIN ran = {} /\ DOMAIN sent = {} /\ DOMAIN batch = {}
    BY DEF Init
<1> QED
    BY <1>1, <1>3, <1>4, <1>5
    DEF Init, IInv, LinkInv, OnLink, InsertInv, SendInv, Sending, BatchInv, RanInv

LEMMA FiasNext == IInv /\ [Next]_vars => IInv'
<1> SUFFICES ASSUME IInv, [Next]_vars PROVE IInv'
    OBVIOUS
<1>1. CASE Daemon
    BY <1>1, DaemonTalks, DaemonSends, DaemonStarts, DaemonAcknowledges, DaemonStores DEF Daemon
<1>2. CASE Dispatcher
    BY <1>2, DispatcherPolls, DispatcherRunsHandler, DispatcherGivesUp, DispatcherGoesOn,
       DispatcherEnds
    DEF Dispatcher, DispatcherRuns
<1>3. CASE \E s \in Scripts : Queue(s) \/ QueueParameter(s) \/ ScriptStops(s)
    BY <1>3, ScriptSteps
<1>4. CASE UNCHANGED vars
    BY <1>4
    DEF vars, IInv, TypeOK, RowsInv, LinkInv, InsertInv, SendInv, BatchInv, RanInv, Waiting, Found, Pending
<1> QED
    BY <1>1, <1>2, <1>3, <1>4 DEF Next

\* FiasBridgeInv's IInv is inductive: what fiasd.php, dispatcher.php and the
\* scripts rely on holds for any number of scripts, messages, parameters and
\* of processes that end half way.
THEOREM BridgeInvariant == Spec => []IInv
    BY FiasInit, FiasNext, PTL DEF Spec

\* The two tables, the daemons' variables and the histories keep their types.
THEOREM BridgeTypes == Spec => []TypeOK
<1>1. IInv => TypeOK
    BY DEF IInv
<1> QED
    BY <1>1, BridgeInvariant, PTL

\* stSendData and stReadDB: nothing is written to the socket before the handshake
\* is complete, after either side has started it again, or between DS and DE.
THEOREM OnlyOnLink == Spec => DataOnlyOnLink
<1>1. ASSUME IInv, [Next]_vars
      PROVE  [sent' # sent => up /\ ~lock]_vars
    <2>1. CASE ReadParams \/ SendData
        BY <1>1, <2>1 DEF ReadParams, SendData, IInv, LinkInv, OnLink
    <2>2. CASE Daemon /\ ~ (ReadParams \/ SendData)
        BY <2>2 DEF Daemon, Start, Disconnected, WaitForSincro, WaitForLSLA, WaitForLA,
            WaitForData, SendLA, SendLDLRLA, SendLS, ReadDB, AckData, AckLE, WriteDB,
            WriteParams, DaemonStatementFails, DaemonStops, history
    <2>3. CASE Dispatcher
        BY <2>3 DEF Dispatcher, DispatcherRuns, Poll, AcknowledgeLR, SkipUndefined, RunHandler,
            HandlerNotStarted, AcknowledgeRun, DispatcherStops, history
    <2>4. CASE \E s \in Scripts : Queue(s) \/ QueueParameter(s) \/ ScriptStops(s)
        BY <2>4 DEF Queue, QueueParameter, ScriptStops, history
    <2>5. CASE UNCHANGED vars
        BY <2>5 DEF vars
    <2> QED
        BY <1>1, <2>1, <2>2, <2>3, <2>4, <2>5 DEF Next
<1> QED
    BY <1>1, BridgeInvariant, PTL DEF Spec, DataOnlyOnLink

-----------------------------------------------------------------------------
(***************************************************************************)
(* The refinements.  In each direction a step hands a message over, gives  *)
(* it up, or acknowledges messages, or leaves the rows as they are but for *)
(* new ones, which FiasOrder accepts.                                      *)
(***************************************************************************)

\* Rows are as they were in direction dir, but for new ones that are pending.
RowsStep(dir) ==
    /\ RowsGrow /\ Keeps(dir)
    /\ \A i \in Ids : last < i /\ i <= last' => msgs'[i].st = "pending"

LEMMA RowsStayStep ==
    ASSUME TypeOK, RowsInv, UNCHANGED <<msgs, last>>
    PROVE  \A dir : RowsStep(dir)
BY TablesSame, RowFacts DEF RowsStep

LEMMA RowInsertedStep ==
    ASSUME TypeOK, RowsInv, NEW dir \in {"PBX", "PMS"}, NEW cmd \in FromPms \cup ToPmsCmds \cup {"none"},
           NEW want \in Nat, InsertRow(dir, cmd, want)
    PROVE  \A d : RowsStep(d)
<1>1. /\ RowsGrow /\ \A d : Keeps(d)
      /\ last + 1 \in Ids /\ last' = last + 1
      /\ msgs'[last + 1] = [st |-> "pending", dir |-> dir, cmd |-> cmd, want |-> want, has |-> 0]
    BY RowInserted
<1>2. \A i \in Ids : last < i /\ i <= last' => i = last + 1
    BY <1>1, RowFacts
<1> QED
    BY <1>1, <1>2 DEF RowsStep

LEMMA ParameterInsertedStep ==
    ASSUME TypeOK, RowsInv, NEW id \in 1..last, InsertParameter(id)
    PROVE  \A dir : RowsStep(dir)
BY ParameterInserted, RowFacts DEF RowsStep

LEMMA RowElaboratedStep ==
    ASSUME TypeOK, RowsInv, NEW id \in 1..last, msgs[id].st = "pending", Elaborated(id)
    PROVE  \A dir : dir # msgs[id].dir => RowsStep(dir)
BY RowElaborated, RowFacts DEF RowsStep

\* What is being sent has a row.
LEMMA SendingRow ==
    ASSUME IInv, link \in Sending
    PROVE  rec.id \in 1..last /\ msgs[rec.id].st = "pending" /\ msgs[rec.id].dir = "PMS"
BY RowFacts DEF IInv, SendInv, Pending, RowsInv, NoRow

\* And so has what the dispatcher is at.
LEMMA BatchRow ==
    ASSUME IInv, batch # <<>>
    PROVE  /\ batch[1].id \in 1..last /\ batch[1].id \in Found /\ batch[1].cmd = msgs[batch[1].id].cmd
           /\ msgs[batch[1].id].st = "pending" /\ msgs[batch[1].id].dir = "PBX"
<1>1. batch \in Seq(Handed) /\ TypeOK /\ BatchInv /\ RowsInv
    BY DEF IInv, TypeOK
<1>2. 1 \in DOMAIN batch
    BY <1>1, TailFacts
<1> QED
    BY <1>1, <1>2, RowFacts DEF BatchInv, Found, Pending, RowsInv, NoRow

LEMMA DaemonSteps ==
    ASSUME IInv, Daemon
    PROVE  /\ RowsStep("PBX") /\ UNCHANGED <<ran, unrun>>
           /\ \/ Start \/ ReadParams \/ SendData \/ AckData \/ AckLE
              \/ RowsStep("PMS") /\ UNCHANGED sent
<1>t. TypeOK /\ RowsInv /\ InsertInv
    BY DEF IInv
<1>1. CASE Start
    <2>1. RowsGrow /\ Keeps("PBX") /\ last' = last
        BY <1>1, StartDeletes DEF Start
    <2> QED
        BY <1>t, <1>1, <2>1, RowFacts DEF RowsStep, Start, history
<1>2. CASE ReadParams \/ SendData
    BY <1>t, <1>2, RowsStayStep DEF ReadParams, SendData, tables
<1>3. CASE AckData \/ AckLE
    <2>1. link \in Sending /\ Elaborated(rec.id) /\ UNCHANGED <<ran, unrun>>
        BY <1>3 DEF AckData, AckLE, Sending, history
    <2> QED
        BY <1>t, <1>3, <2>1, SendingRow, RowElaboratedStep
<1>4. CASE WriteDB
    <2>1. UNCHANGED history
        BY <1>4 DEF WriteDB
    <2>2. CASE UNCHANGED tables
        BY <1>t, <2>1, <2>2, RowsStayStep DEF tables, history
    <2>3. CASE InsertRow("PBX", rec.cmd, rec.want)
        <3>1. rec.cmd \in FromPms \cup ToPmsCmds \cup {"none"} /\ rec.want \in Nat
            BY <1>t DEF TypeOK, Record
        <3> QED
            BY <1>t, <2>1, <2>3, <3>1, RowInsertedStep DEF history
    <2> QED
        BY <1>4, <2>2, <2>3 DEF WriteDB, tables
<1>5. CASE WriteParams
    <2>1. rec.id \in 1..last /\ InsertParameter(rec.id) /\ UNCHANGED history
        BY <1>t, <1>5 DEF WriteParams, InsertInv
    <2> QED
        BY <1>t, <2>1, ParameterInsertedStep DEF history
<1>6. CASE \/ Disconnected \/ WaitForSincro \/ WaitForLSLA \/ WaitForLA \/ WaitForData
           \/ SendLA \/ SendLDLRLA \/ SendLS \/ ReadDB \/ DaemonStatementFails \/ DaemonStops
    <2>1. UNCHANGED <<tables, history>>
        BY <1>6 DEF Disconnected, WaitForSincro, WaitForLSLA, WaitForLA, WaitForData, SendLA,
            SendLDLRLA, SendLS, ReadDB, DaemonStatementFails, DaemonStops
    <2> QED
        BY <1>t, <2>1, RowsStayStep DEF tables, history
<1> QED
    BY <1>1, <1>2, <1>3, <1>4, <1>5, <1>6 DEF Daemon

LEMMA DispatcherSteps ==
    ASSUME IInv, Dispatcher
    PROVE  /\ RowsStep("PMS") /\ UNCHANGED sent
           /\ \/ RunHandler \/ HandlerNotStarted \/ AcknowledgeLR \/ AcknowledgeRun
              \/ RowsStep("PBX") /\ UNCHANGED <<ran, unrun>>
<1>t. TypeOK /\ RowsInv /\ BatchInv
    BY DEF IInv
<1>1. CASE Poll \/ SkipUndefined \/ RunHandler \/ HandlerNotStarted \/ DispatcherStops
    <2>1. /\ UNCHANGED <<msgs, last, sent>>
          /\ RunHandler \/ HandlerNotStarted \/ UNCHANGED <<ran, unrun>>
        BY <1>1 DEF Poll, SkipUndefined, RunHandler, HandlerNotStarted, DispatcherStops, tables, history
    <2> QED
        BY <1>t, <2>1, RowsStayStep
<1>2. CASE AcknowledgeLR \/ AcknowledgeRun
    <2>1. batch # <<>> /\ Elaborated(batch[1].id) /\ UNCHANGED sent
        BY <1>t, <1>2 DEF AcknowledgeLR, AcknowledgeRun, BatchInv, history
    <2> QED
        BY <1>t, <1>2, <2>1, BatchRow, RowElaboratedStep
<1> QED
    BY <1>1, <1>2 DEF Dispatcher, DispatcherRuns

LEMMA QueueSteps ==
    ASSUME IInv, NEW s \in Scripts, Queue(s) \/ QueueParameter(s) \/ ScriptStops(s)
    PROVE  RowsStep("PBX") /\ RowsStep("PMS") /\ UNCHANGED <<ran, unrun, sent>>
<1>t. TypeOK /\ RowsInv /\ InsertInv
    BY DEF IInv
<1>h. UNCHANGED <<ran, unrun, sent>>
    BY DEF Queue, QueueParameter, ScriptStops, history
<1>1. CASE Queue(s)
    <2>1. PICK c \in ToPmsCmds, n \in 0..MaxParams : InsertRow("PMS", c, n)
        BY <1>1 DEF Queue
    <2>2. n \in Nat
        BY FiasAssumption
    <2> QED
        BY <1>t, <1>h, <2>1, <2>2, RowInsertedStep
<1>2. CASE QueueParameter(s)
    <2>1. script[s].id \in 1..last /\ InsertParameter(script[s].id)
        BY <1>t, <1>2 DEF QueueParameter, InsertInv
    <2> QED
        BY <1>t, <1>h, <2>1, ParameterInsertedStep
<1>3. CASE ScriptStops(s)
    BY <1>t, <1>h, <1>3, RowsStayStep DEF ScriptStops, tables
<1> QED
    BY <1>1, <1>2, <1>3

\* The ids of the hand-overs, after one more of them.
LEMMA IdsAppended ==
    ASSUME NEW T, NEW s \in Seq(T), NEW x \in T
    PROVE  [k \in DOMAIN Append(s, x) |-> Append(s, x)[k].id]
              = Append([k \in DOMAIN s |-> s[k].id], x.id)
<1> DEFINE ids == [k \in DOMAIN s |-> s[k].id]
<1> DEFINE all == [k \in DOMAIN Append(s, x) |-> Append(s, x)[k].id]
<1> DEFINE V == {s[k].id : k \in DOMAIN s} \cup {x.id}
<1>1. ids \in Seq(V) /\ Len(ids) = Len(s) /\ x.id \in V
    OBVIOUS
<1>2. \A k \in DOMAIN ids : ids[k] = s[k].id
    OBVIOUS
<1>3. DOMAIN ids = DOMAIN s /\ DOMAIN all = DOMAIN Append(s, x)
    OBVIOUS
<1>4. \A k \in DOMAIN all : all[k] = Append(s, x)[k].id
    OBVIOUS
<1>f. all = [k \in DOMAIN all |-> all[k]]
    OBVIOUS
<1> HIDE DEF ids, all, V
<1>5. /\ Append(ids, x.id) \in Seq(V) /\ DOMAIN Append(ids, x.id) = 1..(Len(ids) + 1)
      /\ \A k \in DOMAIN ids : Append(ids, x.id)[k] = ids[k]
      /\ Append(ids, x.id)[Len(ids) + 1] = x.id
    BY <1>1, AppendFacts
<1>6. /\ DOMAIN all = 1..(Len(s) + 1)
      /\ \A k \in DOMAIN s : Append(s, x)[k] = s[k]
      /\ Append(s, x)[Len(s) + 1] = x
      /\ \A k \in DOMAIN all : k \in DOMAIN s \/ k = Len(s) + 1
    BY <1>3, AppendFacts
<1>7. \A k \in DOMAIN all : all[k] = Append(ids, x.id)[k]
    BY <1>1, <1>2, <1>3, <1>4, <1>5, <1>6
<1>8. Append(ids, x.id) = [k \in 1..(Len(ids) + 1) |-> Append(ids, x.id)[k]]
    BY <1>5
<1>9. all = Append(ids, x.id)
    BY <1>1, <1>5, <1>6, <1>7, <1>8, <1>f
<1> QED
    BY <1>9 DEF ids, all

\* A step on the rows, row by row.
LEMMA RowByRow ==
    ASSUME TypeOK, TypeOK', RowsInv, RowsInv', NEW dir, RowsStep(dir)
    PROVE  /\ \A i \in Ids : i \in Nat /\ last \in Nat /\ (i <= last \/ i > last)
           /\ \A i \in Ids : i <= last =>
                 /\ msgs'[i].dir = msgs[i].dir /\ msgs'[i].cmd = msgs[i].cmd
                 /\ msgs'[i].st # "none" /\ msgs[i].st # "none"
                 /\ msgs[i].dir = dir => msgs'[i].st = msgs[i].st
           /\ \A i \in Ids : i > last =>
                 /\ msgs[i] = NoRow
                 /\ msgs'[i] = NoRow \/ msgs'[i].st = "pending"
           /\ NoRow.st = "none" /\ NoRow.cmd = "none"
<1>0. last \in Nat /\ last' \in Nat /\ last <= last'
    BY DEF TypeOK, RowsStep, RowsGrow
<1>1. ASSUME NEW i \in Ids, i <= last
      PROVE  /\ msgs'[i].dir = msgs[i].dir /\ msgs'[i].cmd = msgs[i].cmd
             /\ msgs'[i].st # "none" /\ msgs[i].st # "none"
             /\ msgs[i].dir = dir => msgs'[i].st = msgs[i].st
    <2>1. i \in 1..last /\ i <= last'
        BY <1>0, <1>1, RowFacts
    <2> QED
        BY <1>1, <2>1 DEF RowsStep, RowsGrow, Keeps, RowsInv
<1>2. ASSUME NEW i \in Ids, i > last
      PROVE  /\ msgs[i] = NoRow
             /\ msgs'[i] = NoRow \/ msgs'[i].st = "pending"
    <2>1. i > last' \/ i <= last'
        BY <1>0, RowFacts
    <2> QED
        BY <1>2, <2>1 DEF RowsStep, RowsInv
<1> QED
    BY <1>1, <1>2, RowFacts DEF NoRow

LEMMA PbxAccepts ==
    ASSUME TypeOK, TypeOK', RowsInv, RowsInv', RowsStep("PBX"), UNCHANGED <<ran, unrun>>
    PROVE  ToPbx!Accept
BY RowByRow DEF ToPbx!Accept

LEMMA PmsAccepts ==
    ASSUME TypeOK, TypeOK', RowsInv, RowsInv', RowsStep("PMS"), UNCHANGED sent
    PROVE  ToPms!Accept
BY RowByRow DEF ToPms!Accept

\* The message whose handler is to be started: none started is after it.
LEMMA PbxTurn ==
    ASSUME IInv, batch # <<>>, batch[1].cmd = "GI"
    PROVE  /\ batch[1] \in Handed /\ batch[1].id \in Ids
           /\ batch[1].id \in {i \in Ids : msgs[i].st # "none" /\ msgs[i].dir = "PBX"}
                              \ {i \in Ids : msgs[i].st = "done" /\ msgs[i].dir = "PBX"}
           /\ \A j \in ToPbx!HandedOver : j <= batch[1].id
<1>1. batch[1] \in Handed /\ batch[1].id \in Ids
    BY BatchRow, TailFacts, RowFacts DEF IInv, TypeOK
<1>2. batch[1].id \in Waiting
    BY BatchRow DEF Waiting
<1>3. \A k \in DOMAIN ran : ran[k].id <= batch[1].id
    BY <1>2 DEF IInv, RanInv
<1>4. \A j \in ToPbx!HandedOver : j <= batch[1].id
    BY <1>3 DEF ToPbx!HandedOver
<1> QED
    BY <1>1, <1>4, BatchRow

LEMMA PbxDelivers ==
    ASSUME IInv, RunHandler
    PROVE  ToPbx!Deliver
<1>1. /\ UNCHANGED <<msgs, last, unrun>>
      /\ batch # <<>> /\ batch[1].cmd = "GI" /\ ran' = Append(ran, batch[1])
    BY DEF RunHandler, tables
<1>2. ran \in Seq(Handed) /\ batch[1] \in Handed
    BY <1>1, PbxTurn DEF IInv, TypeOK
<1>3. [k \in DOMAIN ran' |-> ran'[k].id] = Append([k \in DOMAIN ran |-> ran[k].id], batch[1].id)
    BY <1>1, <1>2, IdsAppended
<1> QED
    BY <1>1, <1>3, PbxTurn DEF ToPbx!Deliver

LEMMA PbxGivesUp ==
    ASSUME IInv, HandlerNotStarted
    PROVE  ToPbx!GiveUp
<1>1. /\ UNCHANGED <<msgs, last, ran>>
      /\ batch # <<>> /\ batch[1].cmd = "GI" /\ unrun' = unrun \cup {batch[1].id}
    BY DEF HandlerNotStarted, tables
<1> DEFINE lr == {i \in Ids : msgs[i].dir = "PBX" /\ msgs[i].cmd = "LR"}
<1>2. lr' = lr /\ lr \cup unrun' = (lr \cup unrun) \cup {batch[1].id}
    BY <1>1
<1> QED
    BY <1>1, <1>2, PbxTurn DEF ToPbx!GiveUp

LEMMA PbxAcknowledges ==
    ASSUME IInv, AcknowledgeLR \/ AcknowledgeRun
    PROVE  ToPbx!Acknowledge
<1>t. TypeOK /\ RowsInv /\ BatchInv
    BY DEF IInv
<1>1. /\ batch # <<>> /\ Elaborated(batch[1].id) /\ UNCHANGED <<ran, unrun>>
      /\ \/ batch[1].cmd = "LR" \/ batch[1].id \in unrun
         \/ \E k \in DOMAIN ran : ran[k].id = batch[1].id
    BY <1>t DEF AcknowledgeLR, AcknowledgeRun, BatchInv, history
<1> DEFINE id == batch[1].id
<1>2. /\ id \in 1..last /\ msgs[id].st = "pending" /\ msgs[id].dir = "PBX"
      /\ msgs[id].cmd = batch[1].cmd
    BY <1>1, BatchRow
<1>3. id \in ToPbx!HandedOver \cup {i \in Ids : msgs[i].dir = "PBX" /\ msgs[i].cmd = "LR"} \cup unrun
    BY <1>t, <1>1, <1>2, RowFacts DEF ToPbx!HandedOver
<1>4. Elaborated(id)
    BY <1>1
<1> HIDE DEF id
<1>5. /\ \A i \in Ids : i # id => msgs'[i] = msgs[i]
      /\ msgs'[id].st = "done" /\ msgs'[id].dir = msgs[id].dir /\ msgs'[id].cmd = msgs[id].cmd
    BY <1>t, <1>2, <1>4, RowElaborated
<1> QED
    BY <1>1, <1>2, <1>3, <1>5 DEF ToPbx!Acknowledge

LEMMA PmsDelivers ==
    ASSUME IInv, ReadParams \/ SendData, sent' # sent
    PROVE  ToPms!Deliver
<1>t. TypeOK /\ RowsInv /\ SendInv /\ sent \in Seq(Record) /\ rec \in Record
    BY DEF IInv, TypeOK
<1>1. PICK r \in Record : r.id = rec.id /\ sent' = Append(sent, r)
    <2>1. CASE SendData
        BY <1>t, <2>1 DEF SendData
    <2>2. CASE ReadParams
        <3> DEFINE r == [rec EXCEPT !.has = msgs[rec.id].has]
        <3>1. sent' = Append(sent, r)
            BY <2>2 DEF ReadParams
        <3>2. rec.id \in Ids
            BY <1>t, <2>2, SendingRow, RowFacts DEF ReadParams, Sending
        <3>3. msgs[rec.id].has \in Nat
            BY <1>t, <3>2, RowFacts
        <3>4. r \in Record /\ r.id = rec.id
            BY <1>t, <3>3 DEF Record
        <3> QED
            BY <3>1, <3>4
    <2> QED
        BY <2>1, <2>2
<1>2. link \in {"ReadParams", "SendData"} /\ link \in Sending /\ UNCHANGED <<msgs, last>>
    BY DEF ReadParams, SendData, Sending, tables
<1>3. [k \in DOMAIN sent' |-> sent'[k].id] = Append([k \in DOMAIN sent |-> sent[k].id], rec.id)
    BY <1>t, <1>1, IdsAppended
<1>4. rec.id \in Pending("PMS") /\ \A k \in DOMAIN sent : sent[k].id <= rec.id
    BY <1>t, <1>2 DEF SendInv
<1>5. rec.id \in {i \in Ids : msgs[i].st # "none" /\ msgs[i].dir = "PMS"}
                  \ {i \in Ids : msgs[i].st \in {"done", "deleted"} /\ msgs[i].dir = "PMS"}
    BY <1>4 DEF Pending
<1>6. \A j \in ToPms!HandedOver : j <= rec.id
    BY <1>4 DEF ToPms!HandedOver
<1> QED
    BY <1>2, <1>3, <1>5, <1>6 DEF ToPms!Deliver

LEMMA PmsAcknowledges ==
    ASSUME IInv, Start \/ AckData \/ AckLE
    PROVE  ToPms!Acknowledge
<1>t. TypeOK /\ RowsInv /\ SendInv
    BY DEF IInv
<1>1. CASE Start
    <2>1. \A i \in Ids : /\ msgs'[i].dir = msgs[i].dir /\ msgs'[i].cmd = msgs[i].cmd
                         /\ \/ msgs'[i].st = msgs[i].st
                            \/ /\ msgs'[i].st = "deleted"
                               /\ msgs[i].dir = "PMS" /\ msgs[i].cmd = "LE" /\ msgs[i].st = "pending"
        BY <1>t, <1>1, StartDeletes DEF Start, Pending
    <2>2. UNCHANGED sent
        BY <1>1 DEF Start, history
    <2> QED
        BY <2>1, <2>2 DEF ToPms!Acknowledge
<1>2. CASE AckData \/ AckLE
    <2>1. /\ link \in Sending /\ Elaborated(rec.id) /\ UNCHANGED sent
          /\ \/ rec.cmd = "LE"
             \/ \E k \in DOMAIN sent : sent[k].id = rec.id
        BY <1>t, <1>2 DEF AckData, AckLE, Sending, SendInv, history
    <2>2. /\ rec.id \in 1..last /\ msgs[rec.id].st = "pending" /\ msgs[rec.id].dir = "PMS"
          /\ msgs[rec.id].cmd = rec.cmd
        BY <1>t, <2>1, SendingRow DEF SendInv
    <2>3. rec.id \in ToPms!HandedOver \cup {i \in Ids : msgs[i].dir = "PMS" /\ msgs[i].cmd = "LE"}
        BY <1>t, <2>1, <2>2, RowFacts DEF ToPms!HandedOver
    <2>4. /\ \A i \in Ids : i # rec.id => msgs'[i] = msgs[i]
          /\ msgs'[rec.id].st = "done" /\ msgs'[rec.id].dir = msgs[rec.id].dir
          /\ msgs'[rec.id].cmd = msgs[rec.id].cmd
        BY <1>t, <2>1, <2>2, RowElaborated
    <2> QED
        BY <2>1, <2>2, <2>3, <2>4 DEF ToPms!Acknowledge
<1> QED
    BY <1>1, <1>2

LEMMA OrdersNext ==
    ASSUME IInv, IInv', [Next]_vars
    PROVE  [ToPbx!Next]_(ToPbx!vars) /\ [ToPms!Next]_(ToPms!vars)
<1>t. TypeOK /\ TypeOK' /\ RowsInv /\ RowsInv'
    BY DEF IInv
<1>p. ASSUME RowsStep("PBX"), UNCHANGED <<ran, unrun>> PROVE ToPbx!Next
    BY <1>t, <1>p, PbxAccepts DEF ToPbx!Next
<1>m. ASSUME RowsStep("PMS"), UNCHANGED sent PROVE ToPms!Next
    BY <1>t, <1>m, PmsAccepts DEF ToPms!Next
<1>1. CASE Daemon
    <2>1. CASE Start \/ AckData \/ AckLE
        BY <1>1, <1>p, <2>1, DaemonSteps, PmsAcknowledges DEF ToPms!Next
    <2>2. CASE (ReadParams \/ SendData) /\ sent' # sent
        BY <1>1, <1>p, <2>2, DaemonSteps, PmsDelivers DEF ToPms!Next
    <2>3. CASE (ReadParams \/ SendData) /\ sent' = sent
        <3>1. RowsStep("PMS")
            BY <1>t, <2>3, RowsStayStep DEF ReadParams, SendData, tables
        <3> QED
            BY <1>1, <1>p, <1>m, <2>3, <3>1, DaemonSteps
    <2>4. CASE RowsStep("PMS") /\ UNCHANGED sent
        BY <1>1, <1>p, <1>m, <2>4, DaemonSteps
    <2> QED
        BY <1>1, <2>1, <2>2, <2>3, <2>4, DaemonSteps
<1>2. CASE Dispatcher
    <2>1. ToPms!Next
        BY <1>2, <1>m, DispatcherSteps
    <2>2. ToPbx!Next
        BY <1>2, <1>p, DispatcherSteps, PbxDelivers, PbxGivesUp, PbxAcknowledges DEF ToPbx!Next
    <2> QED
        BY <2>1, <2>2
<1>3. CASE \E s \in Scripts : Queue(s) \/ QueueParameter(s) \/ ScriptStops(s)
    BY <1>3, <1>p, <1>m, QueueSteps
<1>4. CASE UNCHANGED vars
    BY <1>t, <1>4, <1>p, <1>m, RowsStayStep DEF vars
<1> QED
    BY <1>1, <1>2, <1>3, <1>4 DEF Next

LEMMA OrdersInit == Init => ToPbx!Init /\ ToPms!Init
<1> SUFFICES ASSUME Init PROVE ToPbx!Init /\ ToPms!Init
    OBVIOUS
<1>1. \A i \in Ids : msgs[i].st = "none" /\ msgs[i].cmd = "none"
    BY DEF Init, NoRow
<1>2. /\ [k \in DOMAIN ran |-> ran[k].id] = <<>>
      /\ [k \in DOMAIN sent |-> sent[k].id] = <<>>
      /\ unrun = {}
    BY DEF Init
<1> QED
    BY <1>1, <1>2 DEF ToPbx!Init, ToPms!Init

\* fiasd.php and dispatcher.php between them implement FiasOrder for what the
\* PMS sends: handlers start in the order of the queue, none after its message
\* is acknowledged, and a message other than LR is acknowledged only when its
\* handler was started or, tried in its turn, could not be (exit code -1),
\* whatever process ends and wherever.
THEOREM PbxRefined == Spec => PbxInOrder
<1>1. Spec => ToPbx!Init /\ [][ToPbx!Next]_(ToPbx!vars)
    BY FiasInit, FiasNext, OrdersInit, OrdersNext, PTL DEF Spec
<1> QED
    BY <1>1 DEF PbxInOrder, ToPbx!Spec

\* The scripts and fiasd.php implement it for what the PMS is sent: LE apart,
\* no message is marked as sent that was not written to the socket.
THEOREM PmsRefined == Spec => PmsInOrder
<1>1. Spec => ToPms!Init /\ [][ToPms!Next]_(ToPms!vars)
    BY FiasInit, FiasNext, OrdersInit, OrdersNext, PTL DEF Spec
<1> QED
    BY <1>1 DEF PmsInOrder, ToPms!Spec
====
