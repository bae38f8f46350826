-------------------------- MODULE AdminPagesProofs --------------------------
(***************************************************************************)
(* AdminPages, for any number of values typed, of tasks and of tasks of    *)
(* pages left: nothing is replaced by an empty form, what was typed or     *)
(* saved stays, and a page at rest shows what is saved.                    *)
(***************************************************************************)
EXTENDS AdminPagesInv, TLAPS

-----------------------------------------------------------------------------
(* The pages and their fields.                                             *)

LEMMA PagesAre == Pages = {"hotel", "integrations", "settings", "rebranding"}
BY DEF Pages, FieldsOf

LEMMA FieldsOfAre ==
    /\ FieldsOf["hotel"] = {"hotel"} /\ FieldsOf["integrations"] = {"integrations"}
    /\ FieldsOf["settings"] = {"config", "alerts", "password"}
    /\ FieldsOf["rebranding"] = {"name", "look"}
BY DEF FieldsOf

LEMMA FieldsAre ==
    Fields = {"hotel", "integrations", "config", "alerts", "password", "name", "look"}
<1>1. \A f : f \in Fields <=> \E p \in Pages : f \in FieldsOf[p]
    BY DEF Fields
<1>2. \A f : f \in Fields <=> \/ f \in FieldsOf["hotel"] \/ f \in FieldsOf["integrations"]
                              \/ f \in FieldsOf["settings"] \/ f \in FieldsOf["rebranding"]
    BY <1>1, PagesAre
<1> QED
    BY <1>2, FieldsOfAre

LEMMA BrandIs == Brand = {"name", "look"} /\ Brand \subseteq Fields
BY FieldsOfAre, FieldsAre DEF Brand

\* A field is of one page.
LEMMA OnePage ==
    /\ \A p \in Pages : FieldsOf[p] \subseteq Fields
    /\ \A p, q \in Pages : \A f \in FieldsOf[p] : f \in FieldsOf[q] => p = q
BY PagesAre, FieldsOfAre, FieldsAre

LEMMA ReadsAre == Reads \cap Fields = {} /\ Reads = {"get", "domains", "defaults"}
BY FieldsAre DEF Reads

-----------------------------------------------------------------------------
(* The bag of tasks.                                                       *)

IsTasks(T) == IsABag(T) /\ DOMAIN T \subseteq Task

LEMMA BagAdd ==
    ASSUME NEW T, NEW x, IsABag(T)
    PROVE  /\ IsABag(T (+) One(x))
           /\ DOMAIN (T (+) One(x)) = DOMAIN T \cup {x}
           /\ \A y \in DOMAIN T : y # x => (T (+) One(x))[y] = T[y]
           /\ x \notin DOMAIN T => (T (+) One(x))[x] = 1
BY DEF IsABag, One, SetToBag, (+)

LEMMA BagRemove ==
    ASSUME NEW T, NEW x, IsABag(T)
    PROVE  /\ IsABag(T (-) One(x))
           /\ DOMAIN (T (-) One(x)) \subseteq DOMAIN T
           /\ DOMAIN T \subseteq DOMAIN (T (-) One(x)) \cup {x}
           /\ \A y \in DOMAIN (T (-) One(x)) : y # x => (T (-) One(x))[y] = T[y]
           /\ x \in DOMAIN T /\ T[x] = 1 => x \notin DOMAIN (T (-) One(x))
BY DEF IsABag, One, SetToBag, (-)

\* A part of the tasks that was relabelled, beside the rest.
LEMMA BagJoin ==
    ASSUME NEW T, NEW U, IsABag(T), IsABag(U)
    PROVE  /\ IsABag(T (+) U) /\ DOMAIN (T (+) U) = DOMAIN T \cup DOMAIN U
           /\ \A x \in DOMAIN T : x \notin DOMAIN U => (T (+) U)[x] = T[x]
           /\ \A x \in DOMAIN U : x \notin DOMAIN T => (T (+) U)[x] = U[x]
BY DEF IsABag, (+)

LEMMA OnlyFacts ==
    ASSUME NEW T, NEW S, IsABag(T)
    PROVE  /\ IsABag(Only(T, S)) /\ DOMAIN Only(T, S) = DOMAIN T \cap S
           /\ \A x \in DOMAIN T \cap S : Only(T, S)[x] = T[x]
BY DEF IsABag, Only

-----------------------------------------------------------------------------
(* Tasks.                                                                  *)

NewTask(p, kind, data, alone) ==
    [page |-> p, kind |-> kind, data |-> data, live |-> TRUE, done |-> FALSE, alone |-> alone]

LEMMA TaskParts ==
    ASSUME NEW t \in Task
    PROVE  /\ t.page \in Pages /\ t.kind \in Reads \cup Fields /\ t.data \in [Fields -> Values]
           /\ t.live \in BOOLEAN /\ t.done \in BOOLEAN /\ t.alone \in BOOLEAN
BY DEF Task

LEMMA PartedFacts ==
    ASSUME NEW t \in Task
    PROVE  LET u == Parted(t) IN
           /\ u \in Task /\ u.page = t.page /\ u.kind = t.kind /\ u.data = t.data
           /\ u.live = t.live /\ u.done = t.done /\ u.alone = FALSE
           /\ t.alone => [u EXCEPT !.alone = TRUE] = t
BY DEF Task, Parted

LEMMA OrphanFacts ==
    ASSUME NEW t \in Task
    PROVE  LET u == Orphan(t) IN
           /\ u \in Task /\ u.page = t.page /\ u.kind = t.kind /\ u.data = t.data
           /\ u.live = FALSE /\ u.done = t.done /\ u.alone = t.alone
           /\ t.live => [u EXCEPT !.live = TRUE] = t
BY DEF Task, Orphan

-----------------------------------------------------------------------------
(* What becomes of the tasks when a page is saved, and when it is left.    *)

Met(T, p) == {t \in OfForm(T, p) : t.kind # "get" /\ t.alone}

LEMMA MeetFacts ==
    ASSUME NEW T, NEW p, IsTasks(T)
    PROVE  LET U == Meet(T, p) IN
           /\ IsTasks(U)
           /\ \A u \in DOMAIN U : \/ u \in DOMAIN T /\ u \notin Met(T, p)
                                  \/ \E t \in Met(T, p) : u = Parted(t)
           /\ \A t \in DOMAIN T : t \notin Met(T, p) => t \in DOMAIN U
           /\ \A t \in Met(T, p) : Parted(t) \in DOMAIN U
           /\ \A u \in DOMAIN U : (\A t \in Met(T, p) : u # Parted(t)) => U[u] = T[u]
           /\ \A t \in Met(T, p) : Parted(t) \notin DOMAIN T => U[Parted(t)] = T[t]
<1> DEFINE met == Met(T, p)
           old == Only(T, DOMAIN T \ met)
           M == {Parted(t) : t \in met}
           new == [u \in M |-> T[[u EXCEPT !.alone = TRUE]]]
<1>0. met \subseteq DOMAIN T /\ met \subseteq Task /\ \A t \in met : t.alone
    BY DEF Met, OfForm, IsTasks
<1>1. /\ IsABag(old) /\ DOMAIN old = DOMAIN T \ met
      /\ \A x \in DOMAIN T \ met : old[x] = T[x]
    <2>1. /\ IsABag(old) /\ DOMAIN old = DOMAIN T \cap (DOMAIN T \ met)
          /\ \A x \in DOMAIN T \cap (DOMAIN T \ met) : old[x] = T[x]
        BY OnlyFacts DEF IsTasks
    <2> QED
        BY <2>1
<1>2. ASSUME NEW t \in met
      PROVE  /\ Parted(t) \in Task /\ Parted(t) \in M
             /\ [Parted(t) EXCEPT !.alone = TRUE] = t /\ new[Parted(t)] = T[t]
    <2>1. Parted(t) \in Task /\ [Parted(t) EXCEPT !.alone = TRUE] = t
        BY <1>0, PartedFacts
    <2> QED
        BY <2>1
<1>3. \A u \in M : \E t \in met : u = Parted(t) /\ new[u] = T[t]
    BY <1>2
<1>4. IsABag(new) /\ DOMAIN new = M
    <2>1. \A u \in M : new[u] \in {n \in Nat : n > 0}
        BY <1>0, <1>3 DEF IsABag, IsTasks
    <2> QED
        BY <2>1 DEF IsABag
<1>5. Meet(T, p) = old (+) new
    BY DEF Meet, Met
<1>6. \A t \in met : new[Parted(t)] = T[t]
    BY <1>2
<1>7. M \subseteq Task
    BY <1>2
<1> HIDE DEF old, new, met
<1>8. /\ IsABag(old (+) new) /\ DOMAIN (old (+) new) = DOMAIN old \cup DOMAIN new
      /\ \A x \in DOMAIN old : x \notin DOMAIN new => (old (+) new)[x] = old[x]
      /\ \A x \in DOMAIN new : x \notin DOMAIN old => (old (+) new)[x] = new[x]
    BY <1>1, <1>4, BagJoin
<1>9. IsTasks(old (+) new)
    BY <1>1, <1>4, <1>7, <1>8 DEF IsTasks
<1> QED
    BY <1>0, <1>1, <1>4, <1>5, <1>6, <1>8, <1>9 DEF met

Pending(T) == {t \in DOMAIN T : t.kind \in Fields /\ ~t.done}

LEMMA LeftFacts ==
    ASSUME NEW T, IsTasks(T)
    PROVE  LET U == Left(T) IN
           /\ IsTasks(U)
           /\ \A u \in DOMAIN U : \/ u \in Pending(T) /\ ~u.live
                                  \/ \E t \in Pending(T) : t.live /\ u = Orphan(t)
           /\ \A t \in Pending(T) : ~t.live => t \in DOMAIN U
           /\ \A t \in Pending(T) : t.live => Orphan(t) \in DOMAIN U
           /\ \A u \in DOMAIN U : (\A t \in Pending(T) : t.live => u # Orphan(t)) => U[u] = T[u]
           /\ \A t \in Pending(T) : t.live /\ Orphan(t) \notin DOMAIN T => U[Orphan(t)] = T[t]
<1> DEFINE kept == {t \in Pending(T) : ~t.live}
           held == {t \in Pending(T) : t.live}
           old == Only(T, kept)
           M == {Orphan(t) : t \in held}
           new == [u \in M |-> T[[u EXCEPT !.live = TRUE]]]
<1>0. /\ held \subseteq DOMAIN T /\ held \subseteq Task /\ \A t \in held : t.live
      /\ kept \subseteq DOMAIN T /\ kept \subseteq Task
    BY DEF Pending, IsTasks
<1>1. /\ IsABag(old) /\ DOMAIN old = kept
      /\ \A x \in kept : old[x] = T[x]
    <2>1. /\ IsABag(old) /\ DOMAIN old = DOMAIN T \cap kept
          /\ \A x \in DOMAIN T \cap kept : old[x] = T[x]
        BY OnlyFacts DEF IsTasks
    <2> QED
        BY <2>1, <1>0
<1>2. ASSUME NEW t \in held
      PROVE  /\ Orphan(t) \in Task /\ Orphan(t) \in M
             /\ [Orphan(t) EXCEPT !.live = TRUE] = t /\ new[Orphan(t)] = T[t]
    <2>1. Orphan(t) \in Task /\ [Orphan(t) EXCEPT !.live = TRUE] = t
        BY <1>0, OrphanFacts
    <2> QED
        BY <2>1
<1>3. ASSUME NEW u \in M
      PROVE  \E t \in held : u = Orphan(t) /\ new[u] = T[t]
    <2>1. PICK t \in held : u = Orphan(t)
        OBVIOUS
    <2>2. new[Orphan(t)] = T[t]
        BY <1>2
    <2> HIDE DEF new, held
    <2> QED
        BY <2>1, <2>2
<1>4. IsABag(new) /\ DOMAIN new = M
    <2>1. \A u \in M : new[u] \in {n \in Nat : n > 0}
        BY <1>0, <1>3 DEF IsABag, IsTasks
    <2> QED
        BY <2>1 DEF IsABag
<1>5. Left(T) = old (+) new
    BY DEF Left, Pending
<1>6. \A t \in held : new[Orphan(t)] = T[t]
    BY <1>2
<1>7. M \subseteq Task
    BY <1>2
<1> HIDE DEF old, new, kept
<1>8. /\ IsABag(old (+) new) /\ DOMAIN (old (+) new) = DOMAIN old \cup DOMAIN new
      /\ \A x \in DOMAIN old : x \notin DOMAIN new => (old (+) new)[x] = old[x]
      /\ \A x \in DOMAIN new : x \notin DOMAIN old => (old (+) new)[x] = new[x]
    BY <1>1, <1>4, BagJoin
<1>9. IsTasks(old (+) new)
    BY <1>0, <1>1, <1>4, <1>7, <1>8 DEF IsTasks
<1> QED
    BY <1>0, <1>1, <1>4, <1>5, <1>6, <1>8, <1>9 DEF kept

-----------------------------------------------------------------------------
(* What is said of the tasks, of any bag of them: what stays of it when a  *)
(* task is taken, a reading or a saving is created, or the page is left.   *)

Sound(T, p, busy, c, typed, again) ==
    /\ IsTasks(T) /\ TasksInv(T, p) /\ WritesInv(T, busy) /\ FullInv(T) /\ AloneInv(T, c)
    /\ ~again => ChainInv(T, busy, typed)

\* Fewer tasks, of which one was once.
LEMMA TakenFacts ==
    ASSUME NEW T, IsTasks(T), NEW t \in DOMAIN T
    PROVE  LET U == T (-) One(t) IN
           /\ IsTasks(U) /\ DOMAIN U \subseteq DOMAIN T
           /\ \A u \in DOMAIN T : u # t => u \in DOMAIN U
           /\ \A u \in DOMAIN U : T[u] = 1 => u # t /\ U[u] = 1
BY BagRemove DEF IsTasks

LEMMA AddedFacts ==
    ASSUME NEW T, IsTasks(T), NEW n \in Task
    PROVE  LET U == T (+) One(n) IN
           /\ IsTasks(U) /\ DOMAIN U = DOMAIN T \cup {n}
           /\ \A y \in DOMAIN T : y # n => U[y] = T[y]
           /\ n \notin DOMAIN T => U[n] = 1
<1>1. IsABag(T) /\ DOMAIN T \subseteq Task
    BY DEF IsTasks
<1>2. /\ IsABag(T (+) One(n)) /\ DOMAIN (T (+) One(n)) = DOMAIN T \cup {n}
      /\ \A y \in DOMAIN T : y # n => (T (+) One(n))[y] = T[y]
      /\ n \notin DOMAIN T => (T (+) One(n))[n] = 1
    BY <1>1, BagAdd
<1> QED
    BY <1>1, <1>2 DEF IsTasks

LEMMA SoundTake ==
    ASSUME NEW T, NEW p, NEW busy, NEW c, NEW typed, NEW again,
           Sound(T, p, busy, c, typed, again), NEW t \in DOMAIN T
    PROVE  /\ Sound(T (-) One(t), p, busy, c, typed, again)
           /\ t.live => Sound(T (-) One(t), p, busy \ {t.kind}, c, typed, again)
<1> DEFINE U == T (-) One(t)
<1>1. IsTasks(T) /\ TasksInv(T, p) /\ WritesInv(T, busy) /\ FullInv(T) /\ AloneInv(T, c)
    BY DEF Sound
<1>2. /\ IsTasks(U) /\ DOMAIN U \subseteq DOMAIN T
      /\ \A u \in DOMAIN T : u # t => u \in DOMAIN U
      /\ \A u \in DOMAIN U : T[u] = 1 => u # t /\ U[u] = 1
    BY <1>1, TakenFacts
<1> HIDE DEF U
<1>3. TasksInv(U, p) /\ FullInv(U)
    BY <1>1, <1>2 DEF TasksInv, FullInv
<1>4. AloneInv(U, c)
    BY <1>1, <1>2 DEF AloneInv
<1>5. WritesInv(U, busy) /\ (t.live => WritesInv(U, busy \ {t.kind}))
    BY <1>1, <1>2 DEF WritesInv, Writes
<1>6. ~again => ChainInv(U, busy, typed) /\ (t.live => ChainInv(U, busy \ {t.kind}, typed))
    <2> SUFFICES ASSUME ~again
                 PROVE  ChainInv(U, busy, typed) /\ (t.live => ChainInv(U, busy \ {t.kind}, typed))
        OBVIOUS
    <2>1. ChainInv(T, busy, typed)
        BY DEF Sound
    <2> QED
        BY <2>1, <1>2 DEF ChainInv, LiveOf
<1> QED
    BY <1>2, <1>3, <1>4, <1>5, <1>6 DEF Sound, U

LEMMA SoundTyped ==
    ASSUME NEW T, NEW p, NEW busy, NEW c, NEW typed, NEW again,
           Sound(T, p, busy, c, typed, again), NEW fewer \in SUBSET typed
    PROVE  Sound(T, p, busy, c, fewer, again)
BY DEF Sound, ChainInv

\* A reading of the page's is created.
LEMMA SoundRead ==
    ASSUME NEW T, NEW p \in Pages, NEW busy, NEW c, NEW typed, NEW again,
           Sound(T, p, busy, c, typed, again),
           NEW n \in Task, n.page = p, n.kind \in Reads, n.live, ~n.done,
           n.kind \in {"domains", "defaults"} => p = "settings",
           ~again => \A u \in LiveOf(T) :
                        u.kind # n.kind /\ (n.kind \in Chain => u.kind \notin Chain),
           ~again /\ n.kind \in Chain => typed \subseteq {"password", "alerts"}
    PROVE  Sound(T (+) One(n), p, busy \cup {n.kind}, c, typed, again)
<1> DEFINE U == T (+) One(n)
<1>1. IsTasks(T) /\ TasksInv(T, p) /\ WritesInv(T, busy) /\ FullInv(T) /\ AloneInv(T, c)
    BY DEF Sound
<1>2. /\ IsTasks(U) /\ DOMAIN U = DOMAIN T \cup {n}
      /\ \A y \in DOMAIN T : y # n => U[y] = T[y]
      /\ n \notin DOMAIN T => U[n] = 1
    BY <1>1, AddedFacts
<1> HIDE DEF U
<1>0. /\ n.kind \notin Fields /\ n.kind \notin Brand
      /\ n.kind \notin {"config", "alerts", "password"}
    BY ReadsAre, FieldsAre, BrandIs
<1>3. TasksInv(U, p) /\ FullInv(U)
    BY <1>0, <1>1, <1>2 DEF TasksInv, FullInv, OwnTask, FullTask
<1>4. AloneInv(U, c)
    BY <1>0, <1>1, <1>2 DEF AloneInv
<1>5. WritesInv(U, busy \cup {n.kind})
    BY <1>0, <1>1, <1>2 DEF WritesInv, Writes
<1>6. ~again => ChainInv(U, busy \cup {n.kind}, typed)
    <2> SUFFICES ASSUME ~again
                 PROVE  ChainInv(U, busy \cup {n.kind}, typed)
        OBVIOUS
    <2>1. ChainInv(T, busy, typed)
        BY DEF Sound
    <2>2. n \notin DOMAIN T
        BY DEF LiveOf
    <2>3. ASSUME NEW u \in LiveOf(T)
          PROVE  /\ U[u] = 1 /\ u.kind \in busy \cup {n.kind} /\ u # n
                 /\ u.kind # n.kind /\ ~({u.kind, n.kind} \subseteq Chain)
                 /\ u.kind \in {"get", "domains"} => typed \subseteq {"password", "alerts"}
                 /\ \A v \in LiveOf(T) : v.kind = u.kind \/ {u.kind, v.kind} \subseteq Chain => v = u
        BY <2>1, <2>2, <1>2 DEF ChainInv, LiveOf
    <2>4. LiveOf(U) = LiveOf(T) \cup {n}
        BY <1>2 DEF LiveOf
    <2>5. n.kind \in {"get", "domains"} => typed \subseteq {"password", "alerts"}
        BY DEF Chain
    <2> QED
        BY <2>2, <2>3, <2>4, <2>5, <1>2 DEF ChainInv
<1> QED
    BY <1>2, <1>3, <1>4, <1>5, <1>6 DEF Sound, U

\* The page is left: its tasks are answered to no one.
LEMMA SoundLeft ==
    ASSUME NEW T, NEW p, NEW busy, NEW c, NEW typed, NEW again,
           Sound(T, p, busy, c, typed, again),
           NEW q, NEW flags, NEW others, NEW more
    PROVE  /\ Sound(Left(T), q, flags, c, others, more)
           /\ LiveOf(Left(T)) = {}
<1> DEFINE U == Left(T)
<1>1. IsTasks(T) /\ TasksInv(T, p) /\ FullInv(T) /\ AloneInv(T, c)
    BY DEF Sound
<1>2. /\ IsTasks(U)
      /\ \A u \in DOMAIN U : \/ u \in Pending(T) /\ ~u.live
                             \/ \E t \in Pending(T) : t.live /\ u = Orphan(t)
      /\ \A u \in DOMAIN U : (\A t \in Pending(T) : t.live => u # Orphan(t)) => U[u] = T[u]
      /\ \A t \in Pending(T) : t.live /\ Orphan(t) \notin DOMAIN T => U[Orphan(t)] = T[t]
    BY <1>1, LeftFacts
<1> HIDE DEF U
<1>3. ASSUME NEW u \in DOMAIN U
      PROVE  \E t \in DOMAIN T :
                /\ t.kind \in Fields /\ ~t.done
                /\ u.page = t.page /\ u.kind = t.kind /\ u.data = t.data /\ u.live = FALSE
                /\ u.done = t.done /\ u.alone = t.alone
                /\ \/ u = t
                   \/ t.live /\ u = Orphan(t)
    <2>1. CASE u \in Pending(T) /\ ~u.live
        BY <2>1, <1>1, TaskParts DEF Pending, IsTasks
    <2>2. CASE \E t \in Pending(T) : t.live /\ u = Orphan(t)
        <3>1. PICK t \in Pending(T) : t.live /\ u = Orphan(t)
            BY <2>2
        <3>2. t \in DOMAIN T /\ t \in Task /\ t.kind \in Fields /\ ~t.done
            BY <1>1 DEF Pending, IsTasks
        <3> QED
            BY <3>1, <3>2, OrphanFacts
    <2> QED
        BY <2>1, <2>2, <1>2
<1>4. LiveOf(U) = {}
    BY <1>3 DEF LiveOf
<1>5. TasksInv(U, q)
    <2> SUFFICES ASSUME NEW u \in DOMAIN U
                 PROVE  OwnTask(u, q)
        BY DEF TasksInv
    <2>1. PICK t \in DOMAIN T : /\ t.kind \in Fields /\ ~t.done /\ u.page = t.page
                                /\ u.kind = t.kind /\ u.live = FALSE /\ u.done = t.done
        BY <1>3
    <2>2. OwnTask(t, p)
        BY <1>1 DEF TasksInv
    <2> QED
        BY <2>1, <2>2 DEF OwnTask
<1>6. FullInv(U)
    <2> SUFFICES ASSUME NEW u \in DOMAIN U
                 PROVE  FullTask(u)
        BY DEF FullInv
    <2>1. PICK t \in DOMAIN T : /\ u.page = t.page /\ u.kind = t.kind /\ u.data = t.data
                                /\ u.done = t.done
        BY <1>3
    <2>2. FullTask(t)
        BY <1>1 DEF FullInv
    <2> QED
        BY <2>1, <2>2 DEF FullTask
<1>7. WritesInv(U, flags)
    BY <1>4 DEF WritesInv, Writes, LiveOf
<1>8. ChainInv(U, flags, others)
    BY <1>4 DEF ChainInv
<1>9. AloneInv(U, c)
    <2> SUFFICES ASSUME NEW u \in DOMAIN U, u.kind \in Brand, u.alone
                 PROVE  /\ U[u] = 1
                        /\ \A v \in DOMAIN U : v.kind \in Brand => v = u
                        /\ ~u.done => \A f \in Brand \ {u.kind} : u.data[f] = c[f]
        BY DEF AloneInv
    <2>1. PICK t \in DOMAIN T :
                /\ t.kind \in Fields /\ ~t.done
                /\ u.kind = t.kind /\ u.data = t.data /\ u.live = FALSE /\ u.alone = t.alone
                /\ \/ u = t
                   \/ t.live /\ u = Orphan(t)
        BY <1>3
    <2>2. /\ T[t] = 1
          /\ \A v \in DOMAIN T : v.kind \in Brand => v = t
          /\ \A f \in Brand \ {t.kind} : t.data[f] = c[f]
        BY <2>1, <1>1 DEF AloneInv
    <2>3. \A v \in DOMAIN U : v.kind \in Brand => v = u
        <3> SUFFICES ASSUME NEW v \in DOMAIN U, v.kind \in Brand
                     PROVE  v = u
            OBVIOUS
        <3>1. PICK w \in DOMAIN T : /\ v.kind = w.kind /\ v.live = FALSE
                                    /\ \/ v = w
                                       \/ w.live /\ v = Orphan(w)
            BY <1>3
        <3>2. w = t
            BY <3>1, <2>2
        <3> QED
            BY <3>1, <3>2, <2>1
    <2>4. U[u] = 1
        <3>1. t \in Pending(T)
            BY <2>1 DEF Pending
        <3>2. CASE t.live
            <4>1. u = Orphan(t) /\ u # t
                BY <2>1, <3>2
            <4>2. u \notin DOMAIN T
                BY <4>1, <2>2
            <4> QED
                BY <1>2, <3>1, <3>2, <4>1, <4>2, <2>2
        <3>3. CASE ~t.live
            <4>1. u = t
                BY <2>1, <3>3
            <4>2. \A s \in Pending(T) : s.live => u # Orphan(s)
                <5> SUFFICES ASSUME NEW s \in Pending(T), s.live, u = Orphan(s)
                             PROVE  FALSE
                    OBVIOUS
                <5>1. s \in DOMAIN T /\ s \in Task
                    BY <1>1 DEF Pending, IsTasks
                <5>2. u.kind = s.kind
                    BY <5>1, OrphanFacts
                <5>3. s = t
                    BY <5>1, <5>2, <2>2
                <5> QED
                    BY <5>3, <3>3
            <4> QED
                BY <1>2, <2>2, <4>1, <4>2
        <3> QED
            BY <3>2, <3>3
    <2> QED
        BY <2>1, <2>2, <2>3, <2>4
<1> QED
    BY <1>2, <1>4, <1>5, <1>6, <1>7, <1>8, <1>9 DEF Sound, U

\* The tasks of the page's form meet the one to be created.
LEMMA MeetLike ==
    ASSUME NEW T, NEW p, IsTasks(T)
    PROVE  /\ \A u \in DOMAIN Meet(T, p) : \E t \in DOMAIN T :
                /\ u.page = t.page /\ u.kind = t.kind /\ u.data = t.data
                /\ u.live = t.live /\ u.done = t.done
                /\ u = t \/ (t \in Met(T, p) /\ u = Parted(t) /\ ~u.alone)
           /\ \A u \in DOMAIN Meet(T, p) :
                u.page = p /\ u.kind \notin Reads => ~u.alone
<1> DEFINE U == Meet(T, p)
<1>1. \A u \in DOMAIN U : \/ u \in DOMAIN T /\ u \notin Met(T, p)
                          \/ \E t \in Met(T, p) : u = Parted(t)
    BY MeetFacts
<1> HIDE DEF U
<1>2. ASSUME NEW t \in Met(T, p)
      PROVE  /\ t \in DOMAIN T /\ Parted(t).page = t.page /\ Parted(t).kind = t.kind
             /\ Parted(t).data = t.data /\ Parted(t).live = t.live /\ Parted(t).done = t.done
             /\ ~Parted(t).alone
    <2>1. t \in DOMAIN T /\ t \in Task
        BY DEF Met, OfForm, IsTasks
    <2> QED
        BY <2>1, PartedFacts
<1>3. ASSUME NEW u \in DOMAIN U
      PROVE  /\ \E t \in DOMAIN T :
                /\ u.page = t.page /\ u.kind = t.kind /\ u.data = t.data
                /\ u.live = t.live /\ u.done = t.done
                /\ u = t \/ (t \in Met(T, p) /\ u = Parted(t) /\ ~u.alone)
             /\ u.page = p /\ u.kind \notin Reads => ~u.alone
    <2>1. CASE u \in DOMAIN T /\ u \notin Met(T, p)
        BY <2>1 DEF Met, OfForm, Reads
    <2>2. CASE \E t \in Met(T, p) : u = Parted(t)
        BY <2>2, <1>2
    <2> QED
        BY <1>1, <2>1, <2>2
<1> QED
    BY <1>3 DEF U

\* Where a task is the only one of its kind, so is what it has become.
LEMMA MeetCounts ==
    ASSUME NEW T, NEW p, IsTasks(T), NEW u \in DOMAIN Meet(T, p), NEW t \in DOMAIN T,
           u = t \/ (t \in Met(T, p) /\ u = Parted(t)),
           \A v \in DOMAIN T : v.kind = t.kind /\ v.live = t.live => v = t
    PROVE  Meet(T, p)[u] = T[t]
<1> DEFINE U == Meet(T, p)
<1>1. /\ \A w \in DOMAIN U : \/ w \in DOMAIN T /\ w \notin Met(T, p)
                             \/ \E s \in Met(T, p) : w = Parted(s)
      /\ \A w \in DOMAIN U : (\A s \in Met(T, p) : w # Parted(s)) => U[w] = T[w]
      /\ \A s \in Met(T, p) : Parted(s) \notin DOMAIN T => U[Parted(s)] = T[s]
    BY MeetFacts
<1> HIDE DEF U
<1>2. ASSUME NEW s \in Met(T, p)
      PROVE  /\ s \in DOMAIN T /\ Parted(s) # s
             /\ Parted(s).kind = s.kind /\ Parted(s).live = s.live
    <2>1. s \in DOMAIN T /\ s \in Task /\ s.alone
        BY DEF Met, OfForm, IsTasks
    <2>2. Parted(s).alone = FALSE /\ Parted(s).kind = s.kind /\ Parted(s).live = s.live
        BY <2>1, PartedFacts
    <2> QED
        BY <2>1, <2>2
<1>3. CASE u = t
    <2>1. \A s \in Met(T, p) : u # Parted(s)
        BY <1>2, <1>3
    <2> QED
        BY <1>1, <1>3, <2>1 DEF U
<1>4. CASE t \in Met(T, p) /\ u = Parted(t)
    BY <1>1, <1>2, <1>4 DEF U
<1> QED
    BY <1>3, <1>4

LEMMA SoundMeet ==
    ASSUME NEW T, NEW p, NEW busy, NEW c, NEW typed, NEW again,
           Sound(T, p, busy, c, typed, again)
    PROVE  Sound(Meet(T, p), p, busy, c, typed, again)
<1> DEFINE U == Meet(T, p)
<1>1. IsTasks(T) /\ TasksInv(T, p) /\ WritesInv(T, busy) /\ FullInv(T) /\ AloneInv(T, c)
    BY DEF Sound
<1>2. IsTasks(U)
    BY <1>1, MeetFacts
<1>3. \A u \in DOMAIN U : \E t \in DOMAIN T :
            /\ u.page = t.page /\ u.kind = t.kind /\ u.data = t.data
            /\ u.live = t.live /\ u.done = t.done
            /\ u = t \/ (t \in Met(T, p) /\ u = Parted(t) /\ ~u.alone)
    BY <1>1, MeetLike
<1>4. ASSUME NEW u \in DOMAIN U, NEW t \in DOMAIN T,
             u = t \/ (t \in Met(T, p) /\ u = Parted(t)),
             \A v \in DOMAIN T : v.kind = t.kind /\ v.live = t.live => v = t
      PROVE  U[u] = T[t]
    BY <1>1, <1>4, MeetCounts
<1> HIDE DEF U
<1>5. TasksInv(U, p) /\ FullInv(U)
    <2> SUFFICES ASSUME NEW u \in DOMAIN U
                 PROVE  OwnTask(u, p) /\ FullTask(u)
        BY DEF TasksInv, FullInv
    <2>1. PICK t \in DOMAIN T : /\ u.page = t.page /\ u.kind = t.kind /\ u.data = t.data
                                /\ u.live = t.live /\ u.done = t.done
        BY <1>3
    <2>2. OwnTask(t, p) /\ FullTask(t)
        BY <1>1 DEF TasksInv, FullInv
    <2> QED
        BY <2>1, <2>2 DEF OwnTask, FullTask
<1>6. WritesInv(U, busy)
    <2> SUFFICES ASSUME NEW u \in DOMAIN U, u.kind \in Fields, u.live
                 PROVE  /\ U[u] = 1 /\ u.kind \in busy
                        /\ \A v \in DOMAIN U : v.live /\ v.kind = u.kind => v = u
        BY DEF WritesInv, Writes
    <2>1. PICK t \in DOMAIN T : /\ u.kind = t.kind /\ u.live = t.live
                                /\ u = t \/ (t \in Met(T, p) /\ u = Parted(t) /\ ~u.alone)
        BY <1>3
    <2>2. /\ T[t] = 1 /\ t.kind \in busy
          /\ \A v \in DOMAIN T : v.live /\ v.kind = t.kind => v = t
        BY <1>1, <2>1 DEF WritesInv, Writes
    <2>3. U[u] = 1
        BY <1>4, <2>1, <2>2
    <2>4. ASSUME NEW v \in DOMAIN U, v.live, v.kind = u.kind
          PROVE  v = u
        <3>1. PICK w \in DOMAIN T : /\ v.kind = w.kind /\ v.live = w.live
                                    /\ v = w \/ (w \in Met(T, p) /\ v = Parted(w) /\ ~v.alone)
            BY <1>3
        <3>2. w = t
            BY <2>1, <2>2, <2>4, <3>1
        <3>3. CASE t \in Met(T, p)
            <4>1. \A x \in DOMAIN U : x # t
                <5> SUFFICES t \notin DOMAIN U
                    OBVIOUS
                <5>1. t.alone /\ t.page = p /\ t.kind \notin Reads
                    BY <3>3, <2>1, ReadsAre DEF Met, OfForm
                <5> QED
                    BY <5>1, <1>1, MeetLike DEF U
            <4> QED
                BY <4>1, <2>1, <3>1, <3>2
        <3>4. CASE t \notin Met(T, p)
            BY <3>1, <3>2, <3>4, <2>1
        <3> QED
            BY <3>3, <3>4
    <2> QED
        BY <2>1, <2>2, <2>3, <2>4
<1>7. AloneInv(U, c)
    <2> SUFFICES ASSUME NEW u \in DOMAIN U, u.kind \in Brand, u.alone
                 PROVE  /\ U[u] = 1
                        /\ \A v \in DOMAIN U : v.kind \in Brand => v = u
                        /\ ~u.done => \A f \in Brand \ {u.kind} : u.data[f] = c[f]
        BY DEF AloneInv
    <2>1. u \in DOMAIN T
        BY <1>3
    <2>2. /\ T[u] = 1 /\ \A v \in DOMAIN T : v.kind \in Brand => v = u
          /\ ~u.done => \A f \in Brand \ {u.kind} : u.data[f] = c[f]
        BY <1>1, <2>1 DEF AloneInv
    <2>3. U[u] = 1
        BY <1>4, <2>1, <2>2
    <2>4. ASSUME NEW v \in DOMAIN U, v.kind \in Brand
          PROVE  v = u
        <3>1. PICK w \in DOMAIN T : /\ v.kind = w.kind
                                    /\ v = w \/ (w \in Met(T, p) /\ v = Parted(w) /\ ~v.alone)
            BY <1>3
        <3>2. w = u
            BY <2>2, <2>4, <3>1
        <3>3. u \notin Met(T, p)
            <4>1. u.page = p /\ u.kind \notin Reads => ~u.alone
                BY <1>1, MeetLike DEF U
            <4> QED
                BY <4>1, BrandIs, ReadsAre DEF Met, OfForm
        <3> QED
            BY <3>1, <3>2, <3>3
    <2> QED
        BY <2>2, <2>3, <2>4
<1>8. ~again => ChainInv(U, busy, typed)
    <2> SUFFICES ASSUME ~again, NEW u \in DOMAIN U, u.live
                 PROVE  /\ U[u] = 1 /\ u.kind \in busy
                        /\ \A v \in DOMAIN U : v.live => (v.kind = u.kind \/ {u.kind, v.kind} \subseteq Chain => v = u)
                        /\ u.kind \in {"get", "domains"} => typed \subseteq {"password", "alerts"}
        BY DEF ChainInv, LiveOf
    <2>0. ChainInv(T, busy, typed)
        BY DEF Sound
    <2>1. PICK t \in DOMAIN T : /\ u.kind = t.kind /\ u.live = t.live
                                /\ u = t \/ (t \in Met(T, p) /\ u = Parted(t) /\ ~u.alone)
        BY <1>3
    <2>2. /\ T[t] = 1 /\ t.kind \in busy
          /\ \A v \in DOMAIN T : v.live => (v.kind = t.kind \/ {t.kind, v.kind} \subseteq Chain => v = t)
          /\ t.kind \in {"get", "domains"} => typed \subseteq {"password", "alerts"}
        BY <2>0, <2>1 DEF ChainInv, LiveOf
    <2>3. U[u] = 1
        BY <1>4, <2>1, <2>2
    <2>4. ASSUME NEW v \in DOMAIN U, v.live, v.kind = u.kind \/ {u.kind, v.kind} \subseteq Chain
          PROVE  v = u
        <3>1. PICK w \in DOMAIN T : /\ v.kind = w.kind /\ v.live = w.live
                                    /\ v = w \/ (w \in Met(T, p) /\ v = Parted(w) /\ ~v.alone)
            BY <1>3
        <3>2. w = t
            BY <2>1, <2>2, <2>4, <3>1
        <3>3. CASE t \in Met(T, p)
            <4>1. t.alone /\ t.page = p /\ t.kind \notin Reads
                BY <3>3, <1>1, TaskParts DEF Met, OfForm, IsTasks, Reads
            <4>2. t \notin DOMAIN U
                BY <4>1, <1>1, MeetLike DEF U
            <4> QED
                BY <4>2, <2>1, <3>1, <3>2
        <3>4. CASE t \notin Met(T, p)
            BY <3>1, <3>2, <3>4, <2>1
        <3> QED
            BY <3>3, <3>4
    <2> QED
        BY <2>1, <2>2, <2>3, <2>4
<1> QED
    BY <1>2, <1>5, <1>6, <1>7, <1>8 DEF Sound, U

\* A form of the page's is saved.
LEMMA SoundSave ==
    ASSUME NEW T, NEW p \in Pages, NEW busy, NEW c, NEW typed, NEW again,
           Sound(T, p, busy, c, typed, again),
           NEW n \in Task, n.page = p, n.kind \in FieldsOf[p], n.live, ~n.done,
           FullTask(n), n.kind \notin busy,
           ~again /\ n.kind \in Chain => LiveOf(T) = {},
           n.kind \in Brand /\ n.alone => /\ OfForm(T, p) = {}
                                          /\ \A f \in Brand \ {n.kind} : n.data[f] = c[f]
    PROVE  Sound(Meet(T, p) (+) One(n), p, busy \cup {n.kind}, c, typed, again)
<1> DEFINE M == Meet(T, p)
           U == M (+) One(n)
<1>1. /\ IsTasks(M) /\ TasksInv(M, p) /\ WritesInv(M, busy) /\ FullInv(M) /\ AloneInv(M, c)
      /\ ~again => ChainInv(M, busy, typed)
    BY SoundMeet DEF Sound
<1>2. /\ IsTasks(T)
      /\ \A u \in DOMAIN M : \E t \in DOMAIN T :
            /\ u.page = t.page /\ u.kind = t.kind /\ u.live = t.live
      /\ \A u \in DOMAIN M : u.page = p /\ u.kind \notin Reads => ~u.alone
    <2>1. IsTasks(T)
        BY DEF Sound
    <2> QED
        BY <2>1, MeetLike
<1> HIDE DEF M
<1>3. /\ IsTasks(U) /\ DOMAIN U = DOMAIN M \cup {n}
      /\ \A y \in DOMAIN M : y # n => U[y] = M[y]
      /\ n \notin DOMAIN M => U[n] = 1
    BY <1>1, AddedFacts
<1> HIDE DEF U
<1>4. n.kind \in Fields /\ n.kind \notin Reads
    BY OnePage, ReadsAre
<1>5. \A u \in DOMAIN M : u.live => u.kind # n.kind
    BY <1>1, <1>4 DEF WritesInv, Writes
<1>6. n \notin DOMAIN M
    BY <1>5
<1>7. TasksInv(U, p) /\ FullInv(U)
    BY <1>1, <1>3, <1>4, ReadsAre DEF TasksInv, FullInv, OwnTask
<1>8. WritesInv(U, busy \cup {n.kind})
    BY <1>1, <1>3, <1>5, <1>6 DEF WritesInv, Writes
<1>9. AloneInv(U, c)
    <2>1. CASE n.kind \notin Brand
        BY <2>1, <1>1, <1>3, <1>6 DEF AloneInv
    <2>2. CASE n.kind \in Brand
        <3>1. p = "rebranding"
            BY <2>2, OnePage, PagesAre DEF Brand
        <3>2. \A u \in DOMAIN M : u.kind \in Brand => u.page = p
            <4> SUFFICES ASSUME NEW u \in DOMAIN M, u.kind \in Brand
                         PROVE  u.page = p
                OBVIOUS
            <4>1. u \in Task /\ OwnTask(u, p)
                BY <1>1 DEF TasksInv, IsTasks
            <4>2. u.page \in Pages /\ u.kind \in FieldsOf[u.page]
                BY <4>1, BrandIs, TaskParts DEF OwnTask
            <4> QED
                BY <3>1, <4>2, OnePage DEF Brand
        <3>3. \A u \in DOMAIN M : u.kind \in Brand => ~u.alone
            BY <3>2, <1>2, BrandIs, ReadsAre
        <3>4. n.alone => \A u \in DOMAIN M : u.kind \notin Brand
            <4> SUFFICES ASSUME n.alone, NEW u \in DOMAIN M, u.kind \in Brand
                         PROVE  FALSE
                OBVIOUS
            <4>1. PICK t \in DOMAIN T : u.page = t.page /\ u.kind = t.kind
                BY <1>2
            <4>2. t \in OfForm(T, p)
                BY <4>1, <3>2, BrandIs DEF OfForm
            <4> QED
                BY <4>2, <2>2
        <3> QED
            BY <2>2, <3>3, <3>4, <1>3, <1>6 DEF AloneInv
    <2> QED
        BY <2>1, <2>2
<1>10. ~again => ChainInv(U, busy \cup {n.kind}, typed)
    <2> SUFFICES ASSUME ~again
                 PROVE  ChainInv(U, busy \cup {n.kind}, typed)
        OBVIOUS
    <2>1. ChainInv(M, busy, typed)
        BY <1>1
    <2>2. n.kind \in Chain => LiveOf(M) = {}
        BY <1>2 DEF LiveOf
    <2>3. LiveOf(U) = LiveOf(M) \cup {n}
        BY <1>3 DEF LiveOf
    <2>4. \A u \in LiveOf(M) : U[u] = 1 /\ u # n /\ u.kind # n.kind
        BY <2>1, <1>3, <1>5, <1>6 DEF ChainInv, LiveOf
    <2>5. n.kind \notin {"get", "domains"}
        BY <1>4, ReadsAre
    <2> QED
        BY <2>1, <2>2, <2>3, <2>4, <2>5, <1>3, <1>6 DEF ChainInv
<1> QED
    BY <1>3, <1>7, <1>8, <1>9, <1>10 DEF Sound, U, M

-----------------------------------------------------------------------------
(* The module runs a task.                                                 *)

RanAs(t, c) ==
    [t EXCEPT !.data = IF t.kind = "get" THEN Part(c, FieldsOf[t.page]) ELSE t.data,
              !.done = TRUE]
Wrote(t, c) ==
    IF t.kind \in Reads THEN c
    ELSE [f \in Fields |-> IF f \in WrittenBy(t) THEN t.data[f] ELSE c[f]]
AfterRun(T, t, c) ==
    IF t.live THEN (T (-) One(t)) (+) One(RanAs(t, c)) ELSE T (-) One(t)

LEMMA FinishIs ==
    ASSUME NEW t, Finish(t)
    PROVE  tasks' = AfterRun(tasks, t, conf)
BY DEF Finish, Ran, Read, RanAs, AfterRun

\* Each action writes its own field; set-rebranding both of its page.
LEMMA WrittenIs ==
    ASSUME NEW t \in Task, conf \in [Fields -> Values]
    PROVE  Written(t.kind, t.data) = Wrote(t, conf)
<1>1. t.kind \in Reads \cup Fields
    BY TaskParts
<1>2. CASE t.kind \in Reads
    BY <1>2, ReadsAre DEF Written, Wrote
<1>3. CASE t.kind \in Brand
    <2>1. t.kind \notin Reads /\ WrittenBy(t) = {"name", "look"}
        BY <1>3, BrandIs, ReadsAre DEF WrittenBy
    <2>2. Written(t.kind, t.data) = SetRebrandingEnv(t.data)
        BY <1>3, BrandIs DEF Written
    <2>3. Wrote(t, conf) = [f \in Fields |-> IF f \in {"name", "look"} THEN t.data[f] ELSE conf[f]]
        BY <2>1 DEF Wrote
    <2> QED
        BY <2>2, <2>3 DEF SetRebrandingEnv
<1>4. CASE t.kind \in Fields \ Brand
    <2>1. t.kind \notin Reads /\ WrittenBy(t) = {t.kind}
        BY <1>4, ReadsAre DEF WrittenBy
    <2>2. t.kind \in {"hotel", "integrations", "config", "alerts", "password"}
        BY <1>4, FieldsAre, BrandIs
    <2>3. Written(t.kind, t.data) = [conf EXCEPT ![t.kind] = t.data[t.kind]]
        BY <2>2 DEF Written, SetHotelEnv, SetIntegrationsEnv, ConfigureEnv, SetAlertsEnv,
                    SetPassword
    <2>4. Wrote(t, conf) = [f \in Fields |-> IF f \in {t.kind} THEN t.data[f] ELSE conf[f]]
        BY <2>1 DEF Wrote
    <2> QED
        BY <2>3, <2>4
<1> QED
    BY <1>1, <1>2, <1>3, <1>4

LEMMA RunsIs ==
    ASSUME NEW t \in Task, conf \in [Fields -> Values], Runs(t)
    PROVE  /\ ~t.done /\ conf' = Wrote(t, conf) /\ tasks' = AfterRun(tasks, t, conf)
           /\ UNCHANGED <<page, form, saved, active, loading, edits, dirty, loaded, clean,
                          reloaded>>
<1>1. Finish(t) /\ conf' = Written(t.kind, t.data)
    BY DEF Runs
<1>2. tasks' = AfterRun(tasks, t, conf)
    BY <1>1, FinishIs
<1> QED
    BY <1>1, <1>2, WrittenIs DEF Runs

LEMMA PartFacts ==
    ASSUME NEW c \in [Fields -> Values], NEW S
    PROVE  /\ Part(c, S) \in [Fields -> Values]
           /\ \A f \in Fields : f \in S => Part(c, S)[f] = c[f]
<1>1. 0 \in Values
    BY PagesAssumption DEF Values
<1> QED
    BY <1>1 DEF Part

LEMMA RanFacts ==
    ASSUME NEW c \in [Fields -> Values], NEW t \in Task
    PROVE  /\ RanAs(t, c) \in Task /\ RanAs(t, c).page = t.page /\ RanAs(t, c).kind = t.kind
           /\ RanAs(t, c).live = t.live /\ RanAs(t, c).done = TRUE /\ RanAs(t, c).alone = t.alone
           /\ t.kind # "get" => RanAs(t, c).data = t.data
           /\ t.kind = "get" => \A f \in FieldsOf[t.page] : RanAs(t, c).data[f] = c[f]
<1>1. t.page \in Pages
    BY TaskParts
<1>2. CASE t.kind = "get"
    <2> DEFINE d == Part(c, FieldsOf[t.page])
    <2>1. d \in [Fields -> Values] /\ \A f \in Fields : f \in FieldsOf[t.page] => d[f] = c[f]
        BY PartFacts
    <2>2. RanAs(t, c) = [t EXCEPT !.data = d, !.done = TRUE]
        BY <1>2 DEF RanAs
    <2> HIDE DEF d
    <2>3. /\ RanAs(t, c) \in Task /\ RanAs(t, c).page = t.page /\ RanAs(t, c).kind = t.kind
          /\ RanAs(t, c).live = t.live /\ RanAs(t, c).done = TRUE /\ RanAs(t, c).alone = t.alone
          /\ RanAs(t, c).data = d
        BY <2>1, <2>2 DEF Task
    <2> QED
        BY <1>1, <1>2, <2>1, <2>3, OnePage
<1>3. CASE t.kind # "get"
    <2>1. RanAs(t, c) = [t EXCEPT !.data = t.data, !.done = TRUE]
        BY <1>3 DEF RanAs
    <2> QED
        BY <1>3, <2>1 DEF Task
<1> QED
    BY <1>2, <1>3

\* Only the fields of its own page are written by a task.
LEMMA WroteFacts ==
    ASSUME NEW c \in [Fields -> Values], NEW t \in Task, NEW p, OwnTask(t, p)
    PROVE  /\ Wrote(t, c) \in [Fields -> Values]
           /\ WrittenBy(t) \subseteq FieldsOf[t.page] \cup {t.kind}
           /\ t.kind \in Reads => Wrote(t, c) = c
           /\ t.kind \in Fields => t.kind \in WrittenBy(t) /\ WrittenBy(t) \subseteq FieldsOf[t.page]
           /\ t.kind \in Fields => \A f \in WrittenBy(t) : Wrote(t, c)[f] = t.data[f]
           /\ t.kind \in Fields => \A f \in Fields \ WrittenBy(t) : Wrote(t, c)[f] = c[f]
           /\ t.kind \in Fields /\ t.kind \notin Brand => WrittenBy(t) = {t.kind}
           /\ t.kind \in Brand => WrittenBy(t) = Brand
<1>1. /\ t.page \in Pages /\ t.kind \in Reads \cup Fields /\ t.data \in [Fields -> Values]
    BY TaskParts
<1>2. t.kind \in Fields => t.kind \in FieldsOf[t.page] /\ t.kind \notin Reads
    BY ReadsAre DEF OwnTask
<1>3. \A p1 \in Pages : FieldsOf[p1] \subseteq Fields
    BY OnePage
<1>4. t.kind \in Fields => (t.page = "rebranding" <=> t.kind \in Brand)
    BY <1>1, <1>2, OnePage, PagesAre DEF Brand
<1>5. /\ t.kind \in Fields /\ t.kind \notin Brand => WrittenBy(t) = {t.kind}
      /\ t.kind \in Brand => WrittenBy(t) = Brand
    BY DEF WrittenBy
<1>6. WrittenBy(t) \subseteq FieldsOf[t.page] \cup {t.kind}
    BY <1>4, BrandIs DEF WrittenBy, Brand
<1>7. t.kind \in Fields => t.kind \in WrittenBy(t) /\ WrittenBy(t) \subseteq FieldsOf[t.page]
    BY <1>2, <1>5, <1>6
<1>8. t.kind \in Reads => Wrote(t, c) = c
    BY DEF Wrote
<1>9. t.kind \in Fields =>
        Wrote(t, c) = [f \in Fields |-> IF f \in WrittenBy(t) THEN t.data[f] ELSE c[f]]
    BY <1>2 DEF Wrote
<1> QED
    BY <1>1, <1>3, <1>5, <1>6, <1>7, <1>8, <1>9

\* The tasks after one has run: all the others, and that one when it is heard.
LEMMA AfterRunFacts ==
    ASSUME NEW T, IsTasks(T), NEW c \in [Fields -> Values], NEW t \in DOMAIN T, ~t.done
    PROVE  LET U == AfterRun(T, t, c)
               r == RanAs(t, c)
           IN  /\ IsTasks(U) /\ r \in Task /\ t \in Task
               /\ \A u \in DOMAIN U : u \in DOMAIN T \/ (t.live /\ u = r)
               /\ t.live => r \in DOMAIN U
               /\ \A u \in DOMAIN T : u # t => u \in DOMAIN U
               /\ T[t] = 1 => t \notin DOMAIN U
               /\ \A u \in DOMAIN U : u \in DOMAIN T /\ T[u] = 1 /\ u # r => U[u] = 1
               /\ r \notin DOMAIN T /\ t.live => U[r] = 1
<1> DEFINE V == T (-) One(t)
           r == RanAs(t, c)
           W == V (+) One(r)
<1>0. t \in Task
    BY DEF IsTasks
<1>1. r \in Task /\ r.done = TRUE
    BY <1>0, RanFacts
<1>2. /\ IsTasks(V) /\ DOMAIN V \subseteq DOMAIN T
      /\ \A u \in DOMAIN T : u # t => u \in DOMAIN V
      /\ \A u \in DOMAIN V : T[u] = 1 => u # t /\ V[u] = 1
    BY TakenFacts
<1> HIDE DEF V, r
<1>3. /\ IsTasks(W) /\ DOMAIN W = DOMAIN V \cup {r}
      /\ \A y \in DOMAIN V : y # r => W[y] = V[y]
      /\ r \notin DOMAIN V => W[r] = 1
    BY <1>1, <1>2, AddedFacts
<1>4. AfterRun(T, t, c) = IF t.live THEN W ELSE V
    BY DEF AfterRun, V, r, W
<1>5. r # t
    BY <1>1
<1> HIDE DEF W
<1>6. CASE t.live
    BY <1>0, <1>1, <1>2, <1>3, <1>4, <1>5, <1>6 DEF r
<1>7. CASE ~t.live
    BY <1>0, <1>1, <1>2, <1>4, <1>5, <1>7 DEF r
<1> QED
    BY <1>6, <1>7

NotBlank(c) == \A f \in Fields : c[f] = 0 => f \in {"hotel", "integrations"}

LEMMA WroteNotBlank ==
    ASSUME NEW c \in [Fields -> Values], NotBlank(c), NEW t \in Task, NEW p, OwnTask(t, p),
           FullTask(t)
    PROVE  NotBlank(Wrote(t, c))
<1>1. CASE t.kind \in Reads
    BY <1>1, WroteFacts
<1>2. CASE t.kind \in Fields
    <2>1. /\ \A f \in WrittenBy(t) : Wrote(t, c)[f] = t.data[f]
          /\ \A f \in Fields \ WrittenBy(t) : Wrote(t, c)[f] = c[f]
          /\ t.kind \notin Brand => WrittenBy(t) = {t.kind}
          /\ t.kind \in Brand => WrittenBy(t) = Brand
        BY <1>2, WroteFacts
    <2>2. \A f \in WrittenBy(t) : t.data[f] = 0 => f \in {"hotel", "integrations"}
        <3>1. CASE t.kind \in Brand
            BY <2>1, <3>1 DEF FullTask, Full
        <3>2. CASE t.kind \notin Brand
            BY <1>2, <2>1, <3>2, FieldsAre, BrandIs DEF FullTask
        <3> QED
            BY <3>1, <3>2
    <2> QED
        BY <2>1, <2>2 DEF NotBlank
<1> QED
    BY <1>1, <1>2, TaskParts

\* It has written what it should, or nothing.
LEMMA SoundRun ==
    ASSUME NEW T, NEW p, NEW busy, NEW c \in [Fields -> Values], NEW typed, NEW again,
           Sound(T, p, busy, c, typed, again), NotBlank(c),
           NEW t \in DOMAIN T, ~t.done, NEW d,
           t.kind \in Reads => d = c,
           t.kind \in Fields => \A f \in Fields \ WrittenBy(t) : d[f] = c[f]
    PROVE  Sound(AfterRun(T, t, c), p, busy, d, typed, again)
<1> DEFINE U == AfterRun(T, t, c)
           r == RanAs(t, c)
<1>1. IsTasks(T) /\ TasksInv(T, p) /\ WritesInv(T, busy) /\ FullInv(T) /\ AloneInv(T, c)
    BY DEF Sound
<1>2. /\ IsTasks(U) /\ r \in Task /\ t \in Task
      /\ \A u \in DOMAIN U : u \in DOMAIN T \/ (t.live /\ u = r)
      /\ T[t] = 1 => t \notin DOMAIN U
      /\ \A u \in DOMAIN U : u \in DOMAIN T /\ T[u] = 1 /\ u # r => U[u] = 1
      /\ r \notin DOMAIN T /\ t.live => U[r] = 1
    BY <1>1, AfterRunFacts
<1>3. /\ r.page = t.page /\ r.kind = t.kind /\ r.live = t.live /\ r.done = TRUE
      /\ r.alone = t.alone
      /\ t.kind # "get" => r.data = t.data
      /\ t.kind = "get" => \A f \in FieldsOf[t.page] : r.data[f] = c[f]
    <2>1. t \in Task /\ c \in [Fields -> Values]
        BY <1>2
    <2> HIDE DEF U
    <2> QED
        BY ONLY <2>1, RanFacts DEF r
<1>4. OwnTask(t, p) /\ FullTask(t) /\ t.kind \in Reads \cup Fields
    BY <1>1, <1>2, TaskParts DEF TasksInv, FullInv
<1>5. /\ t.kind \in Reads => d = c
      /\ t.kind \in Fields => \A f \in Fields \ WrittenBy(t) : d[f] = c[f]
      /\ t.kind \in Fields /\ t.kind \notin Brand => WrittenBy(t) = {t.kind}
      /\ t.kind \in Brand => WrittenBy(t) = Brand
    BY <1>2, <1>4, WroteFacts
<1> HIDE DEF U, r
<1>r. r # t /\ (r \in DOMAIN T => t.live)
    <2>1. r \in DOMAIN T => OwnTask(r, p)
        BY <1>1 DEF TasksInv
    <2> QED
        BY <1>3, <2>1 DEF OwnTask
<1>6. TasksInv(U, p)
    <2>1. t.live => OwnTask(r, p)
        BY <1>3, <1>4 DEF OwnTask
    <2> QED
        BY <1>1, <1>2, <2>1 DEF TasksInv
<1>7. FullInv(U)
    <2>1. t.kind # "get" => FullTask(r)
        BY <1>3, <1>4 DEF FullTask
    <2>2. t.kind = "get" => FullTask(r)
        <3>1. \A f \in Brand : c[f] # 0
            BY BrandIs DEF NotBlank
        <3>2. t.kind = "get" /\ t.page = "rebranding" => Full(r.data)
            BY <1>3, <3>1 DEF Full, Brand
        <3>3. t.kind = "get" /\ t.page = "settings" => r.data["alerts"] # 0
            BY <1>3, FieldsOfAre, FieldsAre DEF NotBlank
        <3> QED
            BY <1>3, <3>2, <3>3, BrandIs DEF FullTask
    <2> QED
        BY <1>1, <1>2, <2>1, <2>2 DEF FullInv
<1>8. WritesInv(U, busy)
    <2> SUFFICES ASSUME NEW u \in DOMAIN U, u.kind \in Fields, u.live
                 PROVE  /\ U[u] = 1 /\ u.kind \in busy
                        /\ \A v \in DOMAIN U : v.kind \in Fields /\ v.live /\ v.kind = u.kind => v = u
        BY DEF WritesInv, Writes
    <2>1. CASE u = r /\ t.live
        <3>1. T[t] = 1 /\ t.kind \in busy /\ \A v \in DOMAIN T : v.live /\ v.kind = t.kind => v = t
            BY <1>1, <1>3, <2>1 DEF WritesInv, Writes
        <3> QED
            BY <1>2, <1>3, <1>r, <2>1, <3>1
    <2>2. CASE u \in DOMAIN T /\ u # r
        <3>1. T[u] = 1 /\ u.kind \in busy /\ \A v \in DOMAIN T : v.live /\ v.kind = u.kind => v = u
            BY <1>1, <2>2 DEF WritesInv, Writes
        <3>2. t.live => u.kind # r.kind
            BY <1>2, <1>3, <3>1
        <3> QED
            BY <1>2, <2>2, <3>1, <3>2
    <2> QED
        BY <1>2, <1>r, <2>1, <2>2
<1>9. AloneInv(U, d)
    <2> SUFFICES ASSUME NEW u \in DOMAIN U, u.kind \in Brand, u.alone
                 PROVE  /\ U[u] = 1
                        /\ \A v \in DOMAIN U : v.kind \in Brand => v = u
                        /\ ~u.done => \A f \in Brand \ {u.kind} : u.data[f] = d[f]
        BY DEF AloneInv
    <2>1. CASE u = r /\ t.live
        <3>1. T[t] = 1 /\ \A v \in DOMAIN T : v.kind \in Brand => v = t
            BY <1>1, <1>3, <2>1 DEF AloneInv
        <3> QED
            BY <1>2, <1>3, <1>r, <2>1, <3>1
    <2>2. CASE u \in DOMAIN T /\ u # r
        <3>1. /\ T[u] = 1 /\ \A v \in DOMAIN T : v.kind \in Brand => v = u
              /\ ~u.done => \A f \in Brand \ {u.kind} : u.data[f] = c[f]
            BY <1>1, <2>2 DEF AloneInv
        <3>2. t.kind \notin Brand
            BY <1>2, <3>1
        <3>3. \A f \in Brand : d[f] = c[f]
            BY <1>4, <1>5, <3>2, BrandIs
        <3> QED
            BY <1>2, <1>3, <2>2, <3>1, <3>2, <3>3
    <2> QED
        BY <1>2, <1>r, <2>1, <2>2
<1>10. ~again => ChainInv(U, busy, typed)
    <2> SUFFICES ASSUME ~again, NEW u \in DOMAIN U, u.live
                 PROVE  /\ U[u] = 1 /\ u.kind \in busy
                        /\ \A v \in DOMAIN U : v.live => (v.kind = u.kind \/ {u.kind, v.kind} \subseteq Chain => v = u)
                        /\ u.kind \in {"get", "domains"} => typed \subseteq {"password", "alerts"}
        BY DEF ChainInv, LiveOf
    <2>0. ChainInv(T, busy, typed)
        BY DEF Sound
    <2>1. CASE u = r /\ t.live
        <3>1. /\ T[t] = 1 /\ t.kind \in busy
              /\ \A v \in DOMAIN T : v.live => (v.kind = t.kind \/ {t.kind, v.kind} \subseteq Chain => v = t)
              /\ t.kind \in {"get", "domains"} => typed \subseteq {"password", "alerts"}
            BY <2>0, <2>1 DEF ChainInv, LiveOf
        <3> QED
            BY <1>2, <1>3, <1>r, <2>1, <3>1
    <2>2. CASE u \in DOMAIN T /\ u # r
        <3>1. /\ T[u] = 1 /\ u.kind \in busy
              /\ \A v \in DOMAIN T : v.live => (v.kind = u.kind \/ {u.kind, v.kind} \subseteq Chain => v = u)
              /\ u.kind \in {"get", "domains"} => typed \subseteq {"password", "alerts"}
            BY <2>0, <2>2 DEF ChainInv, LiveOf
        <3>2. t # u /\ t \in DOMAIN T
            BY <1>2, <3>1
        <3>3. t.live => ~(r.kind = u.kind \/ {u.kind, r.kind} \subseteq Chain)
            BY <1>3, <3>1, <3>2
        <3> QED
            BY <1>2, <2>2, <3>1, <3>3
    <2> QED
        BY <1>2, <1>r, <2>1, <2>2
<1> QED
    BY <1>2, <1>6, <1>7, <1>8, <1>9, <1>10 DEF Sound, U

-----------------------------------------------------------------------------
(* The page while nothing overlaps.                                        *)

Clear(T, p, c, shown, last) == CleanTasks(T, p) /\ CleanData(T, p, c, shown, last)

\* A task is taken: of one that saved the page nothing is left, one that reads it was
\* there with readings only.
LEMMA ClearTake ==
    ASSUME NEW T, IsTasks(T), NEW p, NEW c, NEW shown, NEW last,
           Clear(T, p, c, shown, last), NEW t \in DOMAIN T
    PROVE  LET U == T (-) One(t) IN
           /\ Clear(U, p, c, shown, last)
           /\ OfForm(U, p) \subseteq OfForm(T, p)
           /\ t \notin OfForm(T, p) => OfForm(U, p) = OfForm(T, p)
           /\ t \in OfForm(T, p) /\ t.kind # "get" => OfForm(T, p) = {t} /\ OfForm(U, p) = {}
           /\ t \in OfForm(T, p) /\ t.kind = "get" => \A u \in OfForm(T, p) : u.kind = "get"
<1> DEFINE U == T (-) One(t)
<1>1. /\ IsTasks(U) /\ DOMAIN U \subseteq DOMAIN T
      /\ \A u \in DOMAIN T : u # t => u \in DOMAIN U
      /\ \A u \in DOMAIN U : T[u] = 1 => u # t /\ U[u] = 1
    BY TakenFacts
<1> HIDE DEF U
<1>2. CleanTasks(T, p) /\ CleanData(T, p, c, shown, last)
    BY DEF Clear
<1>3. OfForm(U, p) \subseteq OfForm(T, p) /\ OfForm(T, p) \subseteq OfForm(U, p) \cup {t}
    BY <1>1 DEF OfForm
<1>4. \A u \in OfForm(U, p) : u \in DOMAIN U
    BY DEF OfForm
<1>5. CleanTasks(U, p)
    BY <1>1, <1>2, <1>3, <1>4 DEF CleanTasks
<1>6. CleanData(U, p, c, shown, last)
    BY <1>2, <1>3 DEF CleanData
<1>7. t \in OfForm(T, p) /\ t.kind # "get" => OfForm(T, p) = {t} /\ OfForm(U, p) = {}
    <2> SUFFICES ASSUME t \in OfForm(T, p), t.kind # "get"
                 PROVE  OfForm(T, p) = {t} /\ OfForm(U, p) = {}
        OBVIOUS
    <2>1. T[t] = 1 /\ OfForm(T, p) = {t}
        BY <1>2 DEF CleanTasks
    <2> QED
        BY <2>1, <1>1, <1>3, <1>4
<1>8. t \in OfForm(T, p) /\ t.kind = "get" => \A u \in OfForm(T, p) : u.kind = "get"
    BY <1>2 DEF CleanTasks
<1>9. t \notin OfForm(T, p) => OfForm(U, p) = OfForm(T, p)
    BY <1>3
<1> QED
    BY <1>3, <1>5, <1>6, <1>7, <1>8, <1>9 DEF Clear, U

\* A reading is created.
LEMMA ClearRead ==
    ASSUME NEW T, IsTasks(T), NEW p, NEW c, NEW shown, NEW last,
           Clear(T, p, c, shown, last),
           NEW n \in Task, n.kind \in Reads, n.live, ~n.done,
           n.kind = "get" => ~Overlaps(T, p, "get")
    PROVE  LET U == T (+) One(n) IN
           /\ Clear(U, p, c, shown, last)
           /\ OfForm(T, p) \subseteq OfForm(U, p)
           /\ \A u \in OfForm(U, p) : u \in OfForm(T, p) \/ u = n
<1> DEFINE U == T (+) One(n)
<1>1. /\ IsTasks(U) /\ DOMAIN U = DOMAIN T \cup {n}
      /\ \A y \in DOMAIN T : y # n => U[y] = T[y]
    BY AddedFacts
<1> HIDE DEF U
<1>2. CleanTasks(T, p) /\ CleanData(T, p, c, shown, last)
    BY DEF Clear
<1>3. /\ OfForm(T, p) \subseteq OfForm(U, p)
      /\ \A u \in OfForm(U, p) : u \in OfForm(T, p) \/ (u = n /\ n.kind = "get")
    BY <1>1 DEF OfForm, Reads
<1>4. n.kind \notin Fields /\ n.kind \notin Brand
    BY ReadsAre, BrandIs
<1>5. CASE n.kind = "get"
    <2>1. \A u \in OfForm(T, p) : u.kind = "get"
        BY <1>5 DEF Overlaps
    <2>2. CleanTasks(U, p)
        BY <1>2, <1>3, <1>5, <2>1 DEF CleanTasks
    <2>3. CleanTask(n, p, c, shown, last)
        BY <1>4 DEF CleanTask
    <2>4. CleanData(U, p, c, shown, last)
        BY <1>2, <1>3, <2>3 DEF CleanData
    <2> QED
        BY <1>3, <2>2, <2>4 DEF Clear, U
<1>6. CASE n.kind # "get"
    <2>1. OfForm(U, p) = OfForm(T, p)
        BY <1>3, <1>6
    <2>2. \A u \in OfForm(T, p) : u \in DOMAIN T /\ u # n
        BY <1>6 DEF OfForm, Reads
    <2>3. CleanTasks(U, p)
        BY <1>1, <1>2, <2>1, <2>2 DEF CleanTasks
    <2>4. CleanData(U, p, c, shown, last)
        BY <1>2, <2>1 DEF CleanData
    <2> QED
        BY <1>3, <2>3, <2>4 DEF Clear, U
<1> QED
    BY <1>5, <1>6

\* The first task that saves the page.
LEMMA ClearSave ==
    ASSUME NEW T, IsTasks(T), NEW p, NEW c, NEW shown, NEW last,
           OfForm(T, p) = {},
           NEW n \in Task, n.page = p, n.kind \in Fields, n.live, ~n.done,
           n.data[n.kind] = shown[n.kind],
           n.kind \in Brand => \A f \in Brand \ {n.kind} : n.data[f] = last[f]
    PROVE  LET U == Meet(T, p) (+) One(n) IN
           Clear(U, p, c, shown, last) /\ OfForm(U, p) = {n}
<1> DEFINE M == Meet(T, p)
           U == M (+) One(n)
<1>1. /\ IsTasks(M)
      /\ \A u \in DOMAIN M : \E t \in DOMAIN T : u.page = t.page /\ u.kind = t.kind
    BY MeetFacts, MeetLike
<1> HIDE DEF M
<1>2. /\ IsTasks(U) /\ DOMAIN U = DOMAIN M \cup {n}
      /\ n \notin DOMAIN M => U[n] = 1
    BY <1>1, AddedFacts
<1> HIDE DEF U
<1>3. OfForm(M, p) = {}
    BY <1>1 DEF OfForm
<1>4. n.kind \notin {"domains", "defaults", "get"}
    BY ReadsAre
<1>5. OfForm(U, p) = {n} /\ n \notin DOMAIN M
    BY <1>2, <1>3, <1>4 DEF OfForm
<1>6. CleanTasks(U, p)
    BY <1>2, <1>5 DEF CleanTasks
<1>7. CleanTask(n, p, c, shown, last)
    BY <1>4 DEF CleanTask
<1>8. CleanData(U, p, c, shown, last)
    BY <1>5, <1>7 DEF CleanData
<1> QED
    BY <1>5, <1>6, <1>8 DEF Clear, U, M

Shows(T, p, c, shown, last, typed) ==
    CleanForm(p, c, shown, typed) /\ CleanSaved(T, p, c, last)

\* A task runs: what it saves is what the page shows, or what the page took for saved.
LEMMA ClearRun ==
    ASSUME NEW T, NEW p \in Pages, NEW c \in [Fields -> Values], NEW shown, NEW last, NEW typed,
           IsTasks(T), TasksInv(T, p), Clear(T, p, c, shown, last),
           NEW t \in DOMAIN T, ~t.done
    PROVE  /\ Clear(AfterRun(T, t, c), p, Wrote(t, c), shown, last)
           /\ Shows(T, p, c, shown, last, typed) =>
                 Shows(AfterRun(T, t, c), p, Wrote(t, c), shown, last, typed)
<1> DEFINE U == AfterRun(T, t, c)
           r == RanAs(t, c)
           d == Wrote(t, c)
<1>1. CleanTasks(T, p) /\ CleanData(T, p, c, shown, last)
    BY DEF Clear
<1>2. /\ IsTasks(U) /\ r \in Task /\ t \in Task
      /\ \A u \in DOMAIN U : u \in DOMAIN T \/ (t.live /\ u = r)
      /\ t.live => r \in DOMAIN U
      /\ \A u \in DOMAIN T : u # t => u \in DOMAIN U
      /\ T[t] = 1 => t \notin DOMAIN U
      /\ \A u \in DOMAIN U : u \in DOMAIN T /\ T[u] = 1 /\ u # r => U[u] = 1
      /\ r \notin DOMAIN T /\ t.live => U[r] = 1
    BY AfterRunFacts
<1>3. /\ r.page = t.page /\ r.kind = t.kind /\ r.live = t.live /\ r.done = TRUE
      /\ t.kind # "get" => r.data = t.data
      /\ t.kind = "get" => \A f \in FieldsOf[t.page] : r.data[f] = c[f]
    <2>1. t \in Task
        BY <1>2
    <2> QED
        BY <2>1, RanFacts
<1>4. OwnTask(t, p) /\ t.page \in Pages /\ t.kind \in Reads \cup Fields
    BY <1>2, TaskParts DEF TasksInv
<1>5. /\ t.kind \in Reads => d = c
      /\ t.kind \in Fields => t.kind \in WrittenBy(t) /\ WrittenBy(t) \subseteq FieldsOf[t.page]
      /\ t.kind \in Fields => \A f \in WrittenBy(t) : d[f] = t.data[f]
      /\ t.kind \in Fields => \A f \in Fields \ WrittenBy(t) : d[f] = c[f]
      /\ t.kind \in Fields /\ t.kind \notin Brand => WrittenBy(t) = {t.kind}
      /\ t.kind \in Brand => WrittenBy(t) = Brand
    BY <1>2, <1>4, WroteFacts
<1> HIDE DEF U, r, d
<1>6. r # t
    BY <1>3
<1>7. CASE t \notin OfForm(T, p)
    <2>1. r \notin OfForm(U, p) /\ OfForm(U, p) = OfForm(T, p) /\ r \notin OfForm(T, p)
        BY <1>2, <1>3, <1>7 DEF OfForm
    <2>2. \A f \in FieldsOf[p] : d[f] = c[f]
        <3>1. t.kind \in Fields => t.page # p
            BY <1>7, ReadsAre DEF OfForm
        <3> QED
            BY <1>4, <1>5, <3>1, OnePage
    <2>3. CleanTasks(U, p)
        BY <1>1, <1>2, <2>1 DEF CleanTasks, OfForm
    <2>4. CleanData(U, p, d, shown, last)
        <3> SUFFICES ASSUME NEW u \in OfForm(T, p)
                     PROVE  CleanTask(u, p, d, shown, last)
            BY <2>1 DEF CleanData
        <3>1. CleanTask(u, p, c, shown, last)
            BY <1>1 DEF CleanData
        <3>2. u \in Task /\ u.page = p /\ OwnTask(u, p)
            BY DEF OfForm, TasksInv, IsTasks
        <3>3. u.kind \in Fields => WrittenBy(u) \subseteq FieldsOf[p]
            BY <3>2, WroteFacts
        <3> QED
            BY <2>2, <3>1, <3>3 DEF CleanTask
    <2>5. CleanForm(p, c, shown, typed) => CleanForm(p, d, shown, typed)
        BY <2>1, <2>2 DEF CleanForm
    <2>6. CleanSaved(T, p, c, last) => CleanSaved(U, p, d, last)
        BY <2>1, <2>2 DEF CleanSaved, Told
    <2> QED
        BY <2>3, <2>4, <2>5, <2>6 DEF Clear, Shows, U, d
<1>8. CASE t \in OfForm(T, p) /\ t.kind = "get"
    <2>1. d = c /\ t.page = p
        BY <1>5, <1>8 DEF Reads, OfForm
    <2>2. (\A u \in OfForm(T, p) : u.kind = "get" /\ u.live) /\ t.live
        BY <1>1, <1>8 DEF CleanTasks
    <2>3. \A u \in OfForm(U, p) : u \in OfForm(T, p) \/ u = r
        BY <1>2 DEF OfForm
    <2>4. CleanTasks(U, p)
        BY <1>3, <1>8, <2>2, <2>3 DEF CleanTasks
    <2>5. CleanTask(r, p, c, shown, last)
        BY <1>3, <1>8, <2>1, ReadsAre, BrandIs DEF CleanTask
    <2>6. CleanData(U, p, d, shown, last)
        BY <1>1, <2>1, <2>3, <2>5 DEF CleanData
    <2>7. ~Told(T, p)
        BY <2>2 DEF Told, Recalled
    <2>8. CleanForm(p, c, shown, typed) => CleanForm(p, d, shown, typed)
        BY <2>1 DEF CleanForm
    <2>9. CleanSaved(T, p, c, last) => CleanSaved(U, p, d, last)
        BY <2>1, <2>7 DEF CleanSaved
    <2> QED
        BY <2>4, <2>6, <2>8, <2>9 DEF Clear, Shows, U, d
<1>9. CASE t \in OfForm(T, p) /\ t.kind # "get"
    <2>1. /\ OfForm(T, p) = {t} /\ T[t] = 1 /\ t.live
          /\ CleanTask(t, p, c, shown, last)
        BY <1>1, <1>9 DEF CleanTasks, CleanData
    <2>2. t.page = p /\ t.kind \in Fields
        BY <1>4, <1>9 DEF OfForm, Reads
    <2>3. r \notin DOMAIN T
        BY <1>3, <1>6, <1>9, <2>1 DEF OfForm
    <2>4. OfForm(U, p) = {r} /\ U[r] = 1
        BY <1>2, <1>3, <1>9, <2>1, <2>3 DEF OfForm
    <2>5. CleanTasks(U, p)
        BY <1>3, <2>1, <2>4 DEF CleanTasks
    <2>6. CleanTask(r, p, d, shown, last)
        <3>1. WrittenBy(r) = WrittenBy(t)
            BY <1>3 DEF WrittenBy
        <3> QED
            BY <1>3, <1>5, <1>9, <2>1, <2>2, <3>1 DEF CleanTask
    <2>7. CleanData(U, p, d, shown, last)
        BY <2>4, <2>6 DEF CleanData
    <2>8. ~Told(T, p)
        BY <2>1 DEF Told
    <2>9. ASSUME CleanForm(p, c, shown, typed), CleanSaved(T, p, c, last)
          PROVE  CleanForm(p, d, shown, typed)
        <3> SUFFICES ASSUME NEW f \in FieldsOf[p], f \notin typed, f # "password"
                     PROVE  shown[f] = d[f]
            BY DEF CleanForm
        <3>1. f \in Fields
            BY OnePage
        <3>2. CASE f = t.kind
            BY <1>5, <2>1, <2>2, <3>2 DEF CleanTask
        <3>3. CASE f # t.kind /\ f \in WrittenBy(t)
            <4>1. t.kind \in Brand /\ f \in Brand
                BY <1>5, <2>2, <3>3
            <4>2. shown[f] = c[f]
                BY <2>9, <4>1, BrandIs DEF CleanForm
            <4>3. last[f] = c[f]
                BY <2>8, <2>9, <4>1, BrandIs DEF CleanSaved, Recalled
            <4>4. t.data[f] = last[f]
                BY <2>1, <3>3, <4>1 DEF CleanTask
            <4> QED
                BY <1>5, <2>2, <3>3, <4>2, <4>3, <4>4
        <3>4. CASE f \notin WrittenBy(t)
            <4>1. d[f] = c[f] /\ f # t.kind
                BY <1>5, <2>2, <3>1, <3>4
            <4>2. shown[f] = c[f]
                BY <2>8, <2>9, <4>1 DEF CleanForm
            <4> QED
                BY <4>1, <4>2
        <3> QED
            BY <3>2, <3>3, <3>4
    <2>10. ASSUME CleanSaved(T, p, c, last)
           PROVE  CleanSaved(U, p, d, last)
        <3>1. CASE t.kind \in Recalled
            BY <1>3, <2>4, <3>1 DEF CleanSaved, Told
        <3>2. CASE t.kind \notin Recalled
            <4>1. \A f \in FieldsOf[p] \cap Recalled : last[f] = c[f]
                BY <2>8, <2>10 DEF CleanSaved
            <4>2. \A f \in FieldsOf[p] \cap Recalled : f \in Fields /\ f \notin WrittenBy(t)
                BY <1>5, <2>2, <3>2, BrandIs, OnePage DEF Recalled
            <4> QED
                BY <1>5, <2>2, <4>1, <4>2 DEF CleanSaved
        <3> QED
            BY <3>1, <3>2
    <2> QED
        BY <2>5, <2>7, <2>9, <2>10 DEF Clear, Shows, U, d
<1> QED
    BY <1>7, <1>8, <1>9

\* Where the page is only read, nothing hangs on what is shown while it is.
LEMMA ClearReads ==
    ASSUME NEW T, NEW p, NEW c, NEW shown, NEW last, Clear(T, p, c, shown, last),
           \A u \in OfForm(T, p) : u.kind = "get", NEW other, NEW past
    PROVE  Clear(T, p, c, other, past)
<1>1. "get" \notin Fields /\ "get" \notin Brand
    BY ReadsAre, BrandIs
<1> QED
    BY <1>1 DEF Clear, CleanData, CleanTask

LEMMA ShowsReads ==
    ASSUME NEW T, NEW p, NEW c, NEW shown, NEW last, NEW typed,
           Shows(T, p, c, shown, last, typed),
           \A u \in OfForm(T, p) : u.kind = "get", NEW U
    PROVE  Shows(U, p, c, shown, last, typed)
<1>1. ~Told(T, p)
    BY DEF Told, Recalled
<1> QED
    BY <1>1 DEF Shows, CleanSaved

-----------------------------------------------------------------------------
(* The inductive invariant, its parts put the way the steps use them.      *)

Shapes ==
    /\ conf \in [Fields -> Values] /\ page \in Pages \cup {"none"}
    /\ form \in [Fields -> Values] /\ saved \in [Fields -> Values]
    /\ active \in BOOLEAN /\ loading \subseteq Reads \cup Fields
    /\ edits \in 0..MaxEdits /\ dirty \subseteq Fields
    /\ loaded \in BOOLEAN /\ clean \in BOOLEAN /\ reloaded \in BOOLEAN
PageInv ==
    clean /\ page \in Pages =>
        /\ Clear(tasks, page, conf, form, saved)
        /\ loaded => Shows(tasks, page, conf, form, saved, dirty)
Base ==
    /\ Shapes /\ Sound(tasks, page, loading, conf, dirty, reloaded)
    /\ NotBlank(conf) /\ ActiveInv /\ DirtyInv /\ ReadInv /\ PageInv
Errors == error \subseteq Reads \cup {"save"}
Settled == Errors /\ SettingsInv /\ RereadInv
Parts == Base /\ Settled

LEMMA PartsAreInv == Parts <=> IInv
<1>1. PageInv <=> CleanInv
    BY DEF PageInv, CleanInv, Clear, Shows
<1>2. NotBlank(conf) <=> NeverBlanked
    BY DEF NotBlank, NeverBlanked
<1>3. Shapes /\ Errors /\ IsTasks(tasks) <=> TypeOK
    BY DEF Shapes, Errors, IsTasks, TypeOK
<1> QED
    BY <1>1, <1>2, <1>3 DEF Parts, Base, Settled, IInv, Sound

\* An answer that the page hears, and the tasks without it.
LEMMA AnswerFacts ==
    ASSUME Parts, NEW kind, NEW a \in AnswersTo(kind)
    PROVE  /\ a.task \in DOMAIN tasks /\ a.task \in Task /\ a.task.kind = kind
           /\ a.task.live /\ a.task.page = page /\ page \in Pages
           /\ kind \in Reads \cup Fields /\ (kind \in Fields => kind \in FieldsOf[page])
           /\ kind \in {"domains", "defaults"} => page = "settings"
           /\ FullTask(a.task) /\ a.ok \in BOOLEAN
           /\ kind \in Fields /\ a.ok => a.task.done
           /\ kind = "get" => a.ok = a.task.done
           /\ a.task.data \in [Fields -> Values]
           /\ Sound(Rest(a), page, loading \ {kind}, conf, dirty, reloaded)
<1> DEFINE t == a.task
<1>1. t \in DOMAIN tasks /\ t.kind = kind /\ t.live /\ a.ok \in BOOLEAN /\ a.ok \in Outcomes(t)
    BY DEF AnswersTo
<1>2. Sound(tasks, page, loading, conf, dirty, reloaded)
    BY DEF Parts, Base
<1> HIDE DEF t
<1>3. t \in Task /\ OwnTask(t, page) /\ FullTask(t)
    BY <1>1, <1>2 DEF Sound, IsTasks, TasksInv, FullInv
<1>4. /\ t.page \in Pages /\ t.kind \in Reads \cup Fields /\ t.data \in [Fields -> Values]
    BY <1>3, TaskParts
<1>5. Sound(tasks (-) One(t), page, loading \ {t.kind}, conf, dirty, reloaded)
    BY <1>1, <1>2, SoundTake
<1>6. Sound(Rest(a), page, loading \ {kind}, conf, dirty, reloaded)
    BY <1>1, <1>5 DEF Rest, t
<1>7. (kind \in Fields /\ a.ok => t.done) /\ (kind = "get" => a.ok = t.done)
    BY <1>1, ReadsAre DEF Outcomes
<1> QED
    BY <1>1, <1>3, <1>4, <1>6, <1>7 DEF OwnTask, t

\* The same while nothing overlaps.
LEMMA ClearAnswer ==
    ASSUME Parts, NEW kind, NEW a \in AnswersTo(kind), clean
    PROVE  /\ Clear(tasks, page, conf, form, saved) /\ Clear(Rest(a), page, conf, form, saved)
           /\ OfForm(Rest(a), page) \subseteq OfForm(tasks, page)
           /\ kind \in {"domains", "defaults"} => OfForm(Rest(a), page) = OfForm(tasks, page)
           /\ kind \in Fields => /\ OfForm(tasks, page) = {a.task} /\ OfForm(Rest(a), page) = {}
                                 /\ CleanTask(a.task, page, conf, form, saved)
           /\ kind = "get" => /\ \A u \in OfForm(tasks, page) : u.kind = "get"
                              /\ a.ok => \A f \in FieldsOf[page] : a.task.data[f] = conf[f]
<1> DEFINE t == a.task
<1>1. /\ t \in DOMAIN tasks /\ t.kind = kind /\ t.page = page /\ page \in Pages
      /\ kind = "get" => a.ok = t.done
    BY AnswerFacts
<1>2. Clear(tasks, page, conf, form, saved) /\ IsTasks(tasks)
    BY <1>1 DEF Parts, Base, PageInv, Sound
<1>3. Rest(a) = tasks (-) One(t)
    BY DEF Rest
<1> HIDE DEF t
<1>4. /\ Clear(tasks (-) One(t), page, conf, form, saved)
      /\ OfForm(tasks (-) One(t), page) \subseteq OfForm(tasks, page)
      /\ t \notin OfForm(tasks, page) => OfForm(tasks (-) One(t), page) = OfForm(tasks, page)
      /\ t \in OfForm(tasks, page) /\ t.kind # "get" =>
            OfForm(tasks, page) = {t} /\ OfForm(tasks (-) One(t), page) = {}
      /\ t \in OfForm(tasks, page) /\ t.kind = "get" =>
            \A u \in OfForm(tasks, page) : u.kind = "get"
    BY <1>1, <1>2, ClearTake
<1>5. t \in OfForm(tasks, page) <=> kind \notin {"domains", "defaults"}
    BY <1>1 DEF OfForm
<1>6. t \in OfForm(tasks, page) => CleanTask(t, page, conf, form, saved)
    BY <1>2 DEF Clear, CleanData
<1>7. kind \in Fields => kind \notin {"domains", "defaults", "get"}
    BY ReadsAre
<1>8. kind = "get" /\ a.ok => \A f \in FieldsOf[page] : t.data[f] = conf[f]
    BY <1>1, <1>5, <1>6 DEF CleanTask
<1> QED
    BY <1>1, <1>2, <1>3, <1>4, <1>5, <1>6, <1>7, <1>8 DEF t

-----------------------------------------------------------------------------
(* The answers to readings.                                                *)

\* Hotel.vue and Integrations.vue: one form, and it is shown as it is read.
LEMMA PlainRead ==
    ASSUME Parts, NEW f \in {"hotel", "integrations"}, page = f, NEW a \in AnswersTo("get"),
           form' = IF a.ok THEN [form EXCEPT ![f] = a.task.data[f]] ELSE form,
           dirty' = IF a.ok THEN {} ELSE dirty,
           loading' = loading \ {"get"}, tasks' = Rest(a), loaded' = (loaded \/ a.ok),
           UNCHANGED <<Kept, saved, active, clean>>
    PROVE  Base'
<1> DEFINE t == a.task
           U == Rest(a)
<1>1. /\ page \in Pages /\ a.ok \in BOOLEAN /\ t.data \in [Fields -> Values]
      /\ Sound(U, page, loading \ {"get"}, conf, dirty, reloaded)
    BY AnswerFacts
<1>2. clean => /\ Clear(U, page, conf, form, saved)
               /\ OfForm(U, page) \subseteq OfForm(tasks, page)
               /\ \A u \in OfForm(tasks, page) : u.kind = "get"
               /\ a.ok => \A g \in FieldsOf[page] : t.data[g] = conf[g]
    BY ClearAnswer
<1> HIDE DEF t, U
<1>3. Shapes /\ NotBlank(conf) /\ ActiveInv /\ DirtyInv /\ ReadInv /\ PageInv
    BY DEF Parts, Base
<1>4. /\ conf' = conf /\ page' = page /\ edits' = edits /\ reloaded' = reloaded
      /\ saved' = saved /\ active' = active /\ clean' = clean /\ tasks' = U
    BY DEF Kept, U
<1>5. dirty' \in SUBSET dirty /\ f \in Fields /\ FieldsOf[page] = {f}
    BY FieldsAre, FieldsOfAre
<1>6. Shapes'
    BY <1>1, <1>3, <1>4, <1>5 DEF Shapes, t
<1>7. Sound(tasks', page', loading', conf', dirty', reloaded')
    BY <1>1, <1>4, <1>5, SoundTyped
<1>8. ActiveInv' /\ DirtyInv' /\ ReadInv' /\ NotBlank(conf')
    BY <1>3, <1>4, <1>5 DEF ActiveInv, DirtyInv, ReadInv
<1>9. PageInv'
    <2> SUFFICES ASSUME clean
                 PROVE  /\ Clear(U, page, conf, form', saved)
                        /\ loaded' => Shows(U, page, conf, form', saved, dirty')
        BY <1>4 DEF PageInv
    <2>1. Clear(U, page, conf, form', saved)
        BY <1>2, ClearReads
    <2>2. CASE a.ok
        <3>1. form'[f] = conf[f]
            BY <1>2, <1>3, <1>5, <2>2 DEF Shapes, t
        <3>2. FieldsOf[page] \cap Recalled = {}
            BY <1>5 DEF Recalled
        <3>3. CleanForm(page, conf, form', dirty')
            BY <1>5, <3>1 DEF CleanForm
        <3>4. CleanSaved(U, page, conf, saved)
            BY <3>2 DEF CleanSaved
        <3> QED
            BY <2>1, <3>3, <3>4 DEF Shows
    <2>3. CASE ~a.ok
        <3>1. form' = form /\ dirty' = dirty /\ loaded' = loaded
            BY <2>3, <1>3 DEF Shapes
        <3>2. loaded => Shows(tasks, page, conf, form, saved, dirty)
            BY <1>1, <1>3 DEF PageInv
        <3>3. loaded => Shows(U, page, conf, form, saved, dirty)
            BY <1>2, <3>2, ShowsReads
        <3> QED
            BY <2>1, <3>1, <3>3
    <2> QED
        BY <2>2, <2>3
<1> QED
    BY <1>6, <1>7, <1>8, <1>9 DEF Base

LEMMA GetHotelKeeps == ASSUME Parts, GetHotelAnswered PROVE Base'
<1>1. PICK a \in AnswersTo("get") :
        /\ page = "hotel"
        /\ form' = IF a.ok THEN [form EXCEPT !["hotel"] = a.task.data["hotel"]] ELSE form
        /\ dirty' = IF a.ok THEN {} ELSE dirty
        /\ loading' = loading \ {"get"} /\ tasks' = Rest(a)
        /\ loaded' = (loaded \/ a.ok)
        /\ UNCHANGED <<Kept, saved, active, clean>>
    BY DEF GetHotelAnswered
<1> QED
    BY <1>1, PlainRead

LEMMA GetIntegrationsKeeps == ASSUME Parts, GetIntegrationsAnswered PROVE Base'
<1>1. PICK a \in AnswersTo("get") :
        /\ page = "integrations"
        /\ form' = IF a.ok THEN [form EXCEPT !["integrations"] = a.task.data["integrations"]] ELSE form
        /\ dirty' = IF a.ok THEN {} ELSE dirty
        /\ loading' = loading \ {"get"} /\ tasks' = Rest(a)
        /\ loaded' = (loaded \/ a.ok)
        /\ UNCHANGED <<Kept, saved, active, clean>>
    BY DEF GetIntegrationsAnswered
<1> QED
    BY <1>1, PlainRead

LEMMA GetConfigurationKeeps == ASSUME Parts, GetConfigurationAnswered PROVE Base'
<1>0. PICK a \in AnswersTo("get") :
        /\ page = "settings"
        /\ IF a.ok
           THEN /\ form' = [a.task.data EXCEPT !["password"] = 0]
                /\ saved' = [saved EXCEPT !["alerts"] = a.task.data["alerts"]]
                /\ dirty' = {}
           ELSE UNCHANGED <<form, saved, dirty>>
        /\ loading' = loading \ {"get"} /\ tasks' = Rest(a)
        /\ loaded' = (loaded \/ a.ok)
        /\ UNCHANGED <<Kept, active, clean>>
    BY DEF GetConfigurationAnswered
<1> DEFINE t == a.task
           U == Rest(a)
<1>1. /\ page \in Pages /\ a.ok \in BOOLEAN /\ t.data \in [Fields -> Values]
      /\ Sound(U, page, loading \ {"get"}, conf, dirty, reloaded)
    BY AnswerFacts
<1>2. clean => /\ Clear(U, page, conf, form, saved)
               /\ OfForm(U, page) \subseteq OfForm(tasks, page)
               /\ \A u \in OfForm(tasks, page) : u.kind = "get"
               /\ a.ok => \A g \in FieldsOf[page] : t.data[g] = conf[g]
    BY ClearAnswer
<1>o. a.ok => /\ form' = [t.data EXCEPT !["password"] = 0]
              /\ saved' = [saved EXCEPT !["alerts"] = t.data["alerts"]] /\ dirty' = {}
    BY <1>0
<1>f. ~a.ok => form' = form /\ saved' = saved /\ dirty' = dirty
    BY <1>0
<1>4. /\ conf' = conf /\ page' = page /\ edits' = edits /\ reloaded' = reloaded
      /\ active' = active /\ clean' = clean /\ tasks' = U /\ loaded' = (loaded \/ a.ok)
      /\ page = "settings" /\ loading' = loading \ {"get"}
    BY <1>0 DEF Kept
<1> HIDE DEF t, U
<1>3. Shapes /\ NotBlank(conf) /\ ActiveInv /\ DirtyInv /\ ReadInv /\ PageInv
    BY DEF Parts, Base
<1>5. dirty' \in SUBSET dirty /\ FieldsOf[page] = {"config", "alerts", "password"}
    BY <1>o, <1>f, <1>1, <1>4, FieldsOfAre
<1>6. Shapes'
    <2>1. 0 \in Values
        BY PagesAssumption DEF Values
    <2>2. form' \in [Fields -> Values] /\ saved' \in [Fields -> Values]
        BY <1>o, <1>f, <1>1, <1>3, <2>1, FieldsAre DEF Shapes
    <2> QED
        BY <1>1, <1>3, <1>4, <1>5, <2>2 DEF Shapes
<1>7. Sound(tasks', page', loading', conf', dirty', reloaded')
    BY <1>1, <1>4, <1>5, SoundTyped
<1>8. ActiveInv' /\ DirtyInv' /\ ReadInv' /\ NotBlank(conf')
    BY <1>3, <1>4, <1>5 DEF ActiveInv, DirtyInv, ReadInv
<1>9. PageInv'
    <2> SUFFICES ASSUME clean
                 PROVE  /\ Clear(U, page, conf, form', saved')
                        /\ loaded' => Shows(U, page, conf, form', saved', dirty')
        BY <1>4 DEF PageInv
    <2>1. Clear(U, page, conf, form', saved')
        BY <1>2, ClearReads
    <2>2. CASE a.ok
        <3>1. /\ form'["config"] = conf["config"] /\ form'["alerts"] = conf["alerts"]
              /\ saved'["alerts"] = conf["alerts"]
            BY <1>o, <1>1, <1>2, <1>3, <1>5, <2>2, FieldsAre DEF Shapes
        <3>2. FieldsOf[page] \cap Recalled = {"alerts"}
            BY <1>5 DEF Recalled
        <3>3. CleanForm(page, conf, form', dirty')
            BY <1>5, <3>1 DEF CleanForm
        <3>4. CleanSaved(U, page, conf, saved')
            BY <3>1, <3>2 DEF CleanSaved
        <3> QED
            BY <2>1, <3>3, <3>4 DEF Shows
    <2>3. CASE ~a.ok
        <3>1. form' = form /\ dirty' = dirty /\ saved' = saved /\ loaded' = loaded
            BY <2>3, <1>f, <1>3, <1>4 DEF Shapes
        <3>2. loaded => Shows(tasks, page, conf, form, saved, dirty)
            BY <1>1, <1>3 DEF PageInv
        <3>3. loaded => Shows(U, page, conf, form, saved, dirty)
            BY <1>2, <3>2, ShowsReads
        <3> QED
            BY <2>1, <3>1, <3>3
    <2> QED
        BY <2>2, <2>3
<1> QED
    BY <1>6, <1>7, <1>8, <1>9 DEF Base

LEMMA GetRebrandingKeeps == ASSUME Parts, GetRebrandingAnswered PROVE Base'
<1>0. PICK a \in AnswersTo("get") :
        /\ page = "rebranding"
        /\ IF a.ok
           THEN active' \in BOOLEAN /\ form' = a.task.data /\ saved' = a.task.data
           ELSE UNCHANGED <<active, form, saved>>
        /\ loading' = loading \ {"get"} /\ tasks' = Rest(a)
        /\ loaded' = (loaded \/ a.ok)
        /\ UNCHANGED <<Kept, dirty, clean>>
    BY DEF GetRebrandingAnswered
<1> DEFINE t == a.task
           U == Rest(a)
<1>1. /\ page \in Pages /\ a.ok \in BOOLEAN /\ t.data \in [Fields -> Values]
      /\ Sound(U, page, loading \ {"get"}, conf, dirty, reloaded)
      /\ FullTask(t) /\ t.kind = "get" /\ t.page = page /\ a.ok = t.done
    BY AnswerFacts
<1>2. clean => /\ Clear(U, page, conf, form, saved)
               /\ OfForm(U, page) \subseteq OfForm(tasks, page)
               /\ \A u \in OfForm(tasks, page) : u.kind = "get"
               /\ a.ok => \A g \in FieldsOf[page] : t.data[g] = conf[g]
    BY ClearAnswer
<1>o. a.ok => active' \in BOOLEAN /\ form' = t.data /\ saved' = t.data
    BY <1>0
<1>f. ~a.ok => form' = form /\ saved' = saved /\ active' = active
    BY <1>0
<1>4. /\ conf' = conf /\ page' = page /\ edits' = edits /\ reloaded' = reloaded
      /\ dirty' = dirty /\ clean' = clean /\ tasks' = U /\ loaded' = (loaded \/ a.ok)
      /\ page = "rebranding" /\ loading' = loading \ {"get"}
    BY <1>0 DEF Kept
<1> HIDE DEF t, U
<1>3. Shapes /\ NotBlank(conf) /\ ActiveInv /\ DirtyInv /\ ReadInv /\ PageInv
    BY DEF Parts, Base
<1>5. FieldsOf[page] = Brand /\ Brand \subseteq Fields
    BY <1>4, BrandIs DEF Brand
<1>6. Shapes'
    <2>1. active' \in BOOLEAN /\ form' \in [Fields -> Values] /\ saved' \in [Fields -> Values]
        BY <1>o, <1>f, <1>1, <1>3 DEF Shapes
    <2> QED
        BY <1>1, <1>3, <1>4, <2>1 DEF Shapes
<1>7. Sound(tasks', page', loading', conf', dirty', reloaded')
    BY <1>1, <1>4
<1>8. DirtyInv' /\ NotBlank(conf')
    BY <1>3, <1>4 DEF DirtyInv
<1>9. ActiveInv' /\ ReadInv'
    <2>1. CASE a.ok
        <3>1. Full(t.data)
            BY <1>1, <1>4, <2>1 DEF FullTask
        <3> QED
            BY <1>o, <1>4, <2>1, <3>1 DEF ActiveInv, ReadInv
    <2>2. CASE ~a.ok
        <3>1. active' = active /\ loaded' = loaded /\ form' = form /\ saved' = saved
            BY <1>f, <1>3, <1>4, <2>2 DEF Shapes
        <3>2. ActiveInv'
            BY <1>3, <1>4, <3>1 DEF ActiveInv
        <3>3. ReadInv'
            BY <1>3, <3>1 DEF ReadInv
        <3> QED
            BY <3>2, <3>3
    <2> QED
        BY <2>1, <2>2
<1>10. PageInv'
    <2> SUFFICES ASSUME clean
                 PROVE  /\ Clear(U, page, conf, form', saved')
                        /\ loaded' => Shows(U, page, conf, form', saved', dirty)
        BY <1>4 DEF PageInv
    <2>1. Clear(U, page, conf, form', saved')
        BY <1>2, ClearReads
    <2>2. CASE a.ok
        <3>1. \A f \in Brand : form'[f] = conf[f] /\ saved'[f] = conf[f]
            BY <1>o, <1>2, <1>5, <2>2
        <3> QED
            BY <2>1, <3>1, <1>5 DEF Shows, CleanForm, CleanSaved
    <2>3. CASE ~a.ok
        <3>1. form' = form /\ saved' = saved /\ loaded' = loaded
            BY <2>3, <1>f, <1>3, <1>4 DEF Shapes
        <3>2. loaded => Shows(tasks, page, conf, form, saved, dirty)
            BY <1>1, <1>3 DEF PageInv
        <3>3. loaded => Shows(U, page, conf, form, saved, dirty)
            BY <1>2, <3>2, ShowsReads
        <3> QED
            BY <2>1, <3>1, <3>3
    <2> QED
        BY <2>2, <2>3
<1> QED
    BY <1>6, <1>7, <1>8, <1>9, <1>10 DEF Base

\* Nothing that the page recalls is being saved.
LEMMA ShowsQuiet ==
    ASSUME NEW T, NEW p, NEW c, NEW shown, NEW last, NEW typed,
           Shows(T, p, c, shown, last, typed),
           \A u \in OfForm(T, p) : u.kind \notin Recalled, NEW U
    PROVE  Shows(U, p, c, shown, last, typed)
<1>1. ~Told(T, p)
    BY DEF Told, Recalled
<1> QED
    BY <1>1 DEF Shows, CleanSaved

LEMMA ShowsMore ==
    ASSUME NEW T, NEW p, NEW c, NEW shown, NEW last, NEW typed,
           Shows(T, p, c, shown, last, typed), NEW U, OfForm(T, p) \subseteq OfForm(U, p)
    PROVE  Shows(U, p, c, shown, last, typed)
<1>1. Told(T, p) => Told(U, p)
    BY DEF Told
<1> QED
    BY <1>1 DEF Shows, CleanSaved

LEMMA CreateRead ==
    ASSUME NEW T, NEW p, NEW kind \in Reads
    PROVE  Create(T, p, kind, Nothing) = T (+) One(NewTask(p, kind, Nothing, TRUE))
BY ReadsAre DEF Create, NewTask

LEMMA ReadTask ==
    ASSUME NEW p \in Pages, NEW kind \in Reads
    PROVE  LET n == NewTask(p, kind, Nothing, TRUE) IN
           /\ n \in Task /\ n.page = p /\ n.kind = kind /\ n.live = TRUE /\ n.done = FALSE
<1>1. Nothing \in [Fields -> Values]
    BY PagesAssumption DEF Nothing, Values
<1> QED
    BY <1>1 DEF NewTask, Task

\* The page is read again, or read at last, after an answer.
LEMMA ReadNext ==
    ASSUME Parts, NEW kind \in Chain, kind # "get", NEW a \in AnswersTo(kind),
           kind \in Fields => dirty \subseteq {kind, "password", "alerts"}
    PROVE  LET U == Create(Rest(a), page, "get", Nothing) IN
           /\ Sound(U, page, (loading \ {kind}) \cup {"get"}, conf, dirty \ {kind}, reloaded)
           /\ clean /\ ~Overlaps(Rest(a), page, "get") => Clear(U, page, conf, form, saved)
           /\ OfForm(Rest(a), page) \subseteq OfForm(U, page)
<1> DEFINE T == Rest(a)
           n == NewTask(page, "get", Nothing, TRUE)
           U == T (+) One(n)
           typed == dirty \ {kind}
<1>1. /\ page \in Pages /\ a.task \in DOMAIN tasks /\ a.task.kind = kind /\ a.task.live
      /\ Sound(T, page, loading \ {kind}, conf, dirty, reloaded)
    BY AnswerFacts
<1>2. Create(T, page, "get", Nothing) = U
    BY CreateRead DEF Reads
<1>3. n \in Task /\ n.page = page /\ n.kind = "get" /\ n.live = TRUE /\ n.done = FALSE
    BY <1>1, ReadTask DEF Reads
<1>4. clean => Clear(T, page, conf, form, saved)
    BY ClearAnswer
<1> HIDE DEF n
<1>5. IsTasks(T) /\ Sound(T, page, loading \ {kind}, conf, typed, reloaded)
    <2>1. typed \in SUBSET dirty
        OBVIOUS
    <2> HIDE DEF typed, T
    <2> QED
        BY <1>1, <2>1, SoundTyped DEF Sound
<1>6. ~reloaded => /\ \A u \in LiveOf(T) : u.kind \notin Chain
                   /\ typed \subseteq {"password", "alerts"}
    <2> SUFFICES ASSUME ~reloaded
                 PROVE  (\A u \in LiveOf(T) : u.kind \notin Chain) /\ typed \subseteq {"password", "alerts"}
        OBVIOUS
    <2>1. ChainInv(tasks, loading, dirty) /\ IsTasks(tasks)
        BY DEF Parts, Base, Sound
    <2>2. /\ tasks[a.task] = 1
          /\ \A u \in LiveOf(tasks) : u.kind \in Chain => u = a.task
          /\ kind \in {"get", "domains"} => dirty \subseteq {"password", "alerts"}
        BY <1>1, <2>1 DEF ChainInv, LiveOf
    <2>3. /\ DOMAIN T \subseteq DOMAIN tasks
          /\ \A u \in DOMAIN T : tasks[u] = 1 => u # a.task
        BY <1>1, <2>1, TakenFacts DEF Rest
    <2>4. \A u \in LiveOf(T) : u.kind \notin Chain
        BY <2>2, <2>3 DEF LiveOf
    <2>5. typed \subseteq {"password", "alerts"}
        BY <2>2, FieldsAre DEF Chain
    <2> QED
        BY <2>4, <2>5
<1> HIDE DEF T, typed
<1>7. Sound(U, page, (loading \ {kind}) \cup {"get"}, conf, typed, reloaded)
    <2>1. "get" \in Chain /\ "get" \in Reads
        BY DEF Chain, Reads
    <2>2. Sound(U, page, (loading \ {kind}) \cup {n.kind}, conf, typed, reloaded)
        <3> DEFINE busy == loading \ {kind}
        <3> HIDE DEF busy
        <3>1. Sound(T, page, busy, conf, typed, reloaded)
            BY <1>5 DEF busy
        <3>2. Sound(U, page, busy \cup {n.kind}, conf, typed, reloaded)
            BY <1>1, <1>3, <1>6, <2>1, <3>1, SoundRead
        <3> QED
            BY <3>2 DEF busy
    <2> QED
        BY <1>3, <2>2
<1>8. clean /\ ~Overlaps(T, page, "get") => Clear(U, page, conf, form, saved)
    BY <1>3, <1>4, <1>5, ClearRead DEF Reads
<1>9. OfForm(T, page) \subseteq OfForm(U, page)
    <2>1. DOMAIN U = DOMAIN T \cup {n}
        BY <1>3, <1>5, AddedFacts
    <2> HIDE DEF U
    <2> QED
        BY <2>1 DEF OfForm
<1> QED
    BY <1>2, <1>7, <1>8, <1>9 DEF T, typed

LEMMA GetUserDomainsKeeps == ASSUME Parts, GetUserDomainsAnswered PROVE Base'
<1>0. PICK a \in AnswersTo("domains") :
        /\ IF a.ok
           THEN /\ loading' = (loading \ {"domains"}) \cup {"get"}
                /\ tasks' = GetConfiguration(Rest(a))
                /\ clean' = (clean /\ ~Overlaps(Rest(a), page, "get"))
           ELSE loading' = loading \ {"domains"} /\ tasks' = Rest(a) /\ UNCHANGED clean
        /\ UNCHANGED <<Kept, form, saved, active, dirty, loaded>>
    BY DEF GetUserDomainsAnswered
<1> DEFINE T == Rest(a)
           U == Create(T, page, "get", Nothing)
<1>1. /\ page = "settings" /\ page \in Pages /\ a.ok \in BOOLEAN
      /\ Sound(T, page, loading \ {"domains"}, conf, dirty, reloaded)
    BY AnswerFacts
<1>3. Shapes /\ NotBlank(conf) /\ ActiveInv /\ DirtyInv /\ ReadInv /\ PageInv
    BY DEF Parts, Base
<1>2. /\ Sound(U, page, (loading \ {"domains"}) \cup {"get"}, conf, dirty, reloaded)
      /\ clean /\ ~Overlaps(T, page, "get") => Clear(U, page, conf, form, saved)
      /\ OfForm(T, page) \subseteq OfForm(U, page)
    <2>1. "domains" \in Chain /\ "domains" \notin Fields
        BY ReadsAre DEF Chain
    <2>2. dirty \ {"domains"} = dirty
        BY <1>3, <2>1 DEF Shapes
    <2> QED
        BY <2>1, <2>2, ReadNext
<1>4. /\ conf' = conf /\ page' = page /\ edits' = edits /\ reloaded' = reloaded /\ form' = form
      /\ saved' = saved /\ active' = active /\ dirty' = dirty /\ loaded' = loaded
    BY <1>0 DEF Kept
<1>5. clean => Clear(T, page, conf, form, saved) /\ OfForm(T, page) = OfForm(tasks, page)
    BY ClearAnswer
<1>6. ActiveInv' /\ DirtyInv' /\ ReadInv' /\ NotBlank(conf')
    BY <1>3, <1>4 DEF ActiveInv, DirtyInv, ReadInv
<1>7. CASE a.ok
    <2>1. /\ loading' = (loading \ {"domains"}) \cup {"get"} /\ tasks' = U
          /\ clean' = (clean /\ ~Overlaps(T, page, "get"))
        BY <1>0, <1>1, <1>7 DEF GetConfiguration
    <2> HIDE DEF U, T
    <2>2. Shapes'
        BY <1>3, <1>4, <2>1 DEF Shapes, Reads
    <2>3. Sound(tasks', page', loading', conf', dirty', reloaded')
        BY <1>2, <1>4, <2>1
    <2>4. PageInv'
        <3> SUFFICES ASSUME clean, ~Overlaps(T, page, "get")
                     PROVE  /\ Clear(U, page, conf, form, saved)
                            /\ loaded => Shows(U, page, conf, form, saved, dirty)
            BY <1>4, <2>1 DEF PageInv
        <3>1. loaded => Shows(tasks, page, conf, form, saved, dirty)
            BY <1>1, <1>3 DEF PageInv
        <3>2. OfForm(tasks, page) \subseteq OfForm(U, page)
            BY <1>2, <1>5
        <3> QED
            BY <1>2, <3>1, <3>2, ShowsMore
    <2> QED
        BY <1>6, <2>2, <2>3, <2>4 DEF Base
<1>8. CASE ~a.ok
    <2>1. loading' = loading \ {"domains"} /\ tasks' = T /\ clean' = clean
        BY <1>0, <1>8
    <2> HIDE DEF U, T
    <2>2. Shapes'
        BY <1>3, <1>4, <2>1 DEF Shapes
    <2>3. Sound(tasks', page', loading', conf', dirty', reloaded')
        BY <1>1, <1>4, <2>1
    <2>4. PageInv'
        <3> SUFFICES ASSUME clean
                     PROVE  /\ Clear(T, page, conf, form, saved)
                            /\ loaded => Shows(T, page, conf, form, saved, dirty)
            BY <1>4, <2>1 DEF PageInv
        <3>1. loaded => Shows(tasks, page, conf, form, saved, dirty)
            BY <1>1, <1>3 DEF PageInv
        <3> QED
            BY <1>5, <3>1, ShowsMore
    <2> QED
        BY <1>6, <2>2, <2>3, <2>4 DEF Base
<1> QED
    BY <1>1, <1>7, <1>8

LEMMA GetDefaultsKeeps == ASSUME Parts, GetDefaultsAnswered PROVE Base'
<1>0. PICK a \in AnswersTo("defaults") :
        /\ loading' = loading \ {"defaults"} /\ tasks' = Rest(a)
        /\ UNCHANGED <<Kept, form, saved, active, dirty, loaded, clean>>
    BY DEF GetDefaultsAnswered
<1> DEFINE T == Rest(a)
<1>1. /\ page \in Pages
      /\ Sound(T, page, loading \ {"defaults"}, conf, dirty, reloaded)
    BY AnswerFacts
<1>3. Shapes /\ NotBlank(conf) /\ ActiveInv /\ DirtyInv /\ ReadInv /\ PageInv
    BY DEF Parts, Base
<1>4. /\ conf' = conf /\ page' = page /\ edits' = edits /\ reloaded' = reloaded /\ form' = form
      /\ saved' = saved /\ active' = active /\ dirty' = dirty /\ loaded' = loaded
      /\ clean' = clean /\ tasks' = T /\ loading' = loading \ {"defaults"}
    BY <1>0 DEF Kept
<1>5. clean => Clear(T, page, conf, form, saved) /\ OfForm(T, page) = OfForm(tasks, page)
    BY ClearAnswer
<1> HIDE DEF T
<1>6. ActiveInv' /\ DirtyInv' /\ ReadInv' /\ NotBlank(conf')
    BY <1>3, <1>4 DEF ActiveInv, DirtyInv, ReadInv
<1>7. Shapes'
    BY <1>3, <1>4 DEF Shapes
<1>8. PageInv'
    <2> SUFFICES ASSUME clean
                 PROVE  /\ Clear(T, page, conf, form, saved)
                        /\ loaded => Shows(T, page, conf, form, saved, dirty)
        BY <1>4 DEF PageInv
    <2>1. loaded => Shows(tasks, page, conf, form, saved, dirty)
        BY <1>1, <1>3 DEF PageInv
    <2> QED
        BY <1>5, <2>1, ShowsMore
<1> QED
    BY <1>1, <1>4, <1>6, <1>7, <1>8 DEF Base

-----------------------------------------------------------------------------
(* The answers to savings.                                                 *)

\* Saved and read again: the form is what was saved.
LEMMA SavedThenReadKeeps ==
    ASSUME Parts, NEW kind \in {"hotel", "integrations", "config"}, NEW a \in AnswersTo(kind),
           SavedThenRead(a, Create(Rest(a), page, "get", Nothing))
    PROVE  Base'
<1> DEFINE T == Rest(a)
           U == Create(T, page, "get", Nothing)
<1>1. /\ page \in Pages /\ a.ok \in BOOLEAN /\ a.task.kind = kind /\ kind \in Fields
      /\ kind \in FieldsOf[page] /\ (a.ok => a.task.done) /\ a.task.page = page
      /\ Sound(T, page, loading \ {kind}, conf, dirty, reloaded)
    BY AnswerFacts, FieldsAre
<1>3. Shapes /\ NotBlank(conf) /\ ActiveInv /\ DirtyInv /\ ReadInv /\ PageInv
    BY DEF Parts, Base
<1>2. /\ Sound(U, page, (loading \ {kind}) \cup {"get"}, conf, dirty \ {kind}, reloaded)
      /\ clean /\ ~Overlaps(T, page, "get") => Clear(U, page, conf, form, saved)
    <2>1. kind \in Chain /\ kind # "get"
        BY DEF Chain
    <2>2. dirty \subseteq {kind, "password", "alerts"}
        <3>1. FieldsOf[page] \subseteq {kind, "password", "alerts"}
            BY <1>1, PagesAre, FieldsOfAre
        <3> QED
            BY <1>3, <3>1 DEF DirtyInv
    <2> QED
        BY <2>1, <2>2, ReadNext
<1>4. /\ conf' = conf /\ page' = page /\ edits' = edits /\ reloaded' = reloaded /\ form' = form
      /\ saved' = saved /\ active' = active /\ loaded' = loaded
    BY DEF SavedThenRead, Kept
<1>5. clean => /\ Clear(T, page, conf, form, saved) /\ OfForm(tasks, page) = {a.task}
               /\ CleanTask(a.task, page, conf, form, saved)
    BY <1>1, ClearAnswer
<1>6. ActiveInv' /\ ReadInv' /\ NotBlank(conf')
    BY <1>3, <1>4 DEF ActiveInv, ReadInv
<1>s. clean /\ loaded => /\ Shows(T, page, conf, form, saved, dirty)
                         /\ Shows(U, page, conf, form, saved, dirty)
    <2> SUFFICES ASSUME clean, loaded
                 PROVE  /\ Shows(T, page, conf, form, saved, dirty)
                        /\ Shows(U, page, conf, form, saved, dirty)
        OBVIOUS
    <2> HIDE DEF T, U
    <2>1. Shows(tasks, page, conf, form, saved, dirty)
        BY <1>1, <1>3 DEF PageInv
    <2>2. \A u \in OfForm(tasks, page) : u.kind \notin Recalled
        BY <1>1, <1>5 DEF Recalled
    <2> QED
        BY <2>1, <2>2, ShowsQuiet
<1>7. CASE a.ok
    <2>1. /\ loading' = (loading \ {kind}) \cup {"get"} /\ tasks' = U
          /\ dirty' = dirty \ {kind}
          /\ clean' = (clean /\ ~Overlaps(T, page, "get"))
        BY <1>1, <1>7 DEF SavedThenRead
    <2> HIDE DEF U, T
    <2>2. Shapes'
        BY <1>3, <1>4, <2>1 DEF Shapes, Reads
    <2>3. Sound(tasks', page', loading', conf', dirty', reloaded')
        BY <1>2, <1>4, <2>1
    <2>4. DirtyInv'
        BY <1>3, <1>4, <2>1 DEF DirtyInv
    <2>5. PageInv'
        <3> SUFFICES ASSUME clean, ~Overlaps(T, page, "get")
                     PROVE  /\ Clear(U, page, conf, form, saved)
                            /\ loaded => Shows(U, page, conf, form, saved, dirty \ {kind})
            BY <1>4, <2>1 DEF PageInv
        <3>1. form[kind] = conf[kind]
            <4>1. a.task.data[kind] = form[kind]
                BY <1>1, <1>5 DEF CleanTask
            <4>2. conf[kind] = a.task.data[kind]
                <5>1. kind \in WrittenBy(a.task)
                    BY <1>1 DEF WrittenBy
                <5> QED
                    BY <1>1, <1>5, <1>7, <5>1 DEF CleanTask
            <4> QED
                BY <4>1, <4>2
        <3>2. loaded => Shows(U, page, conf, form, saved, dirty \ {kind})
            BY <1>s, <3>1 DEF Shows, CleanForm
        <3> QED
            BY <1>2, <3>2
    <2> QED
        BY <1>6, <2>2, <2>3, <2>4, <2>5 DEF Base
<1>8. CASE ~a.ok
    <2>1. loading' = loading \ {kind} /\ tasks' = T /\ dirty' = dirty /\ clean' = clean
        BY <1>1, <1>8 DEF SavedThenRead
    <2> HIDE DEF U, T
    <2>2. Shapes'
        BY <1>3, <1>4, <2>1 DEF Shapes
    <2>3. Sound(tasks', page', loading', conf', dirty', reloaded')
        BY <1>1, <1>4, <2>1
    <2>4. DirtyInv'
        BY <1>3, <1>4, <2>1 DEF DirtyInv
    <2>5. PageInv'
        BY <1>4, <1>5, <1>s, <2>1 DEF PageInv
    <2> QED
        BY <1>6, <2>2, <2>3, <2>4, <2>5 DEF Base
<1> QED
    BY <1>1, <1>7, <1>8

LEMMA SetHotelAnswerKeeps == ASSUME Parts, SetHotelAnswered PROVE Base'
<1>1. PICK a \in AnswersTo("hotel") : SavedThenRead(a, GetHotel(Rest(a)))
    BY DEF SetHotelAnswered
<1>2. page = "hotel"
    <2>1. page \in Pages /\ "hotel" \in FieldsOf[page]
        BY <1>1, AnswerFacts, FieldsAre
    <2> QED
        BY <2>1, PagesAre, FieldsOfAre
<1>3. SavedThenRead(a, Create(Rest(a), page, "get", Nothing))
    BY <1>1, <1>2 DEF GetHotel
<1> QED
    BY <1>3, SavedThenReadKeeps

LEMMA SetIntegrationsAnswerKeeps == ASSUME Parts, SetIntegrationsAnswered PROVE Base'
<1>1. PICK a \in AnswersTo("integrations") : SavedThenRead(a, GetIntegrations(Rest(a)))
    BY DEF SetIntegrationsAnswered
<1>2. page = "integrations"
    <2>1. page \in Pages /\ "integrations" \in FieldsOf[page]
        BY <1>1, AnswerFacts, FieldsAre
    <2> QED
        BY <2>1, PagesAre, FieldsOfAre
<1>3. SavedThenRead(a, Create(Rest(a), page, "get", Nothing))
    BY <1>1, <1>2 DEF GetIntegrations
<1> QED
    BY <1>3, SavedThenReadKeeps

LEMMA ConfigureModuleAnswerKeeps == ASSUME Parts, ConfigureModuleAnswered PROVE Base'
<1>1. PICK a \in AnswersTo("config") : SavedThenRead(a, GetConfiguration(Rest(a)))
    BY DEF ConfigureModuleAnswered
<1>2. page = "settings"
    <2>1. page \in Pages /\ "config" \in FieldsOf[page]
        BY <1>1, AnswerFacts, FieldsAre
    <2> QED
        BY <2>1, PagesAre, FieldsOfAre
<1>3. SavedThenRead(a, Create(Rest(a), page, "get", Nothing))
    BY <1>1, <1>2 DEF GetConfiguration
<1> QED
    BY <1>3, SavedThenReadKeeps

LEMMA SetAlertsAnswerKeeps == ASSUME Parts, SetAlertsAnswered PROVE Base'
<1>0. PICK a \in AnswersTo("alerts") :
        /\ IF a.ok
           THEN saved' = [saved EXCEPT !["alerts"] = form["alerts"]] /\ UNCHANGED form
           ELSE form' = [form EXCEPT !["alerts"] = saved["alerts"]] /\ UNCHANGED saved
        /\ dirty' = dirty \ {"alerts"}
        /\ loading' = loading \ {"alerts"} /\ tasks' = Rest(a)
        /\ clean' = (clean /\ Faithful(a))
        /\ UNCHANGED <<Kept, active, loaded>>
    BY DEF SetAlertsAnswered
<1> DEFINE T == Rest(a)
<1>1. /\ page \in Pages /\ a.ok \in BOOLEAN /\ a.task.kind = "alerts" /\ "alerts" \in FieldsOf[page]
      /\ (a.ok => a.task.done) /\ a.task.page = page
      /\ Sound(T, page, loading \ {"alerts"}, conf, dirty, reloaded)
    BY AnswerFacts, FieldsAre
<1>3. Shapes /\ NotBlank(conf) /\ ActiveInv /\ DirtyInv /\ ReadInv /\ PageInv
    BY DEF Parts, Base
<1>4. /\ conf' = conf /\ page' = page /\ edits' = edits /\ reloaded' = reloaded
      /\ dirty' = dirty \ {"alerts"}
      /\ active' = active /\ loaded' = loaded /\ clean' = (clean /\ Faithful(a))
      /\ tasks' = T /\ loading' = loading \ {"alerts"}
    BY <1>0 DEF Kept
<1>o. a.ok => saved' = [saved EXCEPT !["alerts"] = form["alerts"]] /\ form' = form
    BY <1>0
<1>f. ~a.ok => form' = [form EXCEPT !["alerts"] = saved["alerts"]] /\ saved' = saved
    BY <1>0
<1>5. clean => /\ OfForm(tasks, page) = {a.task} /\ OfForm(T, page) = {}
               /\ CleanTask(a.task, page, conf, form, saved)
    BY ClearAnswer, FieldsAre
<1> HIDE DEF T
<1>6. page = "settings" /\ FieldsOf[page] = {"config", "alerts", "password"} /\ ~active
    <2>1. page = "settings"
        BY <1>1, PagesAre, FieldsOfAre
    <2> QED
        BY <1>3, <2>1, FieldsOfAre DEF ActiveInv
<1>7. Shapes'
    <2>1. form' \in [Fields -> Values] /\ saved' \in [Fields -> Values]
        BY <1>o, <1>f, <1>1, <1>3, FieldsAre DEF Shapes
    <2> QED
        BY <1>3, <1>4, <2>1 DEF Shapes
<1>8. ActiveInv' /\ DirtyInv' /\ ReadInv' /\ NotBlank(conf')
    BY <1>3, <1>4, <1>6 DEF ActiveInv, DirtyInv, ReadInv
<1>9. PageInv'
    <2> SUFFICES ASSUME clean, Faithful(a)
                 PROVE  /\ Clear(T, page, conf, form', saved')
                        /\ loaded => Shows(T, page, conf, form', saved', dirty')
        BY <1>4 DEF PageInv
    <2>1. Clear(T, page, conf, form', saved')
        BY <1>5 DEF Clear, CleanTasks, CleanData
    <2>2. ASSUME loaded
          PROVE  Shows(T, page, conf, form', saved', dirty')
        <3>1. CleanForm(page, conf, form, dirty) /\ CleanSaved(tasks, page, conf, saved)
            BY <1>1, <1>3, <2>2 DEF PageInv, Shows
        <3>2. "config" \notin dirty => form["config"] = conf["config"]
            BY <1>6, <3>1 DEF CleanForm
        <3>3. form'["config"] = form["config"]
            BY <1>o, <1>f, <1>1, <1>3, FieldsAre DEF Shapes
        <3>4. form'["alerts"] = conf["alerts"] /\ saved'["alerts"] = conf["alerts"]
            <4>1. CASE a.ok
                <5>1. "alerts" \in Fields /\ "alerts" \in WrittenBy(a.task)
                    BY <1>1, <1>6, FieldsAre DEF WrittenBy
                <5>2. a.task.data["alerts"] = form["alerts"] /\ conf["alerts"] = a.task.data["alerts"]
                    BY <1>1, <1>5, <4>1, <5>1 DEF CleanTask
                <5> QED
                    BY <1>o, <1>3, <4>1, <5>1, <5>2 DEF Shapes
            <4>2. CASE ~a.ok
                <5>1. ~Told(tasks, page)
                    BY <1>1, <1>5, <4>2 DEF Told, Faithful
                <5>2. saved["alerts"] = conf["alerts"]
                    BY <1>1, <3>1, <5>1 DEF CleanSaved, Recalled
                <5> QED
                    BY <1>f, <1>3, <4>2, <5>2, FieldsAre DEF Shapes
            <4> QED
                BY <1>1, <4>1, <4>2
        <3>5. CleanForm(page, conf, form', dirty')
            BY <1>4, <1>6, <3>2, <3>3, <3>4 DEF CleanForm
        <3>6. CleanSaved(T, page, conf, saved')
            BY <1>6, <3>4 DEF CleanSaved, Recalled
        <3> QED
            BY <3>5, <3>6 DEF Shows
    <2> QED
        BY <2>1, <2>2
<1>10. Sound(tasks', page', loading', conf', dirty', reloaded')
    BY <1>1, <1>4, SoundTyped
<1> QED
    BY <1>7, <1>8, <1>9, <1>10 DEF Base

LEMMA SetAdminPasswordAnswerKeeps == ASSUME Parts, SetAdminPasswordAnswered PROVE Base'
<1>0. PICK a \in AnswersTo("password") :
        /\ IF a.ok
           THEN form' = [form EXCEPT !["password"] = 0] /\ dirty' = dirty \ {"password"}
           ELSE UNCHANGED <<form, dirty>>
        /\ loading' = loading \ {"password"} /\ tasks' = Rest(a)
        /\ UNCHANGED <<Kept, saved, active, loaded, clean>>
    BY DEF SetAdminPasswordAnswered
<1> DEFINE T == Rest(a)
<1>1. /\ page \in Pages /\ a.ok \in BOOLEAN /\ a.task.kind = "password"
      /\ "password" \in FieldsOf[page]
      /\ Sound(T, page, loading \ {"password"}, conf, dirty, reloaded)
    BY AnswerFacts, FieldsAre
<1>3. Shapes /\ NotBlank(conf) /\ ActiveInv /\ DirtyInv /\ ReadInv /\ PageInv
    BY DEF Parts, Base
<1>4. /\ conf' = conf /\ page' = page /\ edits' = edits /\ reloaded' = reloaded /\ saved' = saved
      /\ active' = active /\ loaded' = loaded /\ clean' = clean
      /\ tasks' = T /\ loading' = loading \ {"password"}
    BY <1>0 DEF Kept
<1>f. /\ form' = form \/ form' = [form EXCEPT !["password"] = 0]
      /\ dirty' \in SUBSET dirty /\ dirty \subseteq dirty' \cup {"password"}
    BY <1>0, <1>1
<1>5. clean => OfForm(tasks, page) = {a.task} /\ OfForm(T, page) = {}
    BY ClearAnswer, FieldsAre
<1> HIDE DEF T
<1>6. page = "settings" /\ ~active
    <2>1. page = "settings"
        BY <1>1, PagesAre, FieldsOfAre
    <2> QED
        BY <1>3, <2>1 DEF ActiveInv
<1>t. form' \in [Fields -> Values] /\ \A f \in Fields : f # "password" => form'[f] = form[f]
    <2>1. 0 \in Values
        BY PagesAssumption DEF Values
    <2> QED
        BY <1>f, <1>3, <2>1 DEF Shapes
<1>7. Shapes'
    BY <1>3, <1>4, <1>f, <1>t DEF Shapes
<1>8. ActiveInv' /\ DirtyInv' /\ ReadInv' /\ NotBlank(conf')
    BY <1>3, <1>4, <1>6, <1>f DEF ActiveInv, DirtyInv, ReadInv
<1>9. PageInv'
    <2> SUFFICES ASSUME clean
                 PROVE  /\ Clear(T, page, conf, form', saved)
                        /\ loaded => Shows(T, page, conf, form', saved, dirty')
        BY <1>4 DEF PageInv
    <2>1. Clear(T, page, conf, form', saved)
        BY <1>5 DEF Clear, CleanTasks, CleanData
    <2>2. ASSUME loaded
          PROVE  Shows(T, page, conf, form', saved, dirty')
        <3>1. Shows(tasks, page, conf, form, saved, dirty)
            BY <1>1, <1>3, <2>2 DEF PageInv
        <3>2. \A u \in OfForm(tasks, page) : u.kind \notin Recalled
            BY <1>1, <1>5 DEF Recalled
        <3>3. Shows(T, page, conf, form, saved, dirty)
            BY <3>1, <3>2, ShowsQuiet
        <3> QED
            BY <1>1, <1>f, <1>t, <3>3, OnePage DEF Shows, CleanForm
    <2> QED
        BY <2>1, <2>2
<1>10. Sound(tasks', page', loading', conf', dirty', reloaded')
    BY <1>1, <1>4, <1>f, SoundTyped
<1> QED
    BY <1>7, <1>8, <1>9, <1>10 DEF Base

LEMMA SetRebrandingAnswerKeeps == ASSUME Parts, SetRebrandingAnswered PROVE Base'
<1>0. PICK a \in AnswersTo("name") \cup AnswersTo("look") :
        /\ saved' = IF a.ok THEN a.task.data ELSE saved
        /\ dirty' = IF a.ok THEN dirty \ {a.task.kind} ELSE dirty
        /\ loading' = loading \ {a.task.kind} /\ tasks' = Rest(a)
        /\ clean' = (clean /\ Faithful(a))
        /\ UNCHANGED <<Kept, form, active, loaded>>
    BY DEF SetRebrandingAnswered
<1>k. PICK kind \in Brand : a \in AnswersTo(kind)
    BY BrandIs
<1> DEFINE T == Rest(a)
           data == a.task.data
<1>1. /\ page \in Pages /\ a.ok \in BOOLEAN /\ a.task.kind = kind /\ kind \in FieldsOf[page]
      /\ (a.ok => a.task.done) /\ a.task.page = page /\ FullTask(a.task)
      /\ data \in [Fields -> Values]
      /\ Sound(T, page, loading \ {kind}, conf, dirty, reloaded)
    BY <1>k, AnswerFacts, BrandIs
<1>3. Shapes /\ NotBlank(conf) /\ ActiveInv /\ DirtyInv /\ ReadInv /\ PageInv
    BY DEF Parts, Base
<1>4. /\ conf' = conf /\ page' = page /\ edits' = edits /\ reloaded' = reloaded /\ form' = form
      /\ active' = active /\ loaded' = loaded /\ clean' = (clean /\ Faithful(a))
      /\ tasks' = T /\ loading' = loading \ {kind}
    BY <1>0, <1>1 DEF Kept
<1>o. a.ok => saved' = data /\ dirty' = dirty \ {kind}
    BY <1>0, <1>1
<1>f. ~a.ok => saved' = saved /\ dirty' = dirty
    BY <1>0
<1>5. clean => /\ OfForm(tasks, page) = {a.task} /\ OfForm(T, page) = {}
               /\ CleanTask(a.task, page, conf, form, saved)
    BY <1>k, ClearAnswer, BrandIs
<1> HIDE DEF T, data
<1>6. page = "rebranding" /\ FieldsOf[page] = Brand
    BY <1>1, OnePage, PagesAre DEF Brand
<1>7. Shapes'
    <2>1. saved' \in [Fields -> Values] /\ dirty' \subseteq Fields
        BY <1>o, <1>f, <1>1, <1>3 DEF Shapes
    <2> QED
        BY <1>3, <1>4, <2>1 DEF Shapes
<1>8. DirtyInv' /\ ReadInv' /\ NotBlank(conf')
    <2>1. dirty' \subseteq dirty
        BY <1>o, <1>f, <1>1
    <2> QED
        BY <1>3, <1>4, <2>1 DEF DirtyInv, ReadInv
<1>a. ActiveInv'
    <2>1. Full(data)
        BY <1>1 DEF FullTask, data
    <2>2. active => Full(saved')
        BY <1>o, <1>f, <1>1, <1>3, <2>1 DEF ActiveInv
    <2> QED
        BY <1>3, <1>4, <2>2 DEF ActiveInv
<1>9. PageInv'
    <2> SUFFICES ASSUME clean, Faithful(a)
                 PROVE  /\ Clear(T, page, conf, form, saved')
                        /\ loaded => Shows(T, page, conf, form, saved', dirty')
        BY <1>4 DEF PageInv
    <2>1. Clear(T, page, conf, form, saved')
        BY <1>5 DEF Clear, CleanTasks, CleanData
    <2>2. ASSUME loaded
          PROVE  Shows(T, page, conf, form, saved', dirty')
        <3>1. CleanForm(page, conf, form, dirty) /\ CleanSaved(tasks, page, conf, saved)
            BY <1>1, <1>3, <2>2 DEF PageInv, Shows
        <3>2. \A f \in Brand \ dirty : form[f] = conf[f]
            BY <1>6, <3>1, BrandIs DEF CleanForm
        <3>3. CASE a.ok
            <4>1. WrittenBy(a.task) = Brand /\ kind \in Fields
                BY <1>1, BrandIs DEF WrittenBy
            <4>2. data[kind] = form[kind] /\ \A f \in Brand : conf[f] = data[f]
                BY <1>1, <1>5, <3>3, <4>1 DEF CleanTask, data
            <4>3. form[kind] = conf[kind]
                BY <4>2
            <4>4. CleanForm(page, conf, form, dirty')
                BY <1>o, <1>6, <3>2, <3>3, <4>3 DEF CleanForm
            <4>5. CleanSaved(T, page, conf, saved')
                BY <1>o, <1>6, <3>3, <4>2 DEF CleanSaved
            <4> QED
                BY <4>4, <4>5 DEF Shows
        <3>4. CASE ~a.ok
            <4>1. ~Told(tasks, page)
                BY <1>1, <1>5, <3>4 DEF Told, Faithful
            <4>2. CleanSaved(T, page, conf, saved')
                BY <1>f, <3>1, <3>4, <4>1 DEF CleanSaved
            <4>3. CleanForm(page, conf, form, dirty')
                BY <1>f, <1>6, <3>2, <3>4 DEF CleanForm
            <4> QED
                BY <4>2, <4>3 DEF Shows
        <3> QED
            BY <1>1, <3>3, <3>4
    <2> QED
        BY <2>1, <2>2
<1>10. Sound(tasks', page', loading', conf', dirty', reloaded')
    <2>1. dirty' \in SUBSET dirty
        BY <1>o, <1>f, <1>1
    <2> QED
        BY <1>1, <1>4, <2>1, SoundTyped
<1> QED
    BY <1>7, <1>8, <1>a, <1>9, <1>10 DEF Base

-----------------------------------------------------------------------------
(* The page is opened, or read again.                                      *)

LEMMA ReadAdded ==
    ASSUME NEW T, NEW p \in Pages, NEW kind \in Reads, NEW busy, NEW c, NEW typed, NEW again,
           Sound(T, p, busy, c, typed, again),
           kind \in {"domains", "defaults"} => p = "settings",
           ~again => \A u \in LiveOf(T) : u.kind # kind /\ (kind \in Chain => u.kind \notin Chain),
           ~again /\ kind \in Chain => typed \subseteq {"password", "alerts"}
    PROVE  LET U == Create(T, p, kind, Nothing) IN
           /\ Sound(U, p, busy \cup {kind}, c, typed, again)
           /\ \A u \in LiveOf(U) : u \in LiveOf(T) \/ u.kind = kind
           /\ OfForm(T, p) \subseteq OfForm(U, p)
           /\ \A shown, last : Clear(T, p, c, shown, last) /\ (kind = "get" => OfForm(T, p) = {}) =>
                 Clear(U, p, c, shown, last)
<1> DEFINE n == NewTask(p, kind, Nothing, TRUE)
           U == T (+) One(n)
<1>1. Create(T, p, kind, Nothing) = U
    BY CreateRead
<1>2. n \in Task /\ n.page = p /\ n.kind = kind /\ n.live = TRUE /\ n.done = FALSE
    BY ReadTask
<1>3. IsTasks(T)
    BY DEF Sound
<1> HIDE DEF n
<1>4. DOMAIN U = DOMAIN T \cup {n}
    BY <1>2, <1>3, AddedFacts
<1>5. Sound(U, p, busy \cup {n.kind}, c, typed, again)
    BY <1>2, SoundRead
<1>6. ASSUME NEW shown, NEW last, Clear(T, p, c, shown, last), kind = "get" => OfForm(T, p) = {}
      PROVE  Clear(U, p, c, shown, last)
    <2>1. n.kind = "get" => ~Overlaps(T, p, "get")
        BY <1>2, <1>6 DEF Overlaps
    <2> QED
        BY <1>2, <1>3, <1>6, <2>1, ClearRead
<1> HIDE DEF U
<1>7. /\ \A u \in LiveOf(U) : u \in LiveOf(T) \/ u.kind = kind
      /\ OfForm(T, p) \subseteq OfForm(U, p)
    BY <1>2, <1>4 DEF LiveOf, OfForm
<1> QED
    BY <1>1, <1>2, <1>5, <1>6, <1>7

\* The two readings that Settings.vue starts with.
LEMMA LoadConfigFacts ==
    ASSUME NEW T, NEW busy, NEW c, NEW typed, NEW again,
           Sound(T, "settings", busy, c, typed, again),
           ~again => LiveOf(T) = {} /\ typed \subseteq {"password", "alerts"}
    PROVE  LET U == LoadConfig(T) IN
           /\ Sound(U, "settings", busy \cup {"domains", "defaults"}, c, typed, again)
           /\ OfForm(T, "settings") \subseteq OfForm(U, "settings")
           /\ \A shown, last : Clear(T, "settings", c, shown, last) =>
                 Clear(U, "settings", c, shown, last)
<1> DEFINE V == Create(T, "settings", "domains", Nothing)
           U == Create(V, "settings", "defaults", Nothing)
<1>1. "settings" \in Pages /\ "domains" \in Reads /\ "defaults" \in Reads /\ "defaults" \notin Chain
    BY PagesAre DEF Reads, Chain
<1>2. LoadConfig(T) = U
    BY DEF LoadConfig, GetDefaults, GetUserDomains
<1>3. /\ Sound(V, "settings", busy \cup {"domains"}, c, typed, again)
      /\ \A u \in LiveOf(V) : u \in LiveOf(T) \/ u.kind = "domains"
      /\ OfForm(T, "settings") \subseteq OfForm(V, "settings")
      /\ \A shown, last : Clear(T, "settings", c, shown, last) =>
            Clear(V, "settings", c, shown, last)
    BY <1>1, ReadAdded
<1> HIDE DEF V
<1>4. ~again => \A u \in LiveOf(V) : u.kind # "defaults"
    BY <1>3
<1> DEFINE more == busy \cup {"domains"}
<1> HIDE DEF more
<1>5. Sound(V, "settings", more, c, typed, again)
    BY <1>3 DEF more
<1>6. /\ Sound(U, "settings", more \cup {"defaults"}, c, typed, again)
      /\ OfForm(V, "settings") \subseteq OfForm(U, "settings")
      /\ \A shown, last : Clear(V, "settings", c, shown, last) =>
            Clear(U, "settings", c, shown, last)
    BY <1>1, <1>4, <1>5, ReadAdded
<1>7. more \cup {"defaults"} = busy \cup {"domains", "defaults"}
    BY DEF more
<1> HIDE DEF U
<1> QED
    BY <1>2, <1>3, <1>6, <1>7

\* What created() of a page starts with, after the last page's tasks.
LEMMA CreatedFacts ==
    ASSUME NEW p \in Pages, NEW T, NEW c,
           Sound(T, p, {}, c, {}, FALSE), LiveOf(T) = {}
    PROVE  /\ Sound(CreatedTasks(p, T), p, CreatedLoading(p), c, {}, FALSE)
           /\ \A shown, last : OfForm(T, p) = {} => Clear(CreatedTasks(p, T), p, c, shown, last)
<1>1. \A shown, last : OfForm(T, p) = {} => Clear(T, p, c, shown, last)
    BY DEF Clear, CleanTasks, CleanData
<1>2. CASE p = "settings"
    <2>1. CreatedTasks(p, T) = LoadConfig(T) /\ CreatedLoading(p) = {} \cup {"domains", "defaults"}
        BY <1>2 DEF CreatedTasks, CreatedLoading
    <2>2. Sound(T, "settings", {}, c, {}, FALSE)
        BY <1>2
    <2>3. /\ Sound(LoadConfig(T), "settings", {} \cup {"domains", "defaults"}, c, {}, FALSE)
          /\ \A shown, last : Clear(T, "settings", c, shown, last) =>
                Clear(LoadConfig(T), "settings", c, shown, last)
        BY <2>2, LoadConfigFacts
    <2> QED
        BY <1>1, <1>2, <2>1, <2>3
<1>3. CASE p # "settings"
    <2> DEFINE U == Create(T, p, "get", Nothing)
    <2>1. CreatedTasks(p, T) = U
        BY <1>3, PagesAre
           DEF CreatedTasks, GetHotel, GetIntegrations, GetRebranding
    <2>2. CreatedLoading(p) = {} \cup {"get"}
        BY <1>3 DEF CreatedLoading
    <2>3. /\ Sound(U, p, {} \cup {"get"}, c, {}, FALSE)
          /\ \A shown, last : Clear(T, p, c, shown, last) /\ ("get" = "get" => OfForm(T, p) = {}) =>
                Clear(U, p, c, shown, last)
        <3>1. "get" \in Reads /\ "get" \notin {"domains", "defaults"}
            BY DEF Reads
        <3> HIDE DEF U
        <3> QED
            BY <3>1, ReadAdded DEF U
    <2> HIDE DEF U
    <2> QED
        BY <1>1, <2>1, <2>2, <2>3
<1> QED
    BY <1>2, <1>3

LEMMA OpenPageKeeps == ASSUME Parts, NEW p \in Pages, OpenPage(p) PROVE Base'
<1> DEFINE L == Left(tasks)
           C == CreatedTasks(p, L)
<1>1. /\ page' = p /\ form' = Nothing /\ saved' = Nothing /\ active' = FALSE
      /\ loading' = CreatedLoading(p) /\ tasks' = C
      /\ dirty' = {} /\ loaded' = FALSE /\ reloaded' = FALSE
      /\ clean' = (OfForm(L, p) = {}) /\ conf' = conf /\ edits' = edits
    BY DEF OpenPage
<1>2. Sound(L, p, {}, conf, {}, FALSE) /\ LiveOf(L) = {}
    <2>1. Sound(tasks, page, loading, conf, dirty, reloaded)
        BY DEF Parts, Base
    <2> QED
        BY <2>1, SoundLeft
<1> HIDE DEF L
<1>3. /\ Sound(C, p, CreatedLoading(p), conf, {}, FALSE)
      /\ OfForm(L, p) = {} => Clear(C, p, conf, Nothing, Nothing)
    BY <1>2, CreatedFacts
<1> HIDE DEF C
<1>4. Shapes /\ NotBlank(conf)
    BY DEF Parts, Base
<1>5. Nothing \in [Fields -> Values]
    BY PagesAssumption DEF Nothing, Values
<1>6. CreatedLoading(p) \subseteq Reads \cup Fields
    BY DEF CreatedLoading, Reads
<1>7. Shapes'
    BY <1>1, <1>4, <1>5, <1>6 DEF Shapes
<1>8. Sound(tasks', page', loading', conf', dirty', reloaded')
    BY <1>1, <1>3
<1>9. ActiveInv' /\ DirtyInv' /\ ReadInv' /\ NotBlank(conf')
    BY <1>1, <1>4 DEF ActiveInv, DirtyInv, ReadInv
<1>10. PageInv'
    BY <1>1, <1>3 DEF PageInv
<1> QED
    BY <1>7, <1>8, <1>9, <1>10 DEF Base

LEMMA ReloadConfigKeeps == ASSUME Parts, ReloadConfig PROVE Base'
<1> DEFINE U == LoadConfig(tasks)
<1>1. /\ page = "settings" /\ reloaded' = TRUE /\ tasks' = U
      /\ loading' = loading \cup {"domains", "defaults"}
      /\ conf' = conf /\ page' = page /\ form' = form /\ saved' = saved /\ active' = active
      /\ edits' = edits /\ dirty' = dirty /\ loaded' = loaded /\ clean' = clean
    BY DEF ReloadConfig
<1>2. Shapes /\ NotBlank(conf) /\ ActiveInv /\ DirtyInv /\ ReadInv /\ PageInv
    BY DEF Parts, Base
<1>3. Sound(tasks, "settings", loading, conf, dirty, TRUE)
    BY <1>1 DEF Parts, Base, Sound
<1>4. /\ Sound(U, "settings", loading \cup {"domains", "defaults"}, conf, dirty, TRUE)
      /\ OfForm(tasks, "settings") \subseteq OfForm(U, "settings")
      /\ Clear(tasks, "settings", conf, form, saved) => Clear(U, "settings", conf, form, saved)
    BY <1>3, LoadConfigFacts
<1> HIDE DEF U
<1>5. Shapes'
    BY <1>1, <1>2 DEF Shapes, Reads
<1>6. Sound(tasks', page', loading', conf', dirty', reloaded')
    BY <1>1, <1>4
<1>7. ActiveInv' /\ DirtyInv' /\ ReadInv' /\ NotBlank(conf')
    BY <1>1, <1>2 DEF ActiveInv, DirtyInv, ReadInv
<1>8. PageInv'
    <2> SUFFICES ASSUME clean
                 PROVE  /\ Clear(U, page, conf, form, saved)
                        /\ loaded => Shows(U, page, conf, form, saved, dirty)
        BY <1>1 DEF PageInv
    <2>1. /\ Clear(tasks, page, conf, form, saved)
          /\ loaded => Shows(tasks, page, conf, form, saved, dirty)
        BY <1>1, <1>2, PagesAre DEF PageInv
    <2> QED
        BY <1>1, <1>4, <2>1, ShowsMore
<1> QED
    BY <1>5, <1>6, <1>7, <1>8 DEF Base

-----------------------------------------------------------------------------
(* The user types and saves.                                               *)

\* An open form: it is not being saved, and where the other forms of the page count,
\* neither are they; in Rebranding.vue it was read.
LEMMA OpenFacts ==
    ASSUME Parts, NEW f, FormOpen(f)
    PROVE  /\ page \in Pages /\ f \in FieldsOf[page] /\ f \in Fields /\ f \notin loading
           /\ f \in Brand => page = "rebranding" /\ active
           /\ f \notin Brand => loading = {}
           /\ \A t \in DOMAIN tasks : t.live /\ t.kind \in Fields => t.kind # f
           /\ ~reloaded /\ f \notin Brand => LiveOf(tasks) = {}
           /\ ~reloaded => \A t \in LiveOf(tasks) : t.kind \notin {"get", "domains"}
<1>1. page \in Pages /\ f \in FieldsOf[page] /\ f \in Fields
    BY OnePage DEF FormOpen
<1>2. f \in Brand <=> page = "rebranding"
    BY <1>1, OnePage, PagesAre DEF Brand
<1>3. /\ f \notin loading
      /\ f \in Brand => page = "rebranding" /\ active /\ "get" \notin loading
      /\ f \notin Brand => loading = {}
    BY <1>2 DEF FormOpen
<1>4. /\ WritesInv(tasks, loading) /\ IsTasks(tasks) /\ TasksInv(tasks, page)
      /\ ~reloaded => ChainInv(tasks, loading, dirty)
    BY DEF Parts, Base, Sound
<1>5. \A t \in DOMAIN tasks : t.live /\ t.kind \in Fields => t.kind # f
    BY <1>3, <1>4 DEF WritesInv, Writes
<1>6. ~reloaded => \A t \in LiveOf(tasks) : t.kind \in loading
    BY <1>4 DEF ChainInv
<1>7. ~reloaded => \A t \in LiveOf(tasks) : t.kind \notin {"get", "domains"}
    <2>1. \A t \in LiveOf(tasks) : t.kind = "domains" => page = "settings"
        BY <1>4 DEF TasksInv, OwnTask, LiveOf
    <2> QED
        BY <1>2, <1>3, <1>6, <2>1
<1> QED
    BY <1>1, <1>3, <1>5, <1>6, <1>7

LEMMA TypeKeeps == ASSUME Parts, NEW f \in Fields, Type(f) PROVE Base'
<1>1. /\ FormOpen(f) /\ edits < MaxEdits
      /\ edits' = edits + 1 /\ form' = [form EXCEPT ![f] = edits + 2]
      /\ dirty' = dirty \cup {f}
      /\ conf' = conf /\ page' = page /\ saved' = saved /\ active' = active
      /\ loading' = loading /\ tasks' = tasks /\ loaded' = loaded /\ clean' = clean
      /\ reloaded' = reloaded
    BY DEF Type
<1>2. /\ page \in Pages /\ f \in FieldsOf[page]
      /\ \A t \in DOMAIN tasks : t.live /\ t.kind \in Fields => t.kind # f
      /\ ~reloaded => \A t \in LiveOf(tasks) : t.kind \notin {"get", "domains"}
    BY <1>1, OpenFacts
<1>3. Shapes /\ NotBlank(conf) /\ ActiveInv /\ DirtyInv /\ ReadInv /\ PageInv
    BY DEF Parts, Base
<1>4. edits + 2 \in Values /\ edits + 1 \in 0..MaxEdits /\ edits + 2 # 0
    BY <1>1, <1>3, PagesAssumption DEF Shapes, Values
<1>5. /\ form' \in [Fields -> Values] /\ form'[f] = edits + 2
      /\ \A g \in Fields : g # f => form'[g] = form[g]
    BY <1>1, <1>3, <1>4 DEF Shapes
<1>6. Shapes'
    BY <1>1, <1>3, <1>4, <1>5 DEF Shapes
<1>7. Sound(tasks', page', loading', conf', dirty', reloaded')
    <2>1. Sound(tasks, page, loading, conf, dirty, reloaded)
        BY DEF Parts, Base
    <2>2. ~reloaded => ChainInv(tasks, loading, dirty \cup {f})
        BY <1>2, <2>1 DEF Sound, ChainInv
    <2> QED
        BY <1>1, <2>1, <2>2 DEF Sound
<1>8. ActiveInv' /\ DirtyInv' /\ ReadInv' /\ NotBlank(conf')
    <2>1. ActiveInv'
        BY <1>1, <1>3, <1>4, <1>5, BrandIs DEF ActiveInv, Full
    <2> QED
        BY <1>1, <1>2, <1>3, <2>1 DEF DirtyInv, ReadInv
<1>9. PageInv'
    <2> SUFFICES ASSUME clean
                 PROVE  /\ Clear(tasks, page, conf, form', saved)
                        /\ loaded => Shows(tasks, page, conf, form', saved, dirty')
        BY <1>1 DEF PageInv
    <2>1. /\ Clear(tasks, page, conf, form, saved)
          /\ loaded => Shows(tasks, page, conf, form, saved, dirty)
        BY <1>2, <1>3 DEF PageInv
    <2>2. \A t \in OfForm(tasks, page) : t.live /\ (t.kind \in Fields => form'[t.kind] = form[t.kind])
        BY <1>2, <1>5, <2>1 DEF Clear, CleanTasks, OfForm
    <2>3. Clear(tasks, page, conf, form', saved)
        BY <2>1, <2>2 DEF Clear, CleanData, CleanTask
    <2>4. loaded => Shows(tasks, page, conf, form', saved, dirty')
        BY <1>1, <1>2, <1>5, <2>1, OnePage DEF Shows, CleanForm
    <2> QED
        BY <2>3, <2>4
<1> QED
    BY <1>6, <1>7, <1>8, <1>9 DEF Base

\* A form is saved: what it sends is what it shows, and the rest as it was last known.
LEMMA SubmitKeeps ==
    ASSUME Parts, NEW f, FormOpen(f), NEW data \in [Fields -> Values], Submit(f, data),
           data[f] = form[f],
           f \in {"config", "alerts", "password"} => data[f] # 0,
           f \in Brand => Full(data) /\ \A g \in Brand \ {f} : data[g] = saved[g]
    PROVE  Base'
<1> DEFINE alone == clean /\ ~Overlaps(tasks, page, f)
           n == NewTask(page, f, data, alone)
           U == Meet(tasks, page) (+) One(n)
<1>1. /\ page \in Pages /\ f \in FieldsOf[page] /\ f \in Fields /\ f \notin loading
      /\ f \in Brand => page = "rebranding" /\ active
      /\ ~reloaded /\ f \notin Brand => LiveOf(tasks) = {}
    BY OpenFacts
<1>2. Shapes /\ NotBlank(conf) /\ ActiveInv /\ DirtyInv /\ ReadInv /\ PageInv
    BY DEF Parts, Base
<1>r. f \notin Reads /\ f # "get"
    BY <1>1, ReadsAre
<1>3. tasks' = U
    BY <1>1, <1>r DEF Submit, Create, NewTask
<1>4. /\ loading' = loading \cup {f} /\ clean' = alone
      /\ conf' = conf /\ page' = page /\ form' = form /\ saved' = saved /\ active' = active
      /\ edits' = edits /\ dirty' = dirty /\ loaded' = loaded /\ reloaded' = reloaded
    BY DEF Submit
<1>5. alone \in BOOLEAN
    BY <1>2 DEF Shapes
<1>6. alone => clean /\ OfForm(tasks, page) = {}
    BY <1>r DEF Overlaps
<1> HIDE DEF alone
<1>7. /\ n \in Task /\ n.page = page /\ n.kind = f /\ n.data = data
      /\ n.live = TRUE /\ n.done = FALSE /\ n.alone = alone
    BY <1>1, <1>5 DEF NewTask, Task
<1> HIDE DEF n
<1>s. alone /\ loaded => /\ \A g \in FieldsOf[page] \ (dirty \cup {"password"}) : form[g] = conf[g]
                         /\ \A g \in FieldsOf[page] \cap Recalled : saved[g] = conf[g]
    <2> SUFFICES ASSUME alone, loaded
                 PROVE  /\ \A g \in FieldsOf[page] \ (dirty \cup {"password"}) : form[g] = conf[g]
                        /\ \A g \in FieldsOf[page] \cap Recalled : saved[g] = conf[g]
        OBVIOUS
    <2>1. CleanForm(page, conf, form, dirty) /\ CleanSaved(tasks, page, conf, saved)
        BY <1>1, <1>2, <1>6 DEF PageInv, Shows
    <2>2. ~Told(tasks, page)
        BY <1>6 DEF Told
    <2> QED
        BY <2>1, <2>2 DEF CleanForm, CleanSaved
<1>8. Sound(U, page, loading \cup {f}, conf, dirty, reloaded)
    <2>1. Sound(tasks, page, loading, conf, dirty, reloaded)
        BY DEF Parts, Base
    <2>2. FullTask(n)
        BY <1>7, <1>r DEF FullTask
    <2>3. ~reloaded /\ f \in Chain => LiveOf(tasks) = {}
        BY <1>1, BrandIs DEF Chain
    <2>4. f \in Brand /\ alone => /\ OfForm(tasks, page) = {}
                                  /\ \A g \in Brand \ {f} : data[g] = conf[g]
        <3> SUFFICES ASSUME f \in Brand, alone
                     PROVE  /\ OfForm(tasks, page) = {}
                            /\ \A g \in Brand \ {f} : data[g] = conf[g]
            OBVIOUS
        <3>1. page = "rebranding" /\ loaded
            BY <1>1, <1>2 DEF ReadInv
        <3>2. FieldsOf[page] \cap Recalled = Brand
            BY <3>1, BrandIs DEF Brand, Recalled
        <3> QED
            BY <1>6, <1>s, <3>1, <3>2
    <2>5. Sound(U, page, loading \cup {n.kind}, conf, dirty, reloaded)
        BY <1>1, <1>7, <2>1, <2>2, <2>3, <2>4, SoundSave
    <2> QED
        BY <1>7, <2>5
<1>9. Shapes'
    BY <1>1, <1>2, <1>4, <1>5 DEF Shapes
<1>10. ActiveInv' /\ DirtyInv' /\ ReadInv' /\ NotBlank(conf')
    BY <1>2, <1>4 DEF ActiveInv, DirtyInv, ReadInv
<1>11. PageInv'
    <2> SUFFICES ASSUME alone
                 PROVE  /\ Clear(U, page, conf, form, saved)
                        /\ loaded => Shows(U, page, conf, form, saved, dirty)
        BY <1>3, <1>4 DEF PageInv
    <2>1. IsTasks(tasks)
        BY DEF Parts, Base, Sound
    <2>2. OfForm(tasks, page) = {}
        BY <1>6
    <2>3. n.kind \in Fields /\ n.live /\ ~n.done /\ n.data[n.kind] = form[n.kind]
        BY <1>1, <1>7
    <2>4. n.kind \in Brand => \A g \in Brand \ {n.kind} : n.data[g] = saved[g]
        BY <1>7
    <2>5. n \in Task /\ n.page = page
        BY <1>7
    <2> HIDE DEF U
    <2>6. Clear(U, page, conf, form, saved)
        BY <2>1, <2>2, <2>3, <2>4, <2>5, ClearSave DEF U
    <2>7. loaded => Shows(U, page, conf, form, saved, dirty)
        BY <1>s DEF Shows, CleanForm, CleanSaved
    <2> QED
        BY <2>6, <2>7
<1>12. Sound(tasks', page', loading', conf', dirty', reloaded')
    BY <1>3, <1>4, <1>8
<1> QED
    BY <1>9, <1>10, <1>11, <1>12 DEF Base

\* The forms that send their own field alone.
LEMMA SubmitOwnKeeps ==
    ASSUME Parts, NEW f, FormOpen(f), f \notin Brand,
           f \in {"config", "alerts", "password"} => form[f] # 0,
           Submit(f, Part(form, {f}))
    PROVE  Base'
<1>1. form \in [Fields -> Values]
    BY DEF Parts, Base, Shapes
<1>2. f \in Fields
    BY OpenFacts
<1> DEFINE data == Part(form, {f})
<1>3. data \in [Fields -> Values] /\ data[f] = form[f]
    BY <1>1, <1>2, PartFacts
<1>4. Submit(f, data)
    OBVIOUS
<1> HIDE DEF data
<1> QED
    BY <1>1, <1>3, <1>4, SubmitKeeps

\* The forms of Rebranding.vue.
LEMMA SubmitBrandKeeps ==
    ASSUME Parts, NEW f \in Brand, FormOpen(f), Submit(f, [saved EXCEPT ![f] = form[f]])
    PROVE  Base'
<1>1. form \in [Fields -> Values] /\ saved \in [Fields -> Values] /\ ActiveInv
    BY DEF Parts, Base, Shapes
<1>2. f \in Fields /\ active
    BY OpenFacts
<1> DEFINE data == [saved EXCEPT ![f] = form[f]]
<1>3. /\ data \in [Fields -> Values] /\ data[f] = form[f]
      /\ \A g \in Brand \ {f} : data[g] = saved[g]
    BY <1>1, <1>2, BrandIs
<1>4. Submit(f, data)
    OBVIOUS
<1> HIDE DEF data
<1>5. Full(data)
    BY <1>1, <1>2, <1>3 DEF ActiveInv, Full
<1>6. f \notin {"alerts", "config", "password"}
    BY BrandIs
<1> QED
    BY <1>1, <1>3, <1>4, <1>5, <1>6, SubmitKeeps

\* A form of Settings.vue that can be saved was read: the switch shows what was saved, or
\* was turned.
LEMMA SettingsAreRead ==
    ASSUME Parts, NEW f, SaveOpen(f), page = "settings"
    PROVE  loaded /\ form["alerts"] # 0
<1>1. error = {} /\ loading = {}
    BY DEF SaveOpen, FormOpen
<1>2. SettingsInv
    BY DEF Parts, Settled
<1> QED
    BY <1>1, <1>2 DEF SettingsInv

LEMMA SetAlertsKeeps == ASSUME Parts, SetAlerts PROVE Base'
<1>1. SaveOpen("alerts") /\ FormOpen("alerts") /\ Submit("alerts", Part(form, {"alerts"}))
    BY DEF SetAlerts, SaveOpen
<1>2. page = "settings"
    BY <1>1, PagesAre, FieldsOfAre DEF FormOpen
<1>3. form["alerts"] # 0
    BY <1>1, <1>2, SettingsAreRead
<1> QED
    BY <1>1, <1>3, SubmitOwnKeeps, BrandIs

LEMMA SaveKeeps == ASSUME Parts, Save PROVE Base'
<1>1. CASE SetHotel
    BY <1>1, SubmitOwnKeeps, BrandIs DEF SetHotel, SaveOpen
<1>2. CASE SetIntegrations
    BY <1>2, SubmitOwnKeeps, BrandIs DEF SetIntegrations, SaveOpen
<1>3. CASE StartConfiguration
    BY <1>3, SubmitOwnKeeps, BrandIs DEF StartConfiguration, SaveOpen
<1>4. CASE ChangeAdminPassword
    BY <1>4, SubmitOwnKeeps, BrandIs DEF ChangeAdminPassword, SaveOpen
<1>5. CASE SetBrandName
    BY <1>5, SubmitBrandKeeps, BrandIs DEF SetBrandName, SaveOpen
<1>6. CASE SetRebranding
    BY <1>6, SubmitBrandKeeps, BrandIs DEF SetRebranding, SaveOpen
<1> QED
    BY <1>1, <1>2, <1>3, <1>4, <1>5, <1>6, SetAlertsKeeps DEF Save

-----------------------------------------------------------------------------
(* The module's steps.                                                     *)

LEMMA RunsKeeps == ASSUME Parts, NEW t \in DOMAIN tasks, Runs(t) PROVE Base'
<1> DEFINE U == AfterRun(tasks, t, conf)
           d == Wrote(t, conf)
<1>2. Shapes /\ NotBlank(conf) /\ ActiveInv /\ DirtyInv /\ ReadInv /\ PageInv
    BY DEF Parts, Base
<1>3. Sound(tasks, page, loading, conf, dirty, reloaded) /\ conf \in [Fields -> Values]
    BY <1>2 DEF Parts, Base, Shapes
<1>4. /\ IsTasks(tasks) /\ TasksInv(tasks, page) /\ t \in Task
      /\ OwnTask(t, page) /\ FullTask(t)
    BY <1>3 DEF Sound, IsTasks, TasksInv, FullInv
<1>1. /\ ~t.done /\ conf' = d /\ tasks' = U
      /\ page' = page /\ form' = form /\ saved' = saved /\ active' = active
      /\ loading' = loading /\ edits' = edits /\ dirty' = dirty /\ loaded' = loaded
      /\ clean' = clean /\ reloaded' = reloaded
    BY <1>3, <1>4, RunsIs
<1>w. /\ d \in [Fields -> Values]
      /\ t.kind \in Reads => d = conf
      /\ t.kind \in Fields => \A f \in Fields \ WrittenBy(t) : d[f] = conf[f]
    BY <1>3, <1>4, WroteFacts
<1>5. Sound(U, page, loading, d, dirty, reloaded)
    <2> HIDE DEF d
    <2> QED
        BY <1>1, <1>2, <1>3, <1>w, SoundRun
<1>6. NotBlank(d) /\ d \in [Fields -> Values]
    BY <1>2, <1>3, <1>4, <1>w, WroteNotBlank
<1>7. clean /\ page \in Pages => /\ Clear(U, page, d, form, saved)
                                 /\ loaded => Shows(U, page, d, form, saved, dirty)
    <2> SUFFICES ASSUME clean, page \in Pages
                 PROVE  /\ Clear(U, page, d, form, saved)
                        /\ loaded => Shows(U, page, d, form, saved, dirty)
        OBVIOUS
    <2>1. /\ Clear(tasks, page, conf, form, saved)
          /\ loaded => Shows(tasks, page, conf, form, saved, dirty)
        BY <1>2 DEF PageInv
    <2>2. /\ Clear(U, page, d, form, saved)
          /\ Shows(tasks, page, conf, form, saved, dirty) => Shows(U, page, d, form, saved, dirty)
        BY <1>1, <1>3, <1>4, <2>1, ClearRun
    <2> QED
        BY <2>1, <2>2
<1> HIDE DEF U, d
<1>8. Shapes'
    BY <1>1, <1>2, <1>6 DEF Shapes
<1>9. ActiveInv' /\ DirtyInv' /\ ReadInv' /\ NotBlank(conf')
    BY <1>1, <1>2, <1>6 DEF ActiveInv, DirtyInv, ReadInv
<1>10. PageInv'
    BY <1>1, <1>7 DEF PageInv
<1>11. Sound(tasks', page', loading', conf', dirty', reloaded')
    BY <1>1, <1>5
<1> QED
    BY <1>8, <1>9, <1>10, <1>11 DEF Base

LEMMA RebrandingInactiveKeeps ==
    ASSUME Parts, NEW t \in DOMAIN tasks, RebrandingInactive(t)
    PROVE  Base'
<1> DEFINE U == AfterRun(tasks, t, conf)
<1>1. /\ ~t.done /\ Finish(t) /\ clean' = FALSE
      /\ conf' = conf /\ page' = page /\ form' = form /\ saved' = saved /\ active' = active
      /\ loading' = loading /\ edits' = edits /\ dirty' = dirty /\ loaded' = loaded
      /\ reloaded' = reloaded
    BY DEF RebrandingInactive
<1>2. Shapes /\ NotBlank(conf) /\ ActiveInv /\ DirtyInv /\ ReadInv
    BY DEF Parts, Base
<1>3. Sound(tasks, page, loading, conf, dirty, reloaded) /\ conf \in [Fields -> Values]
    BY <1>2 DEF Parts, Base, Shapes
<1>4. Sound(U, page, loading, conf, dirty, reloaded)
    BY <1>1, <1>2, <1>3, SoundRun
<1>5. tasks' = U
    BY <1>1, FinishIs
<1> HIDE DEF U
<1>6. Shapes'
    BY <1>1, <1>2 DEF Shapes
<1>7. ActiveInv' /\ DirtyInv' /\ ReadInv' /\ NotBlank(conf') /\ PageInv'
    BY <1>1, <1>2 DEF ActiveInv, DirtyInv, ReadInv, PageInv
<1>8. Sound(tasks', page', loading', conf', dirty', reloaded')
    BY <1>1, <1>4, <1>5
<1> QED
    BY <1>6, <1>7, <1>8 DEF Base

LEMMA OrphanFailsKeeps == ASSUME Parts, NEW t \in DOMAIN tasks, OrphanFails(t) PROVE Base'
<1> DEFINE U == tasks (-) One(t)
<1>1. /\ ~t.live /\ tasks' = U
      /\ conf' = conf /\ page' = page /\ form' = form /\ saved' = saved /\ active' = active
      /\ loading' = loading /\ edits' = edits /\ dirty' = dirty /\ loaded' = loaded
      /\ clean' = clean /\ reloaded' = reloaded
    BY DEF OrphanFails
<1>2. Shapes /\ NotBlank(conf) /\ ActiveInv /\ DirtyInv /\ ReadInv /\ PageInv
    BY DEF Parts, Base
<1>3. Sound(tasks, page, loading, conf, dirty, reloaded) /\ IsTasks(tasks)
    BY DEF Parts, Base, Sound
<1>4. Sound(U, page, loading, conf, dirty, reloaded)
    BY <1>3, SoundTake
<1>5. clean /\ page \in Pages => /\ Clear(U, page, conf, form, saved)
                                 /\ loaded => Shows(U, page, conf, form, saved, dirty)
    <2> SUFFICES ASSUME clean, page \in Pages
                 PROVE  /\ Clear(U, page, conf, form, saved)
                        /\ loaded => Shows(U, page, conf, form, saved, dirty)
        OBVIOUS
    <2>1. /\ Clear(tasks, page, conf, form, saved)
          /\ loaded => Shows(tasks, page, conf, form, saved, dirty)
        BY <1>2 DEF PageInv
    <2>2. t \notin OfForm(tasks, page)
        BY <1>1, <2>1 DEF Clear, CleanTasks
    <2>3. Clear(U, page, conf, form, saved) /\ OfForm(U, page) = OfForm(tasks, page)
        BY <1>3, <2>1, <2>2, ClearTake
    <2> HIDE DEF U
    <2> QED
        BY <2>1, <2>3, ShowsMore
<1> HIDE DEF U
<1>6. Shapes'
    BY <1>1, <1>2 DEF Shapes
<1>7. ActiveInv' /\ DirtyInv' /\ ReadInv' /\ NotBlank(conf')
    BY <1>1, <1>2 DEF ActiveInv, DirtyInv, ReadInv
<1>8. PageInv'
    BY <1>1, <1>5 DEF PageInv
<1>9. Sound(tasks', page', loading', conf', dirty', reloaded')
    BY <1>1, <1>4
<1> QED
    BY <1>6, <1>7, <1>8, <1>9 DEF Base

LEMMA AnsweredKeeps == ASSUME Parts, Answered PROVE Base'
BY GetHotelKeeps, GetIntegrationsKeeps, GetConfigurationKeeps, GetRebrandingKeeps,
   GetUserDomainsKeeps, GetDefaultsKeeps, SetHotelAnswerKeeps, SetIntegrationsAnswerKeeps,
   ConfigureModuleAnswerKeeps, SetAlertsAnswerKeeps, SetAdminPasswordAnswerKeeps,
   SetRebrandingAnswerKeeps
   DEF Answered

-----------------------------------------------------------------------------
(* Until the settings are read, and what is typed before that.             *)

\* A saving of the page's that is answered was started on a page that was read.
LEMMA SavedWhenRead ==
    ASSUME Parts, page = "settings", NEW kind \in Fields, NEW a \in AnswersTo(kind)
    PROVE  loaded /\ form["alerts"] # 0 /\ saved["alerts"] # 0
<1>1. a.task \in DOMAIN tasks /\ a.task.kind = kind /\ a.task.live
    BY AnswerFacts
<1>2. WritesInv(tasks, loading) /\ SettingsInv
    BY DEF Parts, Base, Settled, Sound
<1>3. kind \in loading /\ kind \notin Reads
    BY <1>1, <1>2, ReadsAre DEF WritesInv, Writes
<1> QED
    BY <1>2, <1>3 DEF SettingsInv

\* Fewer flags and fewer fields typed in, on another page.
LEMMA ElsewhereSettled ==
    ASSUME Parts, page # "settings", page' = page, error' = error,
           reloaded' = reloaded, loaded => loaded',
           dirty' \subseteq dirty, loading' \subseteq loading \/ loaded' \/ dirty' = {}
    PROVE  Settled'
<1>1. Errors /\ RereadInv
    BY DEF Parts, Settled
<1>2. RereadInv'
    BY <1>1 DEF RereadInv
<1> QED
    BY <1>1, <1>2 DEF Settled, Errors, SettingsInv

LEMMA OpenPageSettled == ASSUME Parts, NEW p \in Pages, OpenPage(p) PROVE Settled'
<1>1. /\ page' = p /\ loading' = CreatedLoading(p) /\ error' = {}
      /\ dirty' = {} /\ loaded' = FALSE
    BY DEF OpenPage
<1>2. SettingsInv'
    BY <1>1 DEF SettingsInv, CreatedLoading, Reads
<1> QED
    BY <1>1, <1>2 DEF Settled, Errors, RereadInv

LEMMA ReloadConfigSettled == ASSUME Parts, ReloadConfig PROVE Settled'
<1>1. /\ reloaded' = TRUE /\ loading' = loading \cup {"domains", "defaults"}
      /\ error' = error \ {"domains", "defaults"}
      /\ page' = page /\ form' = form /\ saved' = saved /\ loaded' = loaded
    BY DEF ReloadConfig
<1>2. Errors /\ SettingsInv
    BY DEF Parts, Settled
<1>3. SettingsInv'
    BY <1>1, <1>2 DEF SettingsInv, Reads
<1> QED
    BY <1>1, <1>2, <1>3 DEF Settled, Errors, RereadInv

LEMMA TypeSettled == ASSUME Parts, NEW f \in Fields, Type(f) PROVE Settled'
<1>1. /\ FormOpen(f) /\ form' = [form EXCEPT ![f] = edits + 2]
      /\ page' = page /\ saved' = saved /\ loading' = loading /\ error' = error
      /\ loaded' = loaded /\ reloaded' = reloaded
    BY DEF Type
<1>2. /\ Errors /\ SettingsInv /\ ReadInv /\ form \in [Fields -> Values] /\ edits \in 0..MaxEdits
    BY DEF Parts, Base, Settled, Shapes
<1>3. form["alerts"] # 0 => form'["alerts"] # 0
    <2>1. edits + 2 # 0
        BY <1>2, PagesAssumption
    <2> QED
        BY <1>1, <1>2, <2>1, FieldsAre
<1>4. SettingsInv'
    BY <1>1, <1>2, <1>3 DEF SettingsInv
<1>5. ~loaded => loading = {}
    BY <1>1, <1>2 DEF FormOpen, ReadInv
<1> QED
    BY <1>1, <1>2, <1>4, <1>5 DEF Settled, Errors, RereadInv

LEMMA SubmitSettled ==
    ASSUME Parts, NEW f, SaveOpen(f), NEW data, Submit(f, data)
    PROVE  Settled'
<1>1. /\ loading' = loading \cup {f} /\ page' = page /\ form' = form /\ saved' = saved
      /\ error' = error /\ dirty' = dirty /\ loaded' = loaded /\ reloaded' = reloaded
    BY DEF Submit
<1>2. Errors /\ SettingsInv /\ RereadInv
    BY DEF Parts, Settled
<1>3. f \notin {"get", "domains"}
    <2>1. f \in Fields
        BY OpenFacts DEF SaveOpen
    <2> QED
        BY <2>1, ReadsAre
<1>4. page = "settings" => loaded
    BY SettingsAreRead
<1> QED
    BY <1>1, <1>2, <1>3, <1>4 DEF Settled, Errors, SettingsInv, RereadInv

LEMMA SaveSettled == ASSUME Parts, Save PROVE Settled'
<1>1. \E f, data : SaveOpen(f) /\ Submit(f, data)
    BY DEF Save, SetHotel, SetIntegrations, StartConfiguration, ChangeAdminPassword, SetAlerts,
           SetBrandName, SetRebranding
<1> QED
    BY <1>1, SubmitSettled

\* The module's steps leave the page alone.
LEMMA UntouchedSettled ==
    ASSUME Parts, UNCHANGED <<page, form, saved, loading, error, dirty, loaded, reloaded>>
    PROVE  Settled'
BY DEF Parts, Settled, Errors, SettingsInv, RereadInv

LEMMA RunningSettled == ASSUME Parts, Running PROVE Settled'
<1>1. UNCHANGED <<page, form, saved, loading, error, dirty, loaded, reloaded>>
    BY DEF Running, Runs, RebrandingInactive, OrphanFails
<1> QED
    BY <1>1, UntouchedSettled

LEMMA GetConfigurationSettled == ASSUME Parts, GetConfigurationAnswered PROVE Settled'
<1>0. PICK a \in AnswersTo("get") :
        /\ page = "settings"
        /\ IF a.ok
           THEN /\ form' = [a.task.data EXCEPT !["password"] = 0]
                /\ saved' = [saved EXCEPT !["alerts"] = a.task.data["alerts"]]
                /\ dirty' = {} /\ UNCHANGED error
           ELSE error' = error \cup {"get"} /\ UNCHANGED <<form, saved, dirty>>
        /\ loading' = loading \ {"get"}
        /\ loaded' = (loaded \/ a.ok)
        /\ UNCHANGED <<page, reloaded>>
    BY DEF GetConfigurationAnswered, Kept
<1>1. /\ a.ok \in BOOLEAN /\ a.task.kind = "get" /\ a.task.page = page /\ FullTask(a.task)
      /\ a.ok = a.task.done /\ a.task.data \in [Fields -> Values]
    BY AnswerFacts
<1>2. Errors /\ SettingsInv /\ RereadInv /\ saved \in [Fields -> Values]
    BY DEF Parts, Base, Settled, Shapes
<1>3. CASE a.ok
    <2>1. a.task.data["alerts"] # 0
        BY <1>0, <1>1, <1>3 DEF FullTask
    <2>2. form'["alerts"] # 0 /\ saved'["alerts"] # 0
        BY <1>0, <1>1, <1>2, <1>3, <2>1, FieldsAre
    <2>3. SettingsInv'
        BY <1>0, <1>3, <2>2 DEF SettingsInv
    <2> QED
        BY <1>0, <1>2, <1>3, <2>3 DEF Settled, Errors, RereadInv
<1>4. CASE ~a.ok
    <2>1. /\ error' = error \cup {"get"} /\ form' = form /\ saved' = saved /\ dirty' = dirty
          /\ (loaded' <=> loaded)
        BY <1>0, <1>4
    <2>2. SettingsInv'
        BY <1>0, <1>2, <2>1 DEF SettingsInv
    <2> QED
        BY <1>0, <1>2, <2>1, <2>2 DEF Settled, Errors, RereadInv, Reads
<1> QED
    BY <1>1, <1>3, <1>4

LEMMA OtherGetSettled ==
    ASSUME Parts, GetHotelAnswered \/ GetIntegrationsAnswered \/ GetRebrandingAnswered
    PROVE  Settled'
<1>1. /\ page # "settings" /\ page' = page /\ error' = error /\ reloaded' = reloaded
      /\ dirty' \subseteq dirty /\ loading' \subseteq loading /\ (loaded => loaded')
    BY DEF GetHotelAnswered, GetIntegrationsAnswered, GetRebrandingAnswered, Kept
<1> QED
    BY <1>1, ElsewhereSettled

LEMMA GetUserDomainsSettled == ASSUME Parts, GetUserDomainsAnswered PROVE Settled'
<1>0. PICK a \in AnswersTo("domains") :
        /\ IF a.ok
           THEN loading' = (loading \ {"domains"}) \cup {"get"} /\ error' = error \ {"get"}
           ELSE loading' = loading \ {"domains"} /\ error' = error \cup {"domains"}
        /\ UNCHANGED <<page, reloaded, form, saved, dirty, loaded>>
    BY DEF GetUserDomainsAnswered, Kept
<1>1. /\ a.task \in DOMAIN tasks /\ a.task.kind = "domains" /\ a.task.live /\ a.ok \in BOOLEAN
    BY AnswerFacts
<1>2. Errors /\ SettingsInv /\ RereadInv /\ (~reloaded => ChainInv(tasks, loading, dirty))
    BY DEF Parts, Base, Settled, Sound
<1>3. ~reloaded /\ ~loaded => dirty = {}
    <2>1. ~reloaded => "domains" \in loading
        BY <1>1, <1>2 DEF ChainInv, LiveOf
    <2> QED
        BY <1>2, <2>1 DEF RereadInv
<1>4. SettingsInv'
    BY <1>0, <1>1, <1>2 DEF SettingsInv, Reads
<1>5. RereadInv'
    BY <1>0, <1>3 DEF RereadInv
<1>6. Errors'
    BY <1>0, <1>1, <1>2 DEF Errors, Reads
<1> QED
    BY <1>4, <1>5, <1>6 DEF Settled

LEMMA GetDefaultsSettled == ASSUME Parts, GetDefaultsAnswered PROVE Settled'
<1>0. PICK a \in AnswersTo("defaults") :
        /\ loading' = loading \ {"defaults"}
        /\ error' = IF a.ok THEN error ELSE error \cup {"defaults"}
        /\ UNCHANGED <<page, reloaded, form, saved, dirty, loaded>>
    BY DEF GetDefaultsAnswered, Kept
<1>2. Errors /\ SettingsInv /\ RereadInv
    BY DEF Parts, Settled
<1>3. error \subseteq error' /\ Errors'
    BY <1>0, <1>2 DEF Errors, Reads
<1>4. SettingsInv'
    BY <1>0, <1>2, <1>3 DEF SettingsInv
<1>5. RereadInv'
    BY <1>0, <1>2 DEF RereadInv
<1> QED
    BY <1>3, <1>4, <1>5 DEF Settled

\* The page has one field, and it was just saved: nothing is typed in it any more.
LEMMA PlainSavedSettled ==
    ASSUME Parts, NEW kind \in {"hotel", "integrations"}, NEW a \in AnswersTo(kind), NEW T,
           SavedThenRead(a, T), UNCHANGED error
    PROVE  Settled'
<1>1. /\ page \in Pages /\ kind \in FieldsOf[page] /\ a.task.kind = kind /\ a.ok \in BOOLEAN
    BY AnswerFacts, FieldsAre
<1>2. page # "settings" /\ FieldsOf[page] = {kind}
    BY <1>1, PagesAre, FieldsOfAre
<1>3. page' = page /\ reloaded' = reloaded /\ loaded' = loaded /\ error' = error
    BY DEF SavedThenRead, Kept
<1>4. DirtyInv
    BY DEF Parts, Base
<1>5. dirty' \subseteq dirty /\ (loading' \subseteq loading \/ dirty' = {})
    <2>1. CASE a.ok
        BY <1>1, <1>2, <1>4, <2>1 DEF SavedThenRead, DirtyInv
    <2>2. CASE ~a.ok
        BY <2>2 DEF SavedThenRead
    <2> QED
        BY <1>1, <2>1, <2>2
<1> QED
    BY <1>2, <1>3, <1>5, ElsewhereSettled

LEMMA ConfigureModuleSettled == ASSUME Parts, ConfigureModuleAnswered PROVE Settled'
<1>1. PICK a \in AnswersTo("config") :
        /\ SavedThenRead(a, GetConfiguration(Rest(a)))
        /\ error' \in IF a.ok THEN {error \ {"get"}} ELSE {error, error \cup {"save"}}
    BY DEF ConfigureModuleAnswered
<1>2. page = "settings"
    <2>1. page \in Pages /\ "config" \in FieldsOf[page]
        BY <1>1, AnswerFacts, FieldsAre
    <2> QED
        BY <2>1, PagesAre, FieldsOfAre
<1>3. loaded /\ form["alerts"] # 0 /\ saved["alerts"] # 0
    BY <1>1, <1>2, SavedWhenRead, FieldsAre
<1>4. page' = page /\ form' = form /\ saved' = saved /\ loaded' = loaded
    BY <1>1 DEF SavedThenRead, Kept
<1>5. Errors'
    BY <1>1 DEF Parts, Settled, Errors
<1> QED
    BY <1>3, <1>4, <1>5 DEF Settled, SettingsInv, RereadInv

LEMMA SetAlertsAnswerSettled == ASSUME Parts, SetAlertsAnswered PROVE Settled'
<1>0. PICK a \in AnswersTo("alerts") :
        /\ IF a.ok
           THEN saved' = [saved EXCEPT !["alerts"] = form["alerts"]] /\ UNCHANGED form
           ELSE form' = [form EXCEPT !["alerts"] = saved["alerts"]] /\ UNCHANGED saved
        /\ UNCHANGED <<page, error, loaded>>
    BY DEF SetAlertsAnswered, Kept
<1>1. page = "settings"
    <2>1. page \in Pages /\ "alerts" \in FieldsOf[page]
        BY AnswerFacts, FieldsAre
    <2> QED
        BY <2>1, PagesAre, FieldsOfAre
<1>2. loaded /\ form["alerts"] # 0 /\ saved["alerts"] # 0
    BY <1>1, SavedWhenRead, FieldsAre
<1>3. Errors /\ form \in [Fields -> Values] /\ saved \in [Fields -> Values]
    BY DEF Parts, Base, Settled, Shapes
<1>4. form'["alerts"] # 0 /\ saved'["alerts"] # 0
    BY <1>0, <1>2, <1>3, FieldsAre
<1> QED
    BY <1>0, <1>2, <1>3, <1>4 DEF Settled, Errors, SettingsInv, RereadInv

LEMMA SetAdminPasswordSettled == ASSUME Parts, SetAdminPasswordAnswered PROVE Settled'
<1>0. PICK a \in AnswersTo("password") :
        /\ form' = form \/ form' = [form EXCEPT !["password"] = 0]
        /\ error' = error \/ error' = error \cup {"save"}
        /\ UNCHANGED <<page, saved, loaded>>
    BY DEF SetAdminPasswordAnswered, Kept
<1>1. page = "settings"
    <2>1. page \in Pages /\ "password" \in FieldsOf[page]
        BY AnswerFacts, FieldsAre
    <2> QED
        BY <2>1, PagesAre, FieldsOfAre
<1>2. loaded /\ form["alerts"] # 0 /\ saved["alerts"] # 0
    BY <1>1, SavedWhenRead, FieldsAre
<1>3. Errors /\ form \in [Fields -> Values]
    BY DEF Parts, Base, Settled, Shapes
<1>4. form'["alerts"] # 0
    BY <1>0, <1>2, <1>3, FieldsAre
<1> QED
    BY <1>0, <1>2, <1>3, <1>4 DEF Settled, Errors, SettingsInv, RereadInv

LEMMA SetRebrandingAnswerSettled == ASSUME Parts, SetRebrandingAnswered PROVE Settled'
<1>0. PICK a \in AnswersTo("name") \cup AnswersTo("look") :
        /\ dirty' = IF a.ok THEN dirty \ {a.task.kind} ELSE dirty
        /\ loading' = loading \ {a.task.kind}
        /\ UNCHANGED <<page, reloaded, error, loaded>>
    BY DEF SetRebrandingAnswered, Kept
<1>1. page # "settings"
    <2>1. PICK kind \in Brand : a \in AnswersTo(kind)
        BY BrandIs
    <2>2. page \in Pages /\ kind \in FieldsOf[page]
        BY <2>1, AnswerFacts, BrandIs
    <2> QED
        BY <2>2, BrandIs, FieldsOfAre
<1>2. dirty' \subseteq dirty /\ loading' \subseteq loading
    BY <1>0
<1> QED
    BY <1>0, <1>1, <1>2, ElsewhereSettled

LEMMA AnsweredSettled == ASSUME Parts, Answered PROVE Settled'
<1>1. CASE SetHotelAnswered
    BY <1>1, PlainSavedSettled DEF SetHotelAnswered
<1>2. CASE SetIntegrationsAnswered
    BY <1>2, PlainSavedSettled DEF SetIntegrationsAnswered
<1> QED
    BY <1>1, <1>2, OtherGetSettled, GetConfigurationSettled, GetUserDomainsSettled,
       GetDefaultsSettled, ConfigureModuleSettled, SetAlertsAnswerSettled,
       SetAdminPasswordSettled, SetRebrandingAnswerSettled
       DEF Answered

-----------------------------------------------------------------------------
(* All steps together.                                                     *)

LEMMA InitHolds == Init => Parts
<1> SUFFICES ASSUME Init
             PROVE  Parts
    OBVIOUS
<1>1. /\ conf = [f \in Fields |-> 1] /\ page = "none" /\ form = Nothing /\ saved = Nothing
      /\ active = FALSE /\ loading = {} /\ error = {} /\ tasks = EmptyBag /\ edits = 0
      /\ dirty = {} /\ loaded = FALSE /\ clean = TRUE /\ reloaded = FALSE
    BY DEF Init
<1>2. 0 \in Values /\ 1 \in Values /\ 0 \in 0..MaxEdits
    BY PagesAssumption DEF Values
<1>3. Shapes
    BY <1>1, <1>2 DEF Shapes, Nothing
<1>4. IsABag(tasks) /\ DOMAIN tasks = {}
    BY <1>1 DEF EmptyBag, SetToBag, IsABag
<1>5. Sound(tasks, page, loading, conf, dirty, reloaded)
    BY <1>4 DEF Sound, IsTasks, TasksInv, WritesInv, Writes, FullInv, AloneInv, ChainInv, LiveOf
<1>6. NotBlank(conf) /\ ActiveInv /\ DirtyInv /\ ReadInv
    BY <1>1 DEF NotBlank, ActiveInv, DirtyInv, ReadInv
<1>7. PageInv
    BY <1>1, PagesAre DEF PageInv
<1>8. Settled
    BY <1>1 DEF Settled, Errors, SettingsInv, RereadInv
<1> QED
    BY <1>3, <1>5, <1>6, <1>7, <1>8 DEF Parts, Base

LEMMA NextKeeps == Parts /\ [Next]_vars => Parts'
<1> SUFFICES ASSUME Parts, [Next]_vars
             PROVE  Base' /\ Settled'
    BY DEF Parts
<1>1. CASE \E p \in Pages : OpenPage(p)
    BY <1>1, OpenPageKeeps, OpenPageSettled
<1>2. CASE \E f \in Fields : Type(f)
    BY <1>2, TypeKeeps, TypeSettled
<1>3. CASE ReloadConfig
    BY <1>3, ReloadConfigKeeps, ReloadConfigSettled
<1>4. CASE Save
    BY <1>4, SaveKeeps, SaveSettled
<1>5. CASE Running
    <2>1. Base'
        BY <1>5, RunsKeeps, RebrandingInactiveKeeps, OrphanFailsKeeps DEF Running
    <2> QED
        BY <1>5, <2>1, RunningSettled
<1>6. CASE Answered
    BY <1>6, AnsweredKeeps, AnsweredSettled
<1>7. CASE UNCHANGED vars
    <2>1. /\ conf' = conf /\ page' = page /\ form' = form /\ saved' = saved /\ active' = active
          /\ loading' = loading /\ tasks' = tasks /\ edits' = edits /\ dirty' = dirty
          /\ loaded' = loaded /\ clean' = clean /\ reloaded' = reloaded /\ error' = error
        BY <1>7 DEF vars
    <2>2. Shapes' /\ ActiveInv' /\ DirtyInv' /\ ReadInv' /\ PageInv'
        BY <2>1 DEF Parts, Base, Shapes, ActiveInv, DirtyInv, ReadInv, PageInv
    <2>3. Sound(tasks', page', loading', conf', dirty', reloaded') /\ NotBlank(conf')
        BY <2>1 DEF Parts, Base
    <2>4. Settled'
        BY <2>1, UntouchedSettled
    <2> QED
        BY <2>2, <2>3, <2>4 DEF Base
<1> QED
    BY <1>1, <1>2, <1>3, <1>4, <1>5, <1>6, <1>7 DEF Next

LEMMA PartsAlways == Spec => []Parts
<1>1. Init => Parts
    BY InitHolds
<1>2. Parts /\ [Next]_vars => Parts'
    BY NextKeeps
<1> QED
    BY <1>1, <1>2, PTL DEF Spec

(***************************************************************************)
(* The inductive invariant: every handler of the pages and every task of   *)
(* the module keeps it, whatever the order.                                *)
(***************************************************************************)
THEOREM PagesInvariant == Spec => []IInv
<1>1. Parts => IInv
    BY PartsAreInv
<1> QED
    BY <1>1, PartsAlways, PTL

\* The module's configuration, the page and the tasks keep their types.
THEOREM PagesTypes == Spec => []TypeOK
<1>1. IInv => TypeOK
    BY DEF IInv
<1> QED
    BY <1>1, PagesInvariant, PTL

(***************************************************************************)
(* However the readings fail and the answers come, the settings, the       *)
(* switch of the alerts included, and the rebranding are never replaced by *)
(* the empty form of a page not read.  For the switch it is isErrorState   *)
(* that keeps Save from sending it after a reading that failed.            *)
(***************************************************************************)
THEOREM NothingIsBlanked == Spec => []NeverBlanked
<1>1. IInv => NeverBlanked
    BY DEF IInv
<1> QED
    BY <1>1, PagesInvariant, PTL

(***************************************************************************)
(* A page that was read and is at rest shows what the module has saved,    *)
(* but for what was typed since.  This as long as no savings overlapped,   *)
(* and no set-alerts or set-rebranding failed behind its write or          *)
(* completed without one: then the page shows or recalls something else    *)
(* until it is opened again.                                               *)
(***************************************************************************)
THEOREM RestingPageIsRight == Spec => []ShownIsSaved
<1>1. Parts => ShownIsSaved
    <2> SUFFICES ASSUME Parts, page \in Pages, loaded, clean,
                        NEW f \in FieldsOf[page] \ (dirty \cup {"password"})
                 PROVE  form[f] = conf[f]
        BY DEF ShownIsSaved
    <2>1. CleanForm(page, conf, form, dirty)
        BY DEF Parts, Base, PageInv, Shows
    <2> QED
        BY <2>1 DEF CleanForm
<1> QED
    BY <1>1, PartsAlways, PTL

-----------------------------------------------------------------------------
(* What no step does.                                                      *)

\* A reading that is answered finds nothing typed but what a saving of the settings left,
\* until the wizard has asked for one.
LEMMA NothingTyped ==
    ASSUME Parts, ~reloaded, NEW a \in AnswersTo("get"), NEW f \in dirty
    PROVE  f \in {"password", "alerts"} /\ loaded /\ "get" \in loading
<1>1. a.task \in DOMAIN tasks /\ a.task.kind = "get" /\ a.task.live
    BY AnswerFacts
<1>2. ChainInv(tasks, loading, dirty) /\ RereadInv /\ loaded \in BOOLEAN
    BY DEF Parts, Base, Settled, Sound, Shapes
<1>3. dirty \subseteq {"password", "alerts"} /\ "get" \in loading
    BY <1>1, <1>2 DEF ChainInv, LiveOf
<1> QED
    BY <1>2, <1>3 DEF RereadInv

\* A saving that is answered is one the page waits for.
LEMMA WaitedFor ==
    ASSUME Parts, NEW kind \in Fields, NEW a \in AnswersTo(kind)
    PROVE  kind \in loading
<1>1. a.task \in DOMAIN tasks /\ a.task.kind = kind /\ a.task.live
    BY AnswerFacts
<1>2. WritesInv(tasks, loading)
    BY DEF Parts, Base, Sound
<1> QED
    BY <1>1, <1>2 DEF WritesInv, Writes

\* No answer takes from the page what was typed in it, the switch and the password apart.
LEMMA AnswersKeepTyped ==
    ASSUME Parts, Answered, NEW f \in dirty, ~reloaded', form'[f] # form[f]
    PROVE  f \in {"alerts", "password"} /\ (f \in loading \/ (loaded /\ "get" \in loading))
<1>0. f \in Fields /\ form \in [Fields -> Values]
    BY DEF Parts, Base, Shapes
<1>1. CASE \E a \in AnswersTo("get") : reloaded' = reloaded
    BY <1>1, NothingTyped
<1>2. CASE GetHotelAnswered \/ GetIntegrationsAnswered \/ GetConfigurationAnswered
           \/ GetRebrandingAnswered
    BY <1>1, <1>2 DEF GetHotelAnswered, GetIntegrationsAnswered, GetConfigurationAnswered,
                      GetRebrandingAnswered, Kept
<1>3. CASE GetUserDomainsAnswered \/ GetDefaultsAnswered
    BY <1>3 DEF GetUserDomainsAnswered, GetDefaultsAnswered
<1>4. CASE SetHotelAnswered \/ SetIntegrationsAnswered \/ ConfigureModuleAnswered
    BY <1>4 DEF SetHotelAnswered, SetIntegrationsAnswered, ConfigureModuleAnswered, SavedThenRead
<1>5. CASE SetAlertsAnswered
    <2>1. f = "alerts"
        BY <1>0, <1>5 DEF SetAlertsAnswered
    <2>2. \E a : a \in AnswersTo("alerts")
        BY <1>5 DEF SetAlertsAnswered
    <2> QED
        BY <2>1, <2>2, WaitedFor, FieldsAre
<1>6. CASE SetAdminPasswordAnswered
    <2>1. f = "password"
        BY <1>0, <1>6 DEF SetAdminPasswordAnswered
    <2>2. \E a : a \in AnswersTo("password")
        BY <1>6 DEF SetAdminPasswordAnswered
    <2> QED
        BY <2>1, <2>2, WaitedFor, FieldsAre
<1>7. CASE SetRebrandingAnswered
    BY <1>7 DEF SetRebrandingAnswered
<1> QED
    BY <1>2, <1>3, <1>4, <1>5, <1>6, <1>7 DEF Answered

(***************************************************************************)
(* What the user has typed and not saved is changed by no answer, however  *)
(* late it comes and whatever was saved meanwhile, until the wizard's end  *)
(* makes the settings read again.  The password and the switch of the      *)
(* alerts are the exceptions: they follow the answer to their own saving,  *)
(* and a reading that follows another saving of the same page sets them.   *)
(***************************************************************************)
THEOREM TypingIsKept == Spec => TypedIsKept
<1>1. ASSUME Parts, [Next]_vars
      PROVE  [\A f \in dirty :
                page' = page /\ edits' = edits /\ ~reloaded' /\ form'[f] # form[f] =>
                    /\ f \in {"alerts", "password"}
                    /\ f \in loading \/ (loaded /\ "get" \in loading)]_vars
    <2> SUFFICES ASSUME Next, NEW f \in dirty,
                        page' = page, edits' = edits, ~reloaded', form'[f] # form[f]
                 PROVE  f \in {"alerts", "password"} /\ (f \in loading \/ (loaded /\ "get" \in loading))
        BY <1>1
    <2>0. edits \in 0..MaxEdits
        BY <1>1 DEF Parts, Base, Shapes
    <2>1. CASE \E p \in Pages : OpenPage(p)
        BY <2>1 DEF OpenPage
    <2>2. CASE \E g \in Fields : Type(g)
        BY <2>0, <2>2 DEF Type
    <2>3. CASE ReloadConfig
        BY <2>3 DEF ReloadConfig
    <2>4. CASE Save
        BY <2>4 DEF Save, SetHotel, SetIntegrations, StartConfiguration,
              ChangeAdminPassword, SetAlerts, SetBrandName, SetRebranding, Submit
    <2>5. CASE Running
        BY <2>5 DEF Running, Runs, RebrandingInactive, OrphanFails
    <2>6. CASE Answered
        BY <1>1, <2>6, AnswersKeepTyped
    <2> QED
        BY <2>1, <2>2, <2>3, <2>4, <2>5, <2>6 DEF Next
<1> QED
    BY <1>1, PartsAlways, PTL DEF Spec, TypedIsKept

\* A task that runs is one fewer of its like.
LEMMA OneFewer ==
    ASSUME NEW T, IsTasks(T), NEW c \in [Fields -> Values], NEW t \in DOMAIN T, ~t.done
    PROVE  Copies(t, AfterRun(T, t, c)) < Copies(t, T)
<1> DEFINE V == T (-) One(t)
           r == RanAs(t, c)
           W == V (+) One(r)
<1>1. T[t] \in Nat /\ T[t] > 0 /\ Copies(t, T) = T[t]
    BY DEF IsTasks, IsABag, Copies
<1>2. Copies(t, V) < Copies(t, T)
    BY <1>1 DEF Copies, One, SetToBag, (-)
<1>3. t \in Task
    BY DEF IsTasks
<1>4. r \in Task /\ r # t
    BY <1>3, RanFacts
<1>5. IsTasks(V)
    BY TakenFacts
<1> HIDE DEF V, r
<1>6. /\ DOMAIN W = DOMAIN V \cup {r}
      /\ \A y \in DOMAIN V : y # r => W[y] = V[y]
    BY <1>4, <1>5, AddedFacts
<1> HIDE DEF W
<1>7. Copies(t, W) = Copies(t, V)
    BY <1>4, <1>6 DEF Copies
<1> QED
    BY <1>2, <1>7 DEF AfterRun, V, r, W

(***************************************************************************)
(* Saving one form does not undo what another saved: a field changes when  *)
(* the form that has it is saved.  The exceptions are tasks that           *)
(* overlapped, and those a page starts after a set-rebranding that failed  *)
(* behind its write or completed without one, whose outcome it was not     *)
(* told: they send the other form's field as the page still recalls it.    *)
(***************************************************************************)
THEOREM SavingUndoesNothing == Spec => SavedStays
<1>1. ASSUME Parts, [Next]_vars
      PROVE  [\A f \in Fields : conf'[f] # conf[f] =>
                \E t \in DOMAIN tasks :
                    /\ Copies(t, tasks') < Copies(t, tasks)
                    /\ t.kind = f \/ ~t.alone]_vars
    <2> SUFFICES ASSUME Next, NEW f \in Fields, conf'[f] # conf[f]
                 PROVE  \E t \in DOMAIN tasks :
                            /\ Copies(t, tasks') < Copies(t, tasks)
                            /\ t.kind = f \/ ~t.alone
        BY <1>1
    <2>1. \E t \in DOMAIN tasks : Runs(t)
        <3>1. CASE \E p \in Pages : OpenPage(p)
            BY <3>1 DEF OpenPage
        <3>2. CASE \E g \in Fields : Type(g)
            BY <3>2 DEF Type
        <3>3. CASE ReloadConfig
            BY <3>3 DEF ReloadConfig
        <3>4. CASE Save
            BY <3>4 DEF Save, SetHotel, SetIntegrations, StartConfiguration,
                  ChangeAdminPassword, SetAlerts, SetBrandName, SetRebranding, Submit
        <3>5. CASE Running
            BY <3>5 DEF Running, RebrandingInactive, OrphanFails
        <3>6. CASE Answered
            BY <3>6 DEF Answered, GetHotelAnswered, GetIntegrationsAnswered,
                  GetConfigurationAnswered, GetRebrandingAnswered, GetUserDomainsAnswered,
                  GetDefaultsAnswered, SetHotelAnswered, SetIntegrationsAnswered,
                  ConfigureModuleAnswered, SetAlertsAnswered, SetAdminPasswordAnswered,
                  SetRebrandingAnswered, SavedThenRead, Kept
        <3> QED
            BY <3>1, <3>2, <3>3, <3>4, <3>5, <3>6 DEF Next
    <2>2. PICK t \in DOMAIN tasks : Runs(t)
        BY <2>1
    <2>4. /\ IsTasks(tasks) /\ TasksInv(tasks, page) /\ AloneInv(tasks, conf)
          /\ conf \in [Fields -> Values]
        BY <1>1 DEF Parts, Base, Shapes, Sound
    <2>6. t \in Task /\ OwnTask(t, page)
        BY <2>4 DEF IsTasks, TasksInv
    <2>3. ~t.done /\ conf' = Wrote(t, conf) /\ tasks' = AfterRun(tasks, t, conf)
        BY <2>2, <2>4, <2>6, RunsIs
    <2>5. Copies(t, tasks') < Copies(t, tasks)
        BY <2>3, <2>4, OneFewer
    <2>7. /\ t.kind \in Reads => Wrote(t, conf) = conf
          /\ t.kind \in Fields => \A g \in WrittenBy(t) : Wrote(t, conf)[g] = t.data[g]
          /\ t.kind \in Fields => \A g \in Fields \ WrittenBy(t) : Wrote(t, conf)[g] = conf[g]
          /\ t.kind \in Fields /\ t.kind \notin Brand => WrittenBy(t) = {t.kind}
          /\ t.kind \in Brand => WrittenBy(t) = Brand
        BY <2>4, <2>6, WroteFacts
    <2>8. t.kind \in Fields /\ f \in WrittenBy(t)
        BY <2>3, <2>6, <2>7, TaskParts
    <2>9. t.kind = f \/ ~t.alone
        <3> SUFFICES ASSUME t.kind # f, t.alone
                     PROVE  FALSE
            OBVIOUS
        <3>1. t.kind \in Brand /\ f \in Brand
            BY <2>7, <2>8
        <3>2. t.data[f] = conf[f]
            BY <2>3, <2>4, <3>1 DEF AloneInv
        <3> QED
            BY <2>3, <2>7, <2>8, <3>2
    <2> QED
        BY <2>5, <2>9
<1> QED
    BY <1>1, PartsAlways, PTL DEF Spec, SavedStays
=============================================================================
