------------------------- MODULE FirstConfigProofs -------------------------
(***************************************************************************)
(* FirstConfig, for any number of proxies and of tasks: the wizard reaches *)
(* its last step with what that step needs, submits nothing twice and      *)
(* waits for nothing that does not come.                                   *)
(***************************************************************************)
EXTENDS FirstConfigInv, WellFoundedInduction, TLAPS

-----------------------------------------------------------------------------
(* The bag of tasks.                                                       *)

LEMMA BagAdd ==
    ASSUME NEW T, NEW x, IsABag(T)
    PROVE  /\ IsABag(T (+) One(x))
           /\ DOMAIN (T (+) One(x)) = DOMAIN T \cup {x}
           /\ \A y \in DOMAIN T : y # x => (T (+) One(x))[y] = T[y]
           /\ x \notin DOMAIN T => (T (+) One(x))[x] = 1
BY DEF IsABag, One, SetToBag, (+)

LEMMA BagRemove ==
    ASSUME NEW T, NEW x, IsABag(T)
    PROVE  /\ IsABag(T (-) One(x))
           /\ DOMAIN (T (-) One(x)) \subseteq DOMAIN T
           /\ DOMAIN T \subseteq DOMAIN (T (-) One(x)) \cup {x}
           /\ \A y \in DOMAIN (T (-) One(x)) : y # x => (T (-) One(x))[y] = T[y]
           /\ x \in DOMAIN T /\ T[x] = 1 => x \notin DOMAIN (T (-) One(x))
BY DEF IsABag, One, SetToBag, (-)

LEMMA BagUnionFacts ==
    ASSUME NEW T, NEW U, IsABag(T), IsABag(U)
    PROVE  IsABag(T (+) U) /\ DOMAIN (T (+) U) = DOMAIN T \cup DOMAIN U
BY DEF IsABag, (+)

LEMMA OnlyFacts ==
    ASSUME NEW T, NEW S, IsABag(T)
    PROVE  IsABag(Only(T, S)) /\ DOMAIN Only(T, S) = DOMAIN T \cap S
BY DEF IsABag, Only

\* The tasks nobody hears any more: of a kind that changes the cluster, and still to run.
LEMMA OrphanedFacts ==
    ASSUME NEW T, IsABag(T), DOMAIN T \subseteq Task
    PROVE  /\ IsABag(Orphaned(T)) /\ DOMAIN Orphaned(T) \subseteq Task
           /\ \A t \in DOMAIN Orphaned(T) :
                 /\ ~t.live /\ ~t.done /\ t.kind \in StepWrites
                 /\ \E u \in DOMAIN T : u.kind = t.kind /\ u.id = t.id
<1> DEFINE under == {t \in DOMAIN T : t.kind \in StepWrites /\ ~t.done}
           old == Only(T, {t \in under : ~t.live})
           O == {Orphan(t) : t \in {u \in under : u.live}}
           new == [o \in O |-> T[[o EXCEPT !.live = TRUE]]]
<1>1. IsABag(old) /\ DOMAIN old = {t \in under : ~t.live}
    <2>1. IsABag(old) /\ DOMAIN old = DOMAIN T \cap {t \in under : ~t.live}
        BY OnlyFacts
    <2> QED
        BY <2>1
<1>2. ASSUME NEW o \in O
      PROVE  /\ o \in Task /\ ~o.live /\ ~o.done /\ o.kind \in StepWrites
             /\ [o EXCEPT !.live = TRUE] \in DOMAIN T
             /\ \E u \in DOMAIN T : u.kind = o.kind /\ u.id = o.id
    <2>1. PICK t \in under : t.live /\ o = [t EXCEPT !.live = FALSE]
        BY DEF Orphan
    <2>2. t \in Task /\ t \in DOMAIN T /\ ~t.done /\ t.kind \in StepWrites
        OBVIOUS
    <2>3. /\ o \in Task /\ o.live = FALSE /\ o.done = t.done /\ o.kind = t.kind /\ o.id = t.id
        BY <2>1, <2>2 DEF Task
    <2>4. [o EXCEPT !.live = TRUE] = t
        BY <2>1, <2>2 DEF Task
    <2> QED
        BY <2>2, <2>3, <2>4
<1>3. IsABag(new) /\ DOMAIN new = O
    BY <1>2 DEF IsABag
<1>4. Orphaned(T) = old (+) new
    BY DEF Orphaned
<1> HIDE DEF old, new
<1>5. IsABag(old (+) new) /\ DOMAIN (old (+) new) = DOMAIN old \cup DOMAIN new
    BY <1>1, <1>3, BagUnionFacts
<1>6. IsABag(Orphaned(T)) /\ DOMAIN Orphaned(T) = DOMAIN old \cup O
    BY <1>3, <1>4, <1>5
<1> QED
    BY <1>1, <1>2, <1>6

LEMMA LeftFacts ==
    ASSUME NEW T, IsABag(T), DOMAIN T \subseteq Task
    PROVE  /\ IsABag(Left(T)) /\ DOMAIN Left(T) \subseteq Task
           /\ \A t \in DOMAIN Left(T) :
                 \/ t \in DOMAIN T /\ t.kind \notin StepKinds
                 \/ /\ ~t.live /\ ~t.done /\ t.kind \in StepWrites
                    /\ \E u \in DOMAIN T : u.kind = t.kind /\ u.id = t.id
           /\ \A t \in DOMAIN T : t.kind \notin StepKinds => t \in DOMAIN Left(T)
<1> DEFINE rest == Only(T, {t \in DOMAIN T : t.kind \notin StepKinds})
<1>1. IsABag(rest) /\ DOMAIN rest = {t \in DOMAIN T : t.kind \notin StepKinds}
    <2>1. IsABag(rest) /\ DOMAIN rest = DOMAIN T \cap {t \in DOMAIN T : t.kind \notin StepKinds}
        BY OnlyFacts
    <2> QED
        BY <2>1
<1>2. Left(T) = rest (+) Orphaned(T)
    BY DEF Left
<1> DEFINE orph == Orphaned(T)
<1>3. /\ IsABag(orph) /\ DOMAIN orph \subseteq Task
      /\ \A t \in DOMAIN orph :
            /\ ~t.live /\ ~t.done /\ t.kind \in StepWrites
            /\ \E u \in DOMAIN T : u.kind = t.kind /\ u.id = t.id
    BY OrphanedFacts
<1> HIDE DEF rest, orph
<1>4. IsABag(rest (+) orph) /\ DOMAIN (rest (+) orph) = DOMAIN rest \cup DOMAIN orph
    BY <1>1, <1>3, BagUnionFacts
<1>5. IsABag(Left(T)) /\ DOMAIN Left(T) = DOMAIN rest \cup DOMAIN orph
    BY <1>2, <1>4 DEF orph
<1> QED
    BY <1>1, <1>3, <1>5

-----------------------------------------------------------------------------
(* What is said of the tasks, of any bag of them.                          *)

NewTask(kind, id) == [kind |-> kind, id |-> id, live |-> TRUE, done |-> FALSE, seen |-> 0]

Good(T, s, busy) ==
    /\ IsABag(T) /\ DOMAIN T \subseteq Task
    /\ \A t \in DOMAIN T : Told(t) /\ Heard(t, s, busy)
Writing(T) == {t \in DOMAIN T : t.live /\ t.kind \in StepWrites}
Once(T) == \A t, u \in Writing(T) : T[t] = 1 /\ (t.kind = u.kind => t = u)
Wait(T, load) == \A k \in load : \E t \in DOMAIN T : t.kind = k
Busy(T, busy) == \A f \in busy : \E t \in DOMAIN T : t.live /\ t.kind \in TaskOf(f)

LEMMA TaskOfFacts ==
    /\ TaskOf("list") = {"list-user-domains"}
    /\ TaskOf("install") = {"add-internal-provider", "add-proxy"}
    /\ TaskOf("configure") = {"configure-openldap", "configure-proxy", "configure-module"}
BY DEF TaskOf

LEMMA InvParts ==
    ASSUME IInv
    PROVE  /\ Good(tasks, step, ui.busy) /\ Once(tasks) /\ Wait(tasks, loading)
           /\ ~deaf => Busy(tasks, ui.busy)
           /\ TypeOK
BY DEF IInv, TypeOK, TasksInv, OneSubmission, NobodyWaitsInVain, Good, Once, Writing, Wait, Busy

\* A task more: of the present step, which has set its flag, or of the modal.
LEMMA GoodAdd ==
    ASSUME NEW T, NEW s, NEW busy, Good(T, s, busy), NEW kind \in Kinds, NEW id \in Nat,
           kind \in {"get-proxy", "get-step-proxy", "configure-proxy"} => id \in Proxies,
           kind \in StepKinds => OfStep(kind, s) /\ Flagged(kind, busy)
    PROVE  /\ Good(Create(T, kind, id), s, busy)
           /\ DOMAIN Create(T, kind, id) = DOMAIN T \cup {NewTask(kind, id)}
           /\ NewTask(kind, id).kind = kind /\ NewTask(kind, id).live
<1> DEFINE x == NewTask(kind, id)
<1>1. Create(T, kind, id) = T (+) One(x)
    BY DEF Create, NewTask
<1>2. /\ x \in Task /\ x.kind = kind /\ x.id = id /\ x.live = TRUE /\ x.done = FALSE
    BY DEF NewTask, Task
<1>3. Told(x) /\ Heard(x, s, busy)
    BY <1>2 DEF Told, Heard
<1> HIDE DEF x
<1>4. IsABag(T (+) One(x)) /\ DOMAIN (T (+) One(x)) = DOMAIN T \cup {x}
    BY BagAdd DEF Good
<1>5. Good(T (+) One(x), s, busy)
    BY <1>2, <1>3, <1>4 DEF Good
<1> QED
    BY <1>1, <1>2, <1>4, <1>5 DEF x

LEMMA OncePut ==
    ASSUME NEW T, IsABag(T), Once(T), NEW x,
           x.live /\ x.kind \in StepWrites => \A t \in Writing(T) : t.kind # x.kind
    PROVE  Once(T (+) One(x))
<1> DEFINE U == T (+) One(x)
<1>1. /\ DOMAIN U = DOMAIN T \cup {x}
      /\ \A y \in DOMAIN T : y # x => U[y] = T[y]
      /\ x \notin DOMAIN T => U[x] = 1
    BY BagAdd
<1> HIDE DEF U
<1>2. \A t \in Writing(U) : t \in Writing(T) \/ t = x
    BY <1>1 DEF Writing
<1>3. x.live /\ x.kind \in StepWrites => x \notin DOMAIN T
    BY DEF Writing
<1>4. ~(x.live /\ x.kind \in StepWrites) => x \notin Writing(U)
    BY DEF Writing
<1>5. \A t \in Writing(T) : t \in DOMAIN T
    BY DEF Writing
<1>6. Once(U)
    BY <1>1, <1>2, <1>3, <1>4, <1>5 DEF Once
<1> QED
    BY <1>6 DEF U

LEMMA OnceAdd ==
    ASSUME NEW T, IsABag(T), Once(T), NEW kind, NEW id,
           kind \in StepWrites => \A t \in Writing(T) : t.kind # kind
    PROVE  Once(Create(T, kind, id))
<1>1. Create(T, kind, id) = T (+) One(NewTask(kind, id))
    BY DEF Create, NewTask
<1>2. NewTask(kind, id).kind = kind
    BY DEF NewTask
<1> QED
    BY <1>1, <1>2, OncePut

LEMMA GoodRemove ==
    ASSUME NEW T, NEW s, NEW busy, Good(T, s, busy), Once(T), NEW x \in DOMAIN T
    PROVE  /\ Good(T (-) One(x), s, busy) /\ Once(T (-) One(x))
           /\ DOMAIN (T (-) One(x)) \subseteq DOMAIN T
           /\ DOMAIN T \subseteq DOMAIN (T (-) One(x)) \cup {x}
           /\ x \in Writing(T) => \A t \in Writing(T (-) One(x)) : t.kind # x.kind
<1> DEFINE U == T (-) One(x)
<1>1. /\ IsABag(U) /\ DOMAIN U \subseteq DOMAIN T /\ DOMAIN T \subseteq DOMAIN U \cup {x}
      /\ \A y \in DOMAIN U : y # x => U[y] = T[y]
      /\ T[x] = 1 => x \notin DOMAIN U
    BY BagRemove DEF Good
<1> HIDE DEF U
<1>2. Good(U, s, busy)
    BY <1>1 DEF Good
<1>3. \A t \in Writing(U) : t \in Writing(T) /\ t \in DOMAIN U
    BY <1>1 DEF Writing
<1>4. x \in Writing(T) => x \notin DOMAIN U
    BY <1>1 DEF Once
<1>5. Once(U)
    BY <1>1, <1>3, <1>4 DEF Once
<1>6. x \in Writing(T) => \A t \in Writing(U) : t.kind # x.kind
    BY <1>3, <1>4 DEF Once
<1> QED
    BY <1>1, <1>2, <1>5, <1>6 DEF U

\* The step is destroyed.
LEMMA GoodLeft ==
    ASSUME NEW T, NEW s, NEW busy, Good(T, s, busy)
    PROVE  /\ \A r, b : Good(Left(T), r, b)
           /\ Writing(Left(T)) = {} /\ Once(Left(T))
           /\ \A t \in DOMAIN T : t.kind \notin StepKinds => t \in DOMAIN Left(T)
<1>1. /\ IsABag(Left(T)) /\ DOMAIN Left(T) \subseteq Task
      /\ \A t \in DOMAIN Left(T) :
            \/ t \in DOMAIN T /\ t.kind \notin StepKinds
            \/ /\ ~t.live /\ ~t.done /\ t.kind \in StepWrites
               /\ \E u \in DOMAIN T : u.kind = t.kind /\ u.id = t.id
      /\ \A t \in DOMAIN T : t.kind \notin StepKinds => t \in DOMAIN Left(T)
    BY LeftFacts DEF Good
<1>2. \A t \in DOMAIN Left(T) : Told(t)
    <2> SUFFICES ASSUME NEW t \in DOMAIN Left(T) PROVE Told(t)
        OBVIOUS
    <2>1. CASE t \in DOMAIN T
        BY <2>1 DEF Good
    <2>2. CASE ~t.done /\ \E u \in DOMAIN T : u.kind = t.kind /\ u.id = t.id
        BY <2>2 DEF Good, Told
    <2> QED
        BY <1>1, <2>1, <2>2
<1>3. \A t \in DOMAIN Left(T) : \A r, b : Heard(t, r, b)
    BY <1>1 DEF Good, Heard
<1>4. Writing(Left(T)) = {}
    BY <1>1 DEF Writing, StepKinds
<1> QED
    BY <1>1, <1>2, <1>3, <1>4 DEF Good, Once

-----------------------------------------------------------------------------
(* The handlers of the browser leave the cluster alone.  What they have to *)
(* show, once for those that keep the step and once for those that show    *)
(* one.                                                                    *)

UiTypes == [busy: SUBSET Flags, know: SUBSET Facts]
ModalTypes ==
    /\ shown \in BOOLEAN /\ appConfigured \in BOOLEAN /\ status \in BOOLEAN
    /\ defaults \in BOOLEAN /\ provider \in BOOLEAN /\ installed \in BOOLEAN
    /\ skip \in BOOLEAN /\ proxyId \in Nat /\ failed \in BOOLEAN
    /\ loading \subseteq {"get-defaults", "get-proxy"}

LEMMA ModalTyped == ASSUME IInv PROVE ModalTypes
BY DEF IInv, TypeOK, ModalTypes

LEMMA Assemble ==
    ASSUME IInv, UNCHANGED cluster, ModalTypes', step' \in Steps \cup {""}, ui' \in UiTypes,
           deaf' \in BOOLEAN, Good(tasks', step', ui'.busy), Once(tasks'),
           Wait(tasks', loading'), ~deaf' => Busy(tasks', ui'.busy),
           ProxyInv', KnowInv', StepInv', TimezonesAreThere'
    PROVE  IInv'
<1>1. TypeOK'
    BY DEF TypeOK, ModalTypes, UiTypes, Good, IInv, cluster
<1>2. \A t : Told(t) => Told(t)'
    BY DEF Told, Configured, cluster
<1>3. TasksInv'
    BY <1>2 DEF TasksInv, Good, Heard
<1>4. OneSubmission'
    BY DEF OneSubmission, Once, Writing
<1>5. NobodyWaitsInVain'
    BY DEF NobodyWaitsInVain, Wait, Busy
<1> QED
    BY <1>1, <1>3, <1>4, <1>5 DEF IInv

\* The step stays, and learns at most what is so.
LEMMA Stays ==
    ASSUME IInv, UNCHANGED <<cluster, step, provider, skip>>, ModalTypes', ui' \in UiTypes,
           deaf' \in BOOLEAN, Good(tasks', step, ui'.busy), Once(tasks'),
           Wait(tasks', loading'), ~deaf' => Busy(tasks', ui'.busy),
           defaults => defaults', failed => failed',
           "get-defaults" \in loading => "get-defaults" \in loading' \/ defaults' \/ failed',
           proxyId' \in Proxies \cup {0}, installed' => proxyId' # 0,
           shown' => shown, ui.know \subseteq ui'.know,
           "domains" \in ui'.know => "domains" \in ui.know \/ domains,
           "fqdn" \in ui'.know => "fqdn" \in ui.know \/ Configured
    PROVE  IInv'
<1>1. step' = step /\ provider' = provider /\ skip' = skip /\ domains' = domains
      /\ Configured' = Configured
    BY DEF cluster, Configured
<1>2. ProxyInv'
    BY <1>1 DEF IInv, ProxyInv
<1>3. KnowInv'
    BY <1>1 DEF IInv, KnowInv
<1>4. StepInv'
    <2>1. /\ shown => step # ""
          /\ step \in {"proxy", "nethvoice"} => provider
          /\ step = "nethvoice" => Configured
          /\ step # "" => "get-defaults" \in loading \/ defaults \/ failed
          /\ step \in {"openldap", "proxy", "nethvoice"} => defaults \/ failed
        BY DEF IInv, StepInv
    <2>2. shown' => step' # ""
        BY <1>1, <2>1
    <2>3. step' \in {"proxy", "nethvoice"} => provider'
        <3>1. step \in {"proxy", "nethvoice"} => provider
            BY <2>1
        <3>2. step' = step /\ provider' = provider
            BY <1>1
        <3> QED
            BY <3>1, <3>2
    <2>4. step' = "nethvoice" => Configured'
        BY <1>1, <2>1
    <2>5. /\ step' # "" => "get-defaults" \in loading' \/ defaults' \/ failed'
          /\ step' \in {"openldap", "proxy", "nethvoice"} => defaults' \/ failed'
        BY <1>1, <2>1
    <2> QED
        BY <2>2, <2>3, <2>4, <2>5 DEF StepInv
<1>5. TimezonesAreThere'
    BY <1>1 DEF IInv, TimezonesAreThere
<1>6. step' \in Steps \cup {""}
    BY <1>1 DEF IInv, TypeOK
<1>7. Good(tasks', step', ui'.busy)
    BY <1>1
<1> QED
    BY <1>2, <1>3, <1>4, <1>5, <1>6, <1>7, Assemble

\* A step is created with tasks of its own, none of which changes the cluster.
LEMMA CreatedFacts ==
    ASSUME NEW s \in Steps, NEW T, NEW st \in BOOLEAN, NEW def \in BOOLEAN,
           NEW id \in Proxies \cup {0}, \A r, b : Good(T, r, b), Writing(T) = {}
    PROVE  /\ CreatedUi(s, st, def) \in UiTypes
           /\ Good(CreatedTasks(s, T, st, id), s, CreatedUi(s, st, def).busy)
           /\ Once(CreatedTasks(s, T, st, id))
           /\ Busy(CreatedTasks(s, T, st, id), CreatedUi(s, st, def).busy)
           /\ DOMAIN T \subseteq DOMAIN CreatedTasks(s, T, st, id)
           /\ CreatedUi(s, st, def).know \subseteq {"timezones"}
           /\ s = "nethvoice" /\ def => "timezones" \in CreatedUi(s, st, def).know
<1> DEFINE u == CreatedUi(s, st, def)
           U == CreatedTasks(s, T, st, id)
<1>0. /\ s = "accountProvider" => u = [busy |-> {"list"}, know |-> {}]
      /\ s = "openldap" => u = [busy |-> IF st THEN {"install"} ELSE {}, know |-> {}]
      /\ s = "proxy" => u = [busy |-> {}, know |-> {}]
      /\ s = "nethvoice" => u = [busy |-> {}, know |-> IF def THEN {"timezones"} ELSE {}]
    BY DEF CreatedUi, NoStep, Steps
<1>1. /\ s = "accountProvider" => U = Create(T, "list-user-domains", 0)
      /\ s = "openldap" => U = IF st THEN Create(T, "add-internal-provider", 0) ELSE T
      /\ s = "proxy" => U = IF id # 0 THEN Create(T, "get-step-proxy", id) ELSE T
      /\ s = "nethvoice" => U = T
    BY DEF CreatedTasks, ListUserDomains, InstallOpenldapProvider, GetStepProxyConfig, Steps
<1>2. u \in UiTypes /\ u.know \subseteq {"timezones"} /\ (s = "nethvoice" /\ def => "timezones" \in u.know)
    BY <1>0 DEF UiTypes, Flags, Facts, Steps
<1>3. id \in Nat
    BY WizardAssumption DEF Proxies
<1>4. Good(T, s, u.busy) /\ IsABag(T) /\ Once(T)
    BY DEF Good, Once
<1> HIDE DEF u, U
<1>5. ASSUME NEW kind \in StepReads, NEW i \in Nat, OfStep(kind, s),
             kind \in {"get-proxy", "get-step-proxy", "configure-proxy"} => i \in Proxies
      PROVE  /\ Good(Create(T, kind, i), s, u.busy) /\ Once(Create(T, kind, i))
             /\ DOMAIN T \subseteq DOMAIN Create(T, kind, i)
             /\ \E t \in DOMAIN Create(T, kind, i) : t.live /\ t.kind = kind
    <2>1. kind \in Kinds /\ kind \notin StepWrites /\ Flagged(kind, u.busy)
        BY <1>5 DEF Kinds, StepKinds, StepReads, StepWrites, Flagged
    <2>2. /\ Good(Create(T, kind, i), s, u.busy)
          /\ DOMAIN Create(T, kind, i) = DOMAIN T \cup {NewTask(kind, i)}
          /\ NewTask(kind, i).kind = kind /\ NewTask(kind, i).live
        BY <1>4, <1>5, <2>1, GoodAdd
    <2>3. Once(Create(T, kind, i))
        BY <1>4, <2>1, OnceAdd
    <2> QED
        BY <2>2, <2>3
<1>6. CASE s = "accountProvider"
    <2>1. OfStep("list-user-domains", s) /\ "list-user-domains" \in StepReads /\ 0 \in Nat
        BY <1>6 DEF OfStep, StepReads
    <2> QED
        BY <1>0, <1>1, <1>2, <1>5, <1>6, <2>1, TaskOfFacts DEF u, U, Busy
<1>7. CASE s = "openldap"
    <2>1. OfStep("add-internal-provider", s) /\ "add-internal-provider" \in StepReads /\ 0 \in Nat
        BY <1>7 DEF OfStep, StepReads
    <2> QED
        BY <1>0, <1>1, <1>2, <1>4, <1>5, <1>7, <2>1, TaskOfFacts DEF u, U, Busy
<1>8. CASE s = "proxy"
    <2>1. OfStep("get-step-proxy", s) /\ "get-step-proxy" \in StepReads
        BY <1>8 DEF OfStep, StepReads
    <2> QED
        BY <1>0, <1>1, <1>2, <1>3, <1>4, <1>5, <1>8, <2>1 DEF u, U, Busy
<1>9. CASE s = "nethvoice"
    BY <1>0, <1>1, <1>2, <1>4, <1>9 DEF u, U, Busy
<1> QED
    BY <1>6, <1>7, <1>8, <1>9 DEF Steps

\* The modal shows a step, or goes on showing it.
LEMMA Shows ==
    ASSUME IInv, UNCHANGED cluster, ModalTypes', NEW s \in Steps, NEW T,
           Good(T, step, ui.busy), Once(T), Wait(T, loading'), GoTo(s, T),
           SkipProxyStepIfConfigured(s, skip') = step /\ ~deaf => Busy(T, ui.busy),
           proxyId' \in Proxies \cup {0}, installed' => proxyId' # 0, skip' => Configured,
           provider' => domains,
           s \in {"proxy", "nethvoice"} => provider', s = "nethvoice" => Configured,
           failed => failed',
           "get-defaults" \in loading' \/ defaults' \/ failed',
           s # "accountProvider" => defaults' \/ failed'
    PROVE  IInv'
<1> DEFINE to == SkipProxyStepIfConfigured(s, skip')
<1>1. to \in Steps /\ (to = s \/ (s = "proxy" /\ skip' /\ to = "nethvoice"))
    BY DEF SkipProxyStepIfConfigured, Steps
<1>2. domains' = domains /\ Configured' = Configured
    BY DEF cluster, Configured
<1>3. /\ step' = to
      /\ to = step => ui' = ui /\ tasks' = T /\ deaf' = deaf
      /\ to # step => /\ ui' = CreatedUi(to, status', defaults')
                      /\ tasks' = CreatedTasks(to, Left(T), status', proxyId')
                      /\ deaf' = FALSE
    BY DEF GoTo
<1> HIDE DEF to
<1>4. ProxyInv'
    BY <1>2 DEF ProxyInv
<1>5. StepInv'
    BY <1>1, <1>2, <1>3 DEF StepInv, Steps
<1>6. CASE to = step
    <2>1. KnowInv' /\ TimezonesAreThere'
        BY <1>2, <1>3, <1>6 DEF IInv, KnowInv, TimezonesAreThere
    <2>2. ui' \in UiTypes /\ deaf' \in BOOLEAN /\ step' \in Steps \cup {""}
        BY <1>1, <1>3, <1>6 DEF IInv, TypeOK, UiTypes
    <2>3. Good(tasks', step', ui'.busy) /\ Once(tasks') /\ Wait(tasks', loading')
        BY <1>3, <1>6
    <2>4. ~deaf' => Busy(tasks', ui'.busy)
        BY <1>3, <1>6 DEF to
    <2> QED
        BY <1>4, <1>5, <2>1, <2>2, <2>3, <2>4, Assemble
<1>7. CASE to # step
    <2>1. /\ \A r, b : Good(Left(T), r, b)
          /\ Writing(Left(T)) = {}
          /\ \A t \in DOMAIN T : t.kind \notin StepKinds => t \in DOMAIN Left(T)
        BY GoodLeft
    <2>2. status' \in BOOLEAN /\ defaults' \in BOOLEAN /\ loading' \subseteq {"get-defaults", "get-proxy"}
        BY DEF ModalTypes
    <2>3. /\ ui' \in UiTypes
          /\ Good(tasks', to, ui'.busy) /\ Once(tasks') /\ Busy(tasks', ui'.busy)
          /\ DOMAIN Left(T) \subseteq DOMAIN tasks'
          /\ ui'.know \subseteq {"timezones"}
          /\ to = "nethvoice" /\ defaults' => "timezones" \in ui'.know
        BY <1>1, <1>3, <1>7, <2>1, <2>2, CreatedFacts
    <2>4. Wait(tasks', loading')
        <3>1. \A k \in loading' : k \notin StepKinds
            BY <2>2 DEF StepKinds, StepReads, StepWrites
        <3> QED
            BY <2>1, <2>3, <3>1 DEF Wait
    <2>5. KnowInv'
        BY <1>2, <2>3 DEF KnowInv
    <2>6. TimezonesAreThere'
        BY <1>1, <1>3, <2>3 DEF TimezonesAreThere
    <2>7. step' \in Steps \cup {""} /\ deaf' \in BOOLEAN
        BY <1>1, <1>3, <1>7
    <2>8. Good(tasks', step', ui'.busy)
        BY <1>3, <2>3
    <2> QED
        BY <1>4, <1>5, <2>3, <2>4, <2>5, <2>6, <2>7, <2>8, Assemble
<1> QED
    BY <1>6, <1>7

-----------------------------------------------------------------------------
(* An answer: its task is gone, the others are as they were.               *)

LEMMA MoreFlags ==
    ASSUME NEW T, NEW s, NEW b, NEW c, Good(T, s, b), b \subseteq c
    PROVE  Good(T, s, c)
<1>1. \A t : Heard(t, s, b) => Heard(t, s, c)
    BY DEF Heard, Flagged
<1> QED
    BY <1>1 DEF Good

LEMMA AnswerFacts ==
    ASSUME IInv, NEW kind, NEW a \in AnswersTo(kind)
    PROVE  /\ a.task \in DOMAIN tasks /\ a.task.kind = kind /\ a.task.live /\ a.task \in Task
           /\ Told(a.task)
           /\ Done(a) /\ kind \notin Opaque => a.task.done
           /\ ~Done(a) => a.o \in Failures(kind)
           /\ kind \in StepKinds => OfStep(kind, step) /\ Flagged(kind, ui.busy)
           /\ Good(Rest(a), step, ui.busy) /\ Once(Rest(a))
           /\ DOMAIN Rest(a) \subseteq DOMAIN tasks
           /\ DOMAIN tasks \subseteq DOMAIN Rest(a) \cup {a.task}
           /\ kind \in StepWrites => \A t \in Writing(Rest(a)) : t.kind # kind
<1>1. /\ a.task \in DOMAIN tasks /\ a.task.kind = kind /\ a.task.live
      /\ IF a.o = "completed" THEN a.task.done \/ kind \in Opaque
         ELSE ~a.task.done /\ a.o \in Failures(kind)
    BY DEF AnswersTo
<1>2. Good(tasks, step, ui.busy) /\ Once(tasks)
    BY InvParts
<1>3. a.task \in Task /\ Told(a.task) /\ Heard(a.task, step, ui.busy)
    BY <1>1, <1>2 DEF Good
<1>4. kind \in StepKinds => OfStep(kind, step) /\ Flagged(kind, ui.busy)
    BY <1>1, <1>3 DEF Heard
<1>5. kind \in StepWrites => a.task \in Writing(tasks)
    BY <1>1 DEF Writing
<1>6. /\ Good(Rest(a), step, ui.busy) /\ Once(Rest(a))
      /\ DOMAIN Rest(a) \subseteq DOMAIN tasks
      /\ DOMAIN tasks \subseteq DOMAIN Rest(a) \cup {a.task}
      /\ a.task \in Writing(tasks) => \A t \in Writing(Rest(a)) : t.kind # a.task.kind
    BY <1>1, <1>2, GoodRemove DEF Rest
<1> QED
    BY <1>1, <1>3, <1>4, <1>5, <1>6 DEF Done

\* Nobody waits for it any more, and those who wait for others still may.
LEMMA RestWaits ==
    ASSUME IInv, NEW kind, NEW a \in AnswersTo(kind)
    PROVE  /\ \A L : L \subseteq loading /\ kind \notin L => Wait(Rest(a), L)
           /\ \A B : ~deaf /\ B \subseteq ui.busy /\ (\A f \in B : kind \notin TaskOf(f))
                         => Busy(Rest(a), B)
<1>1. /\ a.task.kind = kind /\ DOMAIN tasks \subseteq DOMAIN Rest(a) \cup {a.task}
    BY AnswerFacts
<1>2. Wait(tasks, loading) /\ (~deaf => Busy(tasks, ui.busy))
    BY InvParts
<1> QED
    BY <1>1, <1>2 DEF Wait, Busy

\* The flag of the task answered is reset: no task left needs it.
LEMMA FlagReset ==
    ASSUME IInv, NEW kind \in StepKinds, NEW a \in AnswersTo(kind), NEW f \in Flags,
           kind \in TaskOf(f)
    PROVE  /\ Good(Rest(a), step, ui.busy \ {f})
           /\ ~deaf => Busy(Rest(a), ui.busy \ {f})
           /\ Wait(Rest(a), loading)
<1>1. /\ Good(Rest(a), step, ui.busy) /\ OfStep(kind, step)
      /\ kind \in StepWrites => \A t \in Writing(Rest(a)) : t.kind # kind
    BY AnswerFacts
<1>2. \A t \in DOMAIN Rest(a) : Heard(t, step, ui.busy \ {f})
    <2> SUFFICES ASSUME NEW t \in DOMAIN Rest(a), t.live, t.kind \in StepKinds
                 PROVE  Flagged(t.kind, ui.busy \ {f})
        BY <1>1 DEF Good, Heard
    <2>1. OfStep(t.kind, step) /\ Flagged(t.kind, ui.busy)
        BY <1>1 DEF Good, Heard
    <2>2. t.kind \in StepWrites => t.kind # kind
        BY <1>1 DEF Writing
    <2>3. t.kind \in StepWrites => t.kind \notin TaskOf(f)
        BY <1>1, <2>1, <2>2, TaskOfFacts DEF Flags, OfStep, StepWrites
    <2>4. /\ "configure-openldap" \in StepWrites /\ "add-proxy" \in StepWrites
          /\ "configure-proxy" \in StepWrites /\ "configure-module" \in StepWrites
        BY DEF StepWrites
    <2> QED
        BY <2>1, <2>3, <2>4, TaskOfFacts DEF Flags, Flagged
<1>3. Good(Rest(a), step, ui.busy \ {f})
    BY <1>1, <1>2 DEF Good
<1>4. loading \subseteq loading /\ kind \notin loading
    BY DEF IInv, TypeOK, StepKinds, StepReads, StepWrites
<1>5. Wait(Rest(a), loading)
    BY <1>4, RestWaits
<1>6. \A g \in ui.busy \ {f} : kind \notin TaskOf(g)
    <2>1. ui.busy \subseteq Flags
        BY DEF IInv, TypeOK
    <2> QED
        BY <2>1, TaskOfFacts DEF Flags
<1>7. ~deaf => Busy(Rest(a), ui.busy \ {f})
    <2>1. ui.busy \ {f} \subseteq ui.busy
        OBVIOUS
    <2> QED
        BY <1>6, <2>1, RestWaits
<1> QED
    BY <1>3, <1>5, <1>7

\* The answers no flag waits for.
LEMMA NoFlag ==
    ASSUME IInv, NEW kind, NEW a \in AnswersTo(kind), \A f \in Flags : kind \notin TaskOf(f)
    PROVE  ~deaf => Busy(Rest(a), ui.busy)
<1>1. ui.busy \subseteq Flags
    BY DEF IInv, TypeOK
<1>2. ui.busy \subseteq ui.busy /\ \A f \in ui.busy : kind \notin TaskOf(f)
    BY <1>1
<1> QED
    BY <1>2, RestWaits

LEMMA LearnsFacts ==
    ASSUME IInv, NEW f, NEW K, K \subseteq Facts
    PROVE  /\ Learns(f, K) \in UiTypes
           /\ Learns(f, K).busy = ui.busy \ {f} /\ Learns(f, K).know = ui.know \cup K
           /\ f \notin Flags => Learns(f, K).busy = ui.busy
BY DEF IInv, TypeOK, Learns, UiTypes

\* The modal is as it was: only the step and the tasks have changed.
LEMMA StepOnly ==
    ASSUME IInv,
           UNCHANGED <<shown, appConfigured, store, step, provider, proxy, loading, cluster, failed>>,
           ui' \in UiTypes, deaf' \in BOOLEAN, Good(tasks', step, ui'.busy), Once(tasks'),
           Wait(tasks', loading), ~deaf' => Busy(tasks', ui'.busy),
           ui.know \subseteq ui'.know,
           "domains" \in ui'.know => "domains" \in ui.know \/ domains,
           "fqdn" \in ui'.know => "fqdn" \in ui.know \/ Configured
    PROVE  IInv'
<1>1. ModalTypes'
    BY ModalTyped DEF ModalTypes, store, proxy
<1>2. /\ UNCHANGED <<cluster, step, provider, skip>>
      /\ loading' = loading /\ defaults' = defaults /\ failed' = failed
      /\ installed' = installed /\ proxyId' = proxyId
    BY DEF store, proxy
<1>3. proxyId' \in Proxies \cup {0} /\ (installed' => proxyId' # 0)
    BY <1>2 DEF IInv, ProxyInv
<1>4. Wait(tasks', loading')
    BY <1>2
<1>5. /\ defaults => defaults'
      /\ failed => failed'
      /\ shown' => shown
      /\ "get-defaults" \in loading => "get-defaults" \in loading' \/ defaults' \/ failed'
    BY <1>2
<1> QED
    BY <1>1, <1>2, <1>3, <1>4, <1>5, Stays

-----------------------------------------------------------------------------
(* The answers a step hears.                                               *)

LEMMA SeenFacts ==
    ASSUME NEW a, Seen(a) # 0
    PROVE  Done(a) /\ a.task.seen = Seen(a)
BY DEF Seen

\* A task of the step that no flag is for is started after an answer.
LEMMA StepReadAdded ==
    ASSUME NEW T, NEW b, Good(T, step, b), Once(T), NEW kind \in StepReads, NEW id \in Nat,
           OfStep(kind, step), kind = "get-step-proxy" => id \in Proxies
    PROVE  /\ Good(Create(T, kind, id), step, b) /\ Once(Create(T, kind, id))
           /\ DOMAIN T \subseteq DOMAIN Create(T, kind, id)
           /\ \E t \in DOMAIN Create(T, kind, id) : t.live /\ t.kind = kind
<1>1. /\ kind \in Kinds /\ kind \notin StepWrites /\ Flagged(kind, b) /\ IsABag(T)
      /\ kind \notin {"get-proxy", "configure-proxy"}
    BY DEF Kinds, StepKinds, StepReads, StepWrites, Flagged, Good
<1>2. /\ Good(Create(T, kind, id), step, b)
      /\ DOMAIN Create(T, kind, id) = DOMAIN T \cup {NewTask(kind, id)}
      /\ NewTask(kind, id).kind = kind /\ NewTask(kind, id).live
    BY <1>1, GoodAdd
<1>3. Once(Create(T, kind, id))
    BY <1>1, OnceAdd
<1> QED
    BY <1>2, <1>3

\* More tasks wait for as much.
LEMMA MoreTasks ==
    ASSUME NEW T, NEW U, DOMAIN T \subseteq DOMAIN U
    PROVE  /\ \A L : Wait(T, L) => Wait(U, L)
           /\ \A B : Busy(T, B) => Busy(U, B)
BY DEF Wait, Busy

LEMMA ListUserDomainsKeeps == ASSUME IInv, ListUserDomainsAnswered PROVE IInv'
<1>1. PICK a \in AnswersTo("list-user-domains") :
          StepLearns(Learns("list", IF Seen(a) = 1 THEN {"domains"} ELSE {}), Rest(a))
    BY DEF ListUserDomainsAnswered
<1> DEFINE K == IF Seen(a) = 1 THEN {"domains"} ELSE {}
<1>2. Once(Rest(a)) /\ Told(a.task) /\ a.task.kind = "list-user-domains" /\ (Done(a) => a.task.done)
    BY AnswerFacts DEF Opaque
<1>3. Seen(a) = 1 => domains
    BY <1>2, SeenFacts DEF Told
<1>4. "list-user-domains" \in StepKinds /\ "list" \in Flags /\ "list-user-domains" \in TaskOf("list")
    BY TaskOfFacts DEF StepKinds, StepReads, Flags
<1>5. /\ Good(Rest(a), step, ui.busy \ {"list"})
      /\ ~deaf => Busy(Rest(a), ui.busy \ {"list"})
      /\ Wait(Rest(a), loading)
    BY <1>4, FlagReset
<1>6. K \subseteq Facts /\ ("domains" \in K => domains) /\ "fqdn" \notin K
    BY <1>3 DEF Facts
<1>7. ui' = Learns("list", K) /\ tasks' = Rest(a) /\ deaf' = deaf
    BY <1>1 DEF StepLearns
<1> HIDE DEF K
<1>8. ui' \in UiTypes /\ ui'.busy = ui.busy \ {"list"} /\ ui'.know = ui.know \cup K
    BY <1>6, <1>7, LearnsFacts
<1>9. deaf' \in BOOLEAN
    BY <1>7 DEF IInv, TypeOK
<1>10. UNCHANGED <<shown, appConfigured, store, step, provider, proxy, loading, cluster, failed>>
    BY <1>1 DEF StepLearns
<1> QED
    BY <1>2, <1>5, <1>6, <1>7, <1>8, <1>9, <1>10, StepOnly

LEMMA AddInternalProviderKeeps == ASSUME IInv, AddInternalProviderAnswered PROVE IInv'
<1>1. PICK a \in AnswersTo("add-internal-provider") :
        /\ tasks' = IF Done(a) THEN GetOpenLdapDefaults(Rest(a)) ELSE Rest(a)
        /\ ui' = IF a.o = "refused" THEN ui
                 ELSE Learns("install", IF Done(a) THEN {"created"} ELSE {})
        /\ deaf' = (deaf \/ a.o = "refused")
        /\ UNCHANGED <<shown, appConfigured, store, step, provider, proxy, loading, cluster,
                       failed>>
    BY DEF AddInternalProviderAnswered
<1> DEFINE K == IF Done(a) THEN {"created"} ELSE {}
<1>2. "add-internal-provider" \in StepKinds /\ "install" \in Flags
      /\ "add-internal-provider" \in TaskOf("install")
    BY TaskOfFacts DEF StepKinds, StepReads, Flags
<1>3. Good(Rest(a), step, ui.busy) /\ Once(Rest(a)) /\ OfStep("add-internal-provider", step)
    BY <1>2, AnswerFacts
<1>4. /\ Good(Rest(a), step, ui.busy \ {"install"})
      /\ ~deaf => Busy(Rest(a), ui.busy \ {"install"})
      /\ Wait(Rest(a), loading)
    BY <1>2, FlagReset
<1>5. K \subseteq Facts /\ "domains" \notin K /\ "fqdn" \notin K
    BY DEF Facts
<1>6. tasks' = IF Done(a) THEN Create(Rest(a), "get-openldap-defaults", 0) ELSE Rest(a)
    BY <1>1 DEF GetOpenLdapDefaults
<1> HIDE DEF K
<1>7. deaf' \in BOOLEAN /\ (~deaf' => ~deaf /\ a.o # "refused") /\ deaf \in BOOLEAN
    BY <1>1 DEF IInv, TypeOK
<1>8. /\ ui' \in UiTypes /\ ui.know \subseteq ui'.know /\ ui'.know \subseteq ui.know \cup K
      /\ a.o = "refused" => ui'.busy = ui.busy
      /\ a.o # "refused" => ui'.busy = ui.busy \ {"install"}
    <2>1. CASE a.o = "refused"
        BY <1>1, <2>1 DEF IInv, TypeOK, UiTypes
    <2>2. CASE a.o # "refused"
        <3>1. ui' = Learns("install", K)
            BY <1>1, <2>2 DEF K
        <3>2. ui' \in UiTypes /\ ui'.busy = ui.busy \ {"install"} /\ ui'.know = ui.know \cup K
            BY <1>5, <3>1, LearnsFacts
        <3> QED
            BY <2>2, <3>2
    <2> QED
        BY <2>1, <2>2
<1>9. Good(Rest(a), step, ui'.busy) /\ (~deaf' => Busy(Rest(a), ui'.busy))
    BY <1>3, <1>4, <1>7, <1>8
<1>10. OfStep("get-openldap-defaults", step) /\ "get-openldap-defaults" \in StepReads /\ 0 \in Nat
    BY <1>3 DEF OfStep, StepReads
<1>b. PICK b : b = ui'.busy
    OBVIOUS
<1>11. Good(tasks', step, ui'.busy) /\ Once(tasks') /\ DOMAIN Rest(a) \subseteq DOMAIN tasks'
    <2>1. Good(Rest(a), step, b)
        BY <1>9, <1>b
    <2>2. Good(tasks', step, b) /\ Once(tasks') /\ DOMAIN Rest(a) \subseteq DOMAIN tasks'
        BY <1>3, <1>6, <1>10, <2>1, StepReadAdded
    <2> QED
        BY <1>b, <2>2
<1>12. Wait(tasks', loading) /\ (~deaf' => Busy(tasks', ui'.busy))
    <2>1. ~deaf' => Busy(Rest(a), b)
        BY <1>9, <1>b
    <2>2. Wait(tasks', loading) /\ (~deaf' => Busy(tasks', b))
        BY <1>4, <1>11, <2>1, MoreTasks
    <2> QED
        BY <1>b, <2>2
<1> QED
    BY <1>1, <1>5, <1>7, <1>8, <1>11, <1>12, StepOnly

\* The three answers for which the step has set no flag.
LEMMA QuietAnswer ==
    ASSUME IInv, NEW kind \in {"get-openldap-defaults", "get-step-proxy", "get-interfaces"},
           NEW a \in AnswersTo(kind), NEW K, NEW T, K \subseteq Facts,
           StepLearns(Learns("", K), T), Good(T, step, ui.busy), Once(T),
           DOMAIN Rest(a) \subseteq DOMAIN T,
           "domains" \notin K, "fqdn" \in K => Configured
    PROVE  IInv'
<1>1. \A f \in Flags : kind \notin TaskOf(f)
    BY TaskOfFacts DEF Flags
<1>2. ~deaf => Busy(Rest(a), ui.busy)
    BY <1>1, NoFlag
<1>3. loading \subseteq loading /\ kind \notin loading
    BY DEF IInv, TypeOK
<1>4. Wait(Rest(a), loading)
    BY <1>3, RestWaits
<1>5. Wait(T, loading) /\ (~deaf => Busy(T, ui.busy))
    BY <1>2, <1>4, MoreTasks
<1>6. ui' = Learns("", K) /\ tasks' = T /\ deaf' = deaf
    BY DEF StepLearns
<1>7. ui' \in UiTypes /\ ui'.busy = ui.busy /\ ui'.know = ui.know \cup K
    BY <1>6, LearnsFacts DEF Flags
<1>8. deaf' \in BOOLEAN
    BY <1>6 DEF IInv, TypeOK
<1>9. UNCHANGED <<shown, appConfigured, store, step, provider, proxy, loading, cluster, failed>>
    BY DEF StepLearns
<1> QED
    BY <1>5, <1>6, <1>7, <1>8, <1>9, StepOnly

LEMMA GetOpenLdapDefaultsKeeps == ASSUME IInv, GetOpenLdapDefaultsAnswered PROVE IInv'
<1>1. PICK a \in AnswersTo("get-openldap-defaults") :
          StepLearns(Learns("", IF a.o = "uncreated" THEN {} ELSE {"form"}), Rest(a))
    BY DEF GetOpenLdapDefaultsAnswered
<1> DEFINE K == IF a.o = "uncreated" THEN {} ELSE {"form"}
<1>2. Good(Rest(a), step, ui.busy) /\ Once(Rest(a)) /\ DOMAIN Rest(a) \subseteq DOMAIN Rest(a)
    BY AnswerFacts
<1>3. K \subseteq Facts /\ "domains" \notin K /\ "fqdn" \notin K /\ StepLearns(Learns("", K), Rest(a))
    BY <1>1 DEF Facts
<1> HIDE DEF K
<1> QED
    BY <1>2, <1>3, QuietAnswer

LEMMA GetStepProxyConfigKeeps == ASSUME IInv, GetStepProxyConfigAnswered PROVE IInv'
<1>1. PICK a \in AnswersTo("get-step-proxy") :
          StepLearns(Learns("", IF Seen(a) = 1 THEN {"fqdn"} ELSE {}),
                     IF Done(a) THEN GetAvailableInterfaces(Rest(a), a.task.id) ELSE Rest(a))
    BY DEF GetStepProxyConfigAnswered
<1> DEFINE K == IF Seen(a) = 1 THEN {"fqdn"} ELSE {}
           T == IF Done(a) THEN Create(Rest(a), "get-interfaces", a.task.id) ELSE Rest(a)
<1>2. "get-step-proxy" \in StepKinds /\ "get-step-proxy" \notin Opaque
    BY DEF StepKinds, StepReads, Opaque
<1>3. /\ Good(Rest(a), step, ui.busy) /\ Once(Rest(a)) /\ OfStep("get-step-proxy", step)
      /\ Told(a.task) /\ a.task.kind = "get-step-proxy" /\ (Done(a) => a.task.done)
      /\ a.task \in Task
    BY <1>2, AnswerFacts
<1>4. Seen(a) = 1 => Configured
    BY <1>3, SeenFacts DEF Told
<1>5. K \subseteq Facts /\ "domains" \notin K /\ ("fqdn" \in K => Configured)
    BY <1>4 DEF Facts
<1>6. StepLearns(Learns("", K), T)
    BY <1>1 DEF GetAvailableInterfaces
<1>7. OfStep("get-interfaces", step) /\ "get-interfaces" \in StepReads /\ a.task.id \in Nat
    BY <1>3 DEF OfStep, StepReads, Task
<1>8. Good(T, step, ui.busy) /\ Once(T) /\ DOMAIN Rest(a) \subseteq DOMAIN T
    BY <1>3, <1>7, StepReadAdded
<1> HIDE DEF K, T
<1> QED
    BY <1>5, <1>6, <1>8, QuietAnswer

LEMMA GetAvailableInterfacesKeeps == ASSUME IInv, GetAvailableInterfacesAnswered PROVE IInv'
<1>1. PICK a \in AnswersTo("get-interfaces") :
          StepLearns(Learns("", IF Done(a) THEN {"interfaces"} ELSE {}), Rest(a))
    BY DEF GetAvailableInterfacesAnswered
<1> DEFINE K == IF Done(a) THEN {"interfaces"} ELSE {}
<1>2. Good(Rest(a), step, ui.busy) /\ Once(Rest(a)) /\ DOMAIN Rest(a) \subseteq DOMAIN Rest(a)
    BY AnswerFacts
<1>3. K \subseteq Facts /\ "domains" \notin K /\ "fqdn" \notin K /\ StepLearns(Learns("", K), Rest(a))
    BY <1>1 DEF Facts
<1> HIDE DEF K
<1> QED
    BY <1>2, <1>3, QuietAnswer

\* A modal that is only moved has its types.
LEMMA ModalMoved ==
    ASSUME IInv, UNCHANGED <<shown, appConfigured, store, proxy, loading, failed>>,
           provider' \in BOOLEAN
    PROVE  /\ ModalTypes' /\ loading' = loading
           /\ proxyId' \in Proxies \cup {0} /\ (installed' => proxyId' # 0)
           /\ (skip' => Configured) /\ (failed => failed')
           /\ (defaults \/ failed) => (defaults' \/ failed')
           /\ ("get-defaults" \in loading \/ defaults \/ failed)
                 => ("get-defaults" \in loading' \/ defaults' \/ failed')
<1>1. ModalTypes'
    BY ModalTyped DEF ModalTypes, store, proxy
<1>2. /\ loading' = loading /\ defaults' = defaults /\ failed' = failed
      /\ installed' = installed /\ proxyId' = proxyId /\ skip' = skip
    BY DEF store, proxy
<1>3. ProxyInv
    BY DEF IInv
<1>4. proxyId' \in Proxies \cup {0} /\ (installed' => proxyId' # 0) /\ (skip' => Configured)
    BY <1>2, <1>3 DEF ProxyInv
<1> QED
    BY <1>1, <1>2, <1>4

LEMMA ConfigureOpenLdapKeeps == ASSUME IInv, ConfigureOpenLdapAnswered PROVE IInv'
<1>1. PICK a \in AnswersTo("configure-openldap") :
        /\ UNCHANGED <<store, proxy>>
        /\ \/ Done(a) /\ provider' = TRUE /\ GoTo("proxy", Rest(a))
           \/ /\ a.o \in {"refused", "uncreated"}
              /\ ui' = Learns("configure", {}) /\ tasks' = Rest(a)
              /\ UNCHANGED <<step, deaf, provider>>
           \/ /\ a.o = "aborted"
              /\ deaf' = TRUE /\ tasks' = Rest(a)
              /\ UNCHANGED <<step, ui, provider>>
        /\ UNCHANGED <<shown, appConfigured, loading, cluster, failed>>
    BY DEF ConfigureOpenLdapAnswered
<1>2. /\ "configure-openldap" \in StepKinds /\ "configure" \in Flags
      /\ "configure-openldap" \in TaskOf("configure") /\ "configure-openldap" \notin Opaque
    BY TaskOfFacts DEF StepKinds, StepWrites, Flags, Opaque
<1>3. /\ Good(Rest(a), step, ui.busy) /\ Once(Rest(a)) /\ OfStep("configure-openldap", step)
      /\ Told(a.task) /\ a.task.kind = "configure-openldap" /\ (Done(a) => a.task.done)
    BY <1>2, AnswerFacts
<1>4. step = "openldap"
    BY <1>3 DEF OfStep
<1>5. /\ Good(Rest(a), step, ui.busy \ {"configure"})
      /\ ~deaf => Busy(Rest(a), ui.busy \ {"configure"})
      /\ Wait(Rest(a), loading)
    BY <1>2, FlagReset
<1>6. CASE Done(a) /\ provider' = TRUE /\ GoTo("proxy", Rest(a))
    <2>1. domains
        BY <1>3, <1>6 DEF Told
    <2>2. SkipProxyStepIfConfigured("proxy", skip') # step
        BY <1>4 DEF SkipProxyStepIfConfigured
    <2>3. defaults \/ failed
        BY <1>4 DEF IInv, StepInv
    <2>4. UNCHANGED <<shown, appConfigured, store, proxy, loading, failed>> /\ provider' \in BOOLEAN
        BY <1>1, <1>6
    <2>5. /\ ModalTypes' /\ loading' = loading
          /\ proxyId' \in Proxies \cup {0} /\ (installed' => proxyId' # 0)
          /\ (skip' => Configured) /\ (failed => failed')
          /\ defaults' \/ failed'
        BY <2>3, <2>4, ModalMoved
    <2>6. "proxy" \in Steps /\ Wait(Rest(a), loading') /\ UNCHANGED cluster
        BY <1>1, <1>5, <2>5 DEF Steps
    <2> QED
        BY <1>3, <1>6, <2>1, <2>2, <2>5, <2>6, Shows
<1>7. CASE UNCHANGED <<step, deaf, provider>> /\ ui' = Learns("configure", {}) /\ tasks' = Rest(a)
    <2>1. ui' \in UiTypes /\ ui'.busy = ui.busy \ {"configure"} /\ ui'.know = ui.know \cup {}
        BY <1>7, LearnsFacts
    <2>2. deaf' \in BOOLEAN /\ deaf' = deaf
        BY <1>7 DEF IInv, TypeOK
    <2>3. UNCHANGED <<shown, appConfigured, store, step, provider, proxy, loading, cluster, failed>>
        BY <1>1, <1>7
    <2> QED
        BY <1>3, <1>5, <1>7, <2>1, <2>2, <2>3, StepOnly
<1>8. CASE UNCHANGED <<step, ui, provider>> /\ deaf' = TRUE /\ tasks' = Rest(a)
    <2>1. ui' \in UiTypes /\ ui' = ui
        BY <1>8 DEF IInv, TypeOK, UiTypes
    <2>2. UNCHANGED <<shown, appConfigured, store, step, provider, proxy, loading, cluster, failed>>
        BY <1>1, <1>8
    <2> QED
        BY <1>3, <1>5, <1>8, <2>1, <2>2, StepOnly
<1> QED
    BY <1>1, <1>6, <1>7, <1>8

LEMMA InstallProxyKeeps == ASSUME IInv, InstallProxyAnswered PROVE IInv'
<1>1. PICK a \in AnswersTo("add-proxy") :
        /\ IF Done(a)
           THEN /\ installed' = TRUE /\ proxyId' = Seen(a)
                /\ tasks' = TasksForProxyId(Rest(a), Seen(a))
           ELSE tasks' = Rest(a) /\ UNCHANGED <<installed, proxyId>>
        /\ ui' = IF a.o = "refused" THEN ui ELSE Learns("install", {})
        /\ deaf' = (deaf \/ a.o = "refused")
        /\ UNCHANGED <<shown, appConfigured, store, step, provider, skip, loading, cluster, failed>>
    BY DEF InstallProxyAnswered
<1>2. /\ "add-proxy" \in StepKinds /\ "install" \in Flags
      /\ "add-proxy" \in TaskOf("install") /\ "add-proxy" \notin Opaque
    BY TaskOfFacts DEF StepKinds, StepWrites, Flags, Opaque
<1>3. /\ Good(Rest(a), step, ui.busy) /\ Once(Rest(a)) /\ OfStep("add-proxy", step)
      /\ Told(a.task) /\ a.task.kind = "add-proxy" /\ (Done(a) => a.task.done)
    BY <1>2, AnswerFacts
<1>4. /\ Good(Rest(a), step, ui.busy \ {"install"})
      /\ ~deaf => Busy(Rest(a), ui.busy \ {"install"})
      /\ Wait(Rest(a), loading)
    BY <1>2, FlagReset
<1>5. deaf' \in BOOLEAN /\ (~deaf' => ~deaf /\ a.o # "refused") /\ deaf \in BOOLEAN
    BY <1>1 DEF IInv, TypeOK
<1>6. /\ ui' \in UiTypes /\ ui'.know = ui.know
      /\ a.o = "refused" => ui' = ui
      /\ a.o # "refused" => ui'.busy = ui.busy \ {"install"}
    <2>1. CASE a.o = "refused"
        BY <1>1, <2>1 DEF IInv, TypeOK, UiTypes
    <2>2. CASE a.o # "refused"
        <3>1. ui' = Learns("install", {})
            BY <1>1, <2>2
        <3>2. ui' \in UiTypes /\ ui'.busy = ui.busy \ {"install"} /\ ui'.know = ui.know \cup {}
            BY <3>1, LearnsFacts
        <3> QED
            BY <2>2, <3>2
    <2> QED
        BY <2>1, <2>2
<1>7. Good(Rest(a), step, ui'.busy) /\ (~deaf' => Busy(Rest(a), ui'.busy))
    BY <1>3, <1>4, <1>5, <1>6
<1>8. /\ Good(tasks', step, ui'.busy) /\ Once(tasks') /\ DOMAIN Rest(a) \subseteq DOMAIN tasks'
      /\ proxyId' \in Proxies \cup {0} /\ (installed' => proxyId' # 0) /\ installed' \in BOOLEAN
    <2>1. CASE Done(a)
        <3>1. Seen(a) \in Proxies /\ Seen(a) # 0 /\ Seen(a) \in Nat
            BY <1>3, <2>1, WizardAssumption DEF Told, Seen, Proxies
        <3>2. tasks' = IF step = "proxy" /\ Seen(a) # proxyId
                       THEN Create(Rest(a), "get-step-proxy", Seen(a)) ELSE Rest(a)
            BY <1>1, <2>1 DEF TasksForProxyId, GetStepProxyConfig
        <3>3. "get-step-proxy" \in StepReads /\ (step = "proxy" => OfStep("get-step-proxy", step))
            BY DEF StepReads, OfStep
        <3>4. Good(tasks', step, ui'.busy) /\ Once(tasks') /\ DOMAIN Rest(a) \subseteq DOMAIN tasks'
            BY <1>3, <1>7, <3>1, <3>2, <3>3, StepReadAdded
        <3> QED
            BY <1>1, <2>1, <3>1, <3>4
    <2>2. CASE ~Done(a)
        <3>1. ProxyInv /\ installed \in BOOLEAN
            BY DEF IInv, TypeOK
        <3> QED
            BY <1>1, <1>3, <1>7, <2>2, <3>1 DEF ProxyInv
    <2> QED
        BY <2>1, <2>2
<1>9. Wait(tasks', loading) /\ (~deaf' => Busy(tasks', ui'.busy))
    BY <1>4, <1>7, <1>8, MoreTasks
<1>10. ModalTypes'
    BY <1>1, <1>8, ModalTyped, WizardAssumption DEF ModalTypes, store, Proxies
<1>11. /\ UNCHANGED <<cluster, step, provider, skip>> /\ loading' = loading
       /\ defaults' = defaults /\ failed' = failed /\ shown' = shown
    BY <1>1 DEF store
<1>12. /\ defaults => defaults'
       /\ failed => failed'
       /\ shown' => shown
       /\ "get-defaults" \in loading => "get-defaults" \in loading' \/ defaults' \/ failed'
       /\ Wait(tasks', loading')
    BY <1>9, <1>11
<1> QED
    BY <1>5, <1>6, <1>8, <1>9, <1>10, <1>11, <1>12, Stays

LEMMA ConfigureProxyKeeps == ASSUME IInv, ConfigureProxyAnswered PROVE IInv'
<1>1. PICK a \in AnswersTo("configure-proxy") :
        /\ UNCHANGED <<store, proxy>>
        /\ IF Done(a) THEN GoTo("nethvoice", Rest(a))
           ELSE /\ ui' = Learns("configure", {}) /\ tasks' = Rest(a)
                /\ UNCHANGED <<step, deaf>>
        /\ UNCHANGED <<shown, appConfigured, provider, loading, cluster, failed>>
    BY DEF ConfigureProxyAnswered
<1>2. /\ "configure-proxy" \in StepKinds /\ "configure" \in Flags
      /\ "configure-proxy" \in TaskOf("configure") /\ "configure-proxy" \notin Opaque
    BY TaskOfFacts DEF StepKinds, StepWrites, Flags, Opaque
<1>3. /\ Good(Rest(a), step, ui.busy) /\ Once(Rest(a)) /\ OfStep("configure-proxy", step)
      /\ Told(a.task) /\ a.task.kind = "configure-proxy" /\ (Done(a) => a.task.done)
    BY <1>2, AnswerFacts
<1>4. step = "proxy"
    BY <1>3 DEF OfStep
<1>5. /\ Good(Rest(a), step, ui.busy \ {"configure"})
      /\ ~deaf => Busy(Rest(a), ui.busy \ {"configure"})
      /\ Wait(Rest(a), loading)
    BY <1>2, FlagReset
<1>6. CASE Done(a)
    <2>1. Configured /\ GoTo("nethvoice", Rest(a))
        BY <1>1, <1>3, <1>6 DEF Told
    <2>2. SkipProxyStepIfConfigured("nethvoice", skip') # step
        BY <1>4 DEF SkipProxyStepIfConfigured
    <2>3. (defaults \/ failed) /\ provider /\ (provider => domains) /\ provider \in BOOLEAN
        BY <1>4 DEF IInv, StepInv, KnowInv, TypeOK
    <2>4. UNCHANGED <<shown, appConfigured, store, proxy, loading, failed>> /\ provider' = provider
        BY <1>1
    <2>5. /\ ModalTypes' /\ loading' = loading
          /\ proxyId' \in Proxies \cup {0} /\ (installed' => proxyId' # 0)
          /\ (skip' => Configured) /\ (failed => failed')
          /\ defaults' \/ failed'
        BY <2>3, <2>4, ModalMoved
    <2>6. "nethvoice" \in Steps /\ Wait(Rest(a), loading') /\ UNCHANGED cluster
        BY <1>1, <1>5, <2>5 DEF Steps
    <2> QED
        BY <1>3, <2>1, <2>2, <2>3, <2>4, <2>5, <2>6, Shows
<1>7. CASE ~Done(a)
    <2>1. ui' \in UiTypes /\ ui'.busy = ui.busy \ {"configure"} /\ ui'.know = ui.know \cup {}
        <3>1. ui' = Learns("configure", {})
            BY <1>1, <1>7
        <3> QED
            BY <3>1, LearnsFacts
    <2>2. deaf' \in BOOLEAN /\ deaf' = deaf /\ tasks' = Rest(a)
        BY <1>1, <1>7 DEF IInv, TypeOK
    <2>3. UNCHANGED <<shown, appConfigured, store, step, provider, proxy, loading, cluster, failed>>
        BY <1>1, <1>7
    <2> QED
        BY <1>3, <1>5, <2>1, <2>2, <2>3, StepOnly
<1> QED
    BY <1>6, <1>7

-----------------------------------------------------------------------------
(* The answers the modal and App.vue hear.                                 *)

LEMMA ModalTaskAdded ==
    ASSUME NEW T, NEW b, Good(T, step, b), Once(T), NEW kind \in Kinds \ StepKinds, NEW id \in Nat,
           kind = "get-proxy" => id \in Proxies
    PROVE  /\ Good(Create(T, kind, id), step, b) /\ Once(Create(T, kind, id))
           /\ DOMAIN T \subseteq DOMAIN Create(T, kind, id)
           /\ \E t \in DOMAIN Create(T, kind, id) : t.kind = kind
<1>1. /\ kind \notin StepWrites /\ IsABag(T) /\ kind \notin {"get-step-proxy", "configure-proxy"}
    BY DEF StepKinds, StepReads, StepWrites, Good
<1>2. /\ Good(Create(T, kind, id), step, b)
      /\ DOMAIN Create(T, kind, id) = DOMAIN T \cup {NewTask(kind, id)}
      /\ NewTask(kind, id).kind = kind
    BY <1>1, GoodAdd
<1>3. Once(Create(T, kind, id))
    BY <1>1, OnceAdd
<1> QED
    BY <1>2, <1>3

LEMMA ModalKinds ==
    /\ "get-configuration" \in Kinds \ StepKinds /\ "get-status" \in Kinds \ StepKinds
    /\ "get-defaults" \in Kinds \ StepKinds /\ "get-proxy" \in Kinds \ StepKinds
    /\ 0 \in Nat
BY DEF Kinds, StepKinds, StepReads, StepWrites

\* No flag of a step waits for an answer of the modal's own.
LEMMA ModalAnswer ==
    ASSUME IInv, NEW kind \in Kinds \ StepKinds, NEW a \in AnswersTo(kind)
    PROVE  /\ Good(Rest(a), step, ui.busy) /\ Once(Rest(a))
           /\ ~deaf => Busy(Rest(a), ui.busy)
           /\ \A L : L \subseteq loading /\ kind \notin L => Wait(Rest(a), L)
           /\ Told(a.task) /\ a.task.kind = kind
           /\ Done(a) /\ kind \notin Opaque => a.task.done
<1>1. \A f \in Flags : kind \notin TaskOf(f)
    BY TaskOfFacts DEF Flags, StepKinds, StepReads, StepWrites
<1>2. ~deaf => Busy(Rest(a), ui.busy)
    BY <1>1, NoFlag
<1>3. \A L : L \subseteq loading /\ kind \notin L => Wait(Rest(a), L)
    BY RestWaits
<1> QED
    BY <1>2, <1>3, AnswerFacts

LEMMA ConfigureModuleKeeps == ASSUME IInv, ConfigureModuleAnswered PROVE IInv'
<1>1. PICK a \in AnswersTo("configure-module") :
        /\ ui' = Learns("configure", {})
        /\ IF Done(a)
           THEN /\ appConfigured' = TRUE /\ shown' = FALSE
                /\ tasks' = GetConfiguration(Rest(a))
           ELSE tasks' = Rest(a) /\ UNCHANGED <<appConfigured, shown>>
        /\ UNCHANGED <<store, step, deaf, provider, proxy, loading, cluster, failed>>
    BY DEF ConfigureModuleAnswered
<1>2. /\ "configure-module" \in StepKinds /\ "configure" \in Flags
      /\ "configure-module" \in TaskOf("configure")
    BY TaskOfFacts DEF StepKinds, StepWrites, Flags
<1>3. /\ Good(Rest(a), step, ui.busy \ {"configure"})
      /\ ~deaf => Busy(Rest(a), ui.busy \ {"configure"})
      /\ Wait(Rest(a), loading)
    BY <1>2, FlagReset
<1>4. Once(Rest(a))
    BY AnswerFacts
<1>5. ui' \in UiTypes /\ ui'.busy = ui.busy \ {"configure"} /\ ui'.know = ui.know \cup {}
    <2>1. ui' = Learns("configure", {})
        BY <1>1
    <2> QED
        BY <2>1, LearnsFacts
<1>6. deaf' \in BOOLEAN /\ deaf' = deaf
    BY <1>1 DEF IInv, TypeOK
<1>7. Good(tasks', step, ui'.busy) /\ Once(tasks') /\ DOMAIN Rest(a) \subseteq DOMAIN tasks'
    <2>1. tasks' = Create(Rest(a), "get-configuration", 0) \/ tasks' = Rest(a)
        BY <1>1 DEF GetConfiguration
    <2> QED
        BY <1>3, <1>4, <1>5, <2>1, ModalTaskAdded, ModalKinds
<1>8. Wait(tasks', loading) /\ (~deaf' => Busy(tasks', ui'.busy))
    BY <1>3, <1>5, <1>6, <1>7, MoreTasks
<1>9. ModalTypes'
    BY <1>1, ModalTyped DEF ModalTypes, store, proxy
<1>10. /\ UNCHANGED <<cluster, step, provider, skip>> /\ loading' = loading
       /\ defaults' = defaults /\ failed' = failed
       /\ installed' = installed /\ proxyId' = proxyId /\ (shown' = FALSE \/ shown' = shown)
    BY <1>1 DEF store, proxy
<1>11. proxyId' \in Proxies \cup {0} /\ (installed' => proxyId' # 0)
    BY <1>10 DEF IInv, ProxyInv
<1>12. /\ defaults => defaults'
       /\ failed => failed'
       /\ shown' => shown
       /\ "get-defaults" \in loading => "get-defaults" \in loading' \/ defaults' \/ failed'
       /\ Wait(tasks', loading')
    BY <1>8, <1>10
<1> QED
    BY <1>5, <1>6, <1>7, <1>8, <1>9, <1>10, <1>11, <1>12, Stays

\* A status arrives, from the modal's own task or from the Status page.
LEMMA StatusKeeps ==
    ASSUME IInv, NEW T, Good(T, step, ui.busy), Once(T), Wait(T, loading),
           ~deaf => Busy(T, ui.busy), StatusStored(T),
           UNCHANGED <<shown, appConfigured, defaults, step, deaf, provider, proxy, loading,
                       cluster, failed>>
    PROVE  IInv'
<1>1. /\ UNCHANGED <<cluster, step, provider, skip>> /\ loading' = loading /\ deaf' = deaf
      /\ defaults' = defaults /\ failed' = failed /\ status' = TRUE
      /\ installed' = installed /\ proxyId' = proxyId /\ shown' = shown
    BY DEF StatusStored, proxy
<1>2. ui \in UiTypes /\ deaf' \in BOOLEAN
    BY <1>1 DEF IInv, TypeOK, UiTypes
<1>3. /\ ui' \in UiTypes /\ ui'.know = ui.know /\ Good(tasks', step, ui'.busy) /\ Once(tasks')
      /\ DOMAIN T \subseteq DOMAIN tasks' /\ (~deaf => Busy(tasks', ui'.busy))
    <2>1. CASE step = "openldap"
        <3>1. /\ ui' = [ui EXCEPT !.busy = ui.busy \cup {"install"}]
              /\ tasks' = Create(T, "add-internal-provider", 0)
            BY <2>1 DEF StatusStored, InstallOpenldapProvider
        <3>2. ui' \in UiTypes /\ ui'.know = ui.know /\ ui'.busy = ui.busy \cup {"install"}
            BY <1>2, <3>1 DEF UiTypes, Flags
        <3>3. Good(T, step, ui'.busy)
            BY <3>2, MoreFlags
        <3>4. "add-internal-provider" \in StepReads /\ OfStep("add-internal-provider", step) /\ 0 \in Nat
            BY <2>1 DEF StepReads, OfStep
        <3>5. /\ Good(tasks', step, ui'.busy) /\ Once(tasks') /\ DOMAIN T \subseteq DOMAIN tasks'
              /\ \E t \in DOMAIN tasks' : t.live /\ t.kind = "add-internal-provider"
            BY <3>1, <3>3, <3>4, StepReadAdded
        <3>6. ~deaf => Busy(tasks', ui'.busy)
            BY <3>2, <3>5, TaskOfFacts DEF Busy
        <3> QED
            BY <3>2, <3>5, <3>6
    <2>2. CASE step # "openldap"
        BY <1>2, <2>2 DEF StatusStored
    <2> QED
        BY <2>1, <2>2
<1>4. ModalTypes'
    BY <1>1, ModalTyped DEF ModalTypes
<1>5. proxyId' \in Proxies \cup {0} /\ (installed' => proxyId' # 0)
    BY <1>1 DEF IInv, ProxyInv
<1>6. /\ defaults => defaults'
      /\ failed => failed'
      /\ shown' => shown
      /\ "get-defaults" \in loading => "get-defaults" \in loading' \/ defaults' \/ failed'
      /\ ~deaf' => Busy(tasks', ui'.busy)
    BY <1>1, <1>3
<1>7. Wait(tasks', loading')
    BY <1>1, <1>3, MoreTasks
<1> QED
    BY <1>1, <1>2, <1>3, <1>4, <1>5, <1>6, <1>7, Stays

LEMMA PageStatusKeeps == ASSUME IInv, PageStatus PROVE IInv'
BY InvParts, StatusKeeps DEF PageStatus

LEMMA GetStatusKeeps == ASSUME IInv, GetStatusAnswered PROVE IInv'
<1>1. PICK a \in AnswersTo("get-status") :
        /\ IF Done(a) THEN StatusStored(Rest(a)) ELSE tasks' = Rest(a) /\ UNCHANGED <<status, ui>>
        /\ UNCHANGED <<shown, appConfigured, defaults, step, deaf, provider, proxy, loading,
                       cluster, failed>>
    BY DEF GetStatusAnswered
<1>2. /\ Good(Rest(a), step, ui.busy) /\ Once(Rest(a)) /\ (~deaf => Busy(Rest(a), ui.busy))
      /\ loading \subseteq loading /\ "get-status" \notin loading => Wait(Rest(a), loading)
    BY ModalAnswer, ModalKinds
<1>3. loading \subseteq loading /\ "get-status" \notin loading
    BY DEF IInv, TypeOK
<1>4. CASE Done(a)
    BY <1>1, <1>2, <1>3, <1>4, StatusKeeps
<1>5. CASE ~Done(a)
    <2>1. ui' \in UiTypes /\ ui' = ui /\ deaf' = deaf /\ deaf' \in BOOLEAN /\ tasks' = Rest(a)
        BY <1>1, <1>5 DEF IInv, TypeOK, UiTypes
    <2>2. UNCHANGED <<shown, appConfigured, store, step, provider, proxy, loading, cluster, failed>>
        BY <1>1, <1>5 DEF store
    <2> QED
        BY <1>2, <1>3, <2>1, <2>2, StepOnly
<1> QED
    BY <1>4, <1>5

LEMMA PageDefaultsKeeps == ASSUME IInv, PageDefaults PROVE IInv'
<1>1. /\ UNCHANGED <<cluster, step, provider, skip>> /\ loading' = loading /\ deaf' = deaf
      /\ defaults' = TRUE /\ failed' = failed /\ shown' = shown /\ ui' = ui /\ tasks' = tasks
      /\ installed' = installed /\ proxyId' = proxyId
    BY DEF PageDefaults, view, proxy
<1>2. ui' \in UiTypes /\ deaf' \in BOOLEAN
    BY <1>1 DEF IInv, TypeOK, UiTypes
<1>3. ModalTypes'
    BY ModalTyped DEF PageDefaults, ModalTypes, proxy
<1>4. proxyId' \in Proxies \cup {0} /\ (installed' => proxyId' # 0)
    BY <1>1 DEF IInv, ProxyInv
<1>5. /\ Good(tasks', step, ui'.busy) /\ Once(tasks') /\ Wait(tasks', loading')
      /\ ~deaf' => Busy(tasks', ui'.busy)
    BY <1>1, InvParts
<1>6. /\ defaults => defaults'
      /\ failed => failed'
      /\ shown' => shown
      /\ "get-defaults" \in loading => "get-defaults" \in loading' \/ defaults' \/ failed'
    BY <1>1
<1> QED
    BY <1>1, <1>2, <1>3, <1>4, <1>5, <1>6, Stays

LEMMA GetDefaultsKeeps == ASSUME IInv, GetDefaultsAnswered PROVE IInv'
<1>1. PICK a \in AnswersTo("get-defaults") :
        /\ defaults' = (defaults \/ Done(a))
        /\ failed' = (failed \/ ~Done(a))
        /\ IF Done(a) /\ Seen(a) # 0
           THEN /\ installed' = TRUE /\ proxyId' = Seen(a)
                /\ tasks' = TasksForProxyId(GetProxyConfig(Rest(a), Seen(a)), Seen(a))
                /\ loading' = (loading \ {"get-defaults"}) \cup {"get-proxy"}
           ELSE /\ installed' = IF Done(a) THEN FALSE ELSE installed
                /\ tasks' = Rest(a)
                /\ loading' = loading \ {"get-defaults"}
                /\ UNCHANGED proxyId
        /\ UNCHANGED <<shown, appConfigured, status, view, provider, skip, cluster>>
    BY DEF GetDefaultsAnswered
<1>2. "get-defaults" \notin Opaque
    BY DEF Opaque
<1>3. /\ Good(Rest(a), step, ui.busy) /\ Once(Rest(a)) /\ (~deaf => Busy(Rest(a), ui.busy))
      /\ \A L : L \subseteq loading /\ "get-defaults" \notin L => Wait(Rest(a), L)
      /\ Told(a.task) /\ a.task.kind = "get-defaults" /\ (Done(a) => a.task.done)
    BY <1>2, ModalAnswer, ModalKinds
<1> DEFINE L == loading \ {"get-defaults"}
<1>4. Wait(Rest(a), L)
    <2>1. L \subseteq loading /\ "get-defaults" \notin L
        OBVIOUS
    <2> QED
        BY <1>3, <2>1
<1>5. loading' = L \/ loading' = L \cup {"get-proxy"}
    BY <1>1
<1> HIDE DEF L
<1>6. /\ ui' = ui /\ deaf' = deaf /\ step' = step /\ shown' = shown /\ provider' = provider
      /\ skip' = skip /\ UNCHANGED cluster
    BY <1>1 DEF view
<1>7. ui' \in UiTypes /\ deaf' \in BOOLEAN
    BY <1>6 DEF IInv, TypeOK, UiTypes
<1>8. /\ Good(tasks', step, ui.busy) /\ Once(tasks') /\ DOMAIN Rest(a) \subseteq DOMAIN tasks'
      /\ proxyId' \in Proxies \cup {0} /\ (installed' => proxyId' # 0) /\ installed' \in BOOLEAN
      /\ Wait(tasks', loading')
    <2>1. CASE Done(a) /\ Seen(a) # 0
        <3> DEFINE T == Create(Rest(a), "get-proxy", Seen(a))
        <3>1. Seen(a) \in Proxies /\ Seen(a) # 0 /\ Seen(a) \in Nat
            BY <1>3, <2>1, WizardAssumption DEF Told, Seen, Proxies
        <3>2. /\ Good(T, step, ui.busy) /\ Once(T) /\ DOMAIN Rest(a) \subseteq DOMAIN T
              /\ \E t \in DOMAIN T : t.kind = "get-proxy"
            BY <1>3, <3>1, ModalTaskAdded, ModalKinds
        <3>3. tasks' = IF step = "proxy" /\ Seen(a) # proxyId
                       THEN Create(T, "get-step-proxy", Seen(a)) ELSE T
            BY <1>1, <2>1 DEF TasksForProxyId, GetStepProxyConfig, GetProxyConfig
        <3>4. "get-step-proxy" \in StepReads /\ (step = "proxy" => OfStep("get-step-proxy", step))
            BY DEF StepReads, OfStep
        <3> HIDE DEF T
        <3>5. Good(tasks', step, ui.busy) /\ Once(tasks') /\ DOMAIN T \subseteq DOMAIN tasks'
            BY <3>1, <3>2, <3>3, <3>4, StepReadAdded
        <3>6. Wait(tasks', L \cup {"get-proxy"})
            BY <1>4, <3>2, <3>5 DEF Wait
        <3>7. loading' = L \cup {"get-proxy"} /\ installed' = TRUE /\ proxyId' = Seen(a)
            BY <1>1, <2>1 DEF L
        <3> QED
            BY <3>1, <3>2, <3>5, <3>6, <3>7
    <2>2. CASE ~(Done(a) /\ Seen(a) # 0)
        <3>1. ProxyInv /\ installed \in BOOLEAN
            BY DEF IInv, TypeOK
        <3>2. /\ tasks' = Rest(a) /\ loading' = L /\ proxyId' = proxyId
              /\ installed' = FALSE \/ installed' = installed
            BY <1>1, <2>2 DEF L
        <3>3. /\ Good(tasks', step, ui.busy) /\ Once(tasks') /\ DOMAIN Rest(a) \subseteq DOMAIN tasks'
              /\ Wait(tasks', loading')
            BY <1>3, <1>4, <3>2
        <3>4. proxyId' \in Proxies \cup {0} /\ (installed' => proxyId' # 0)
            BY <3>1, <3>2 DEF ProxyInv
        <3>5. installed' \in BOOLEAN
            BY <3>1, <3>2
        <3> QED
            BY <3>3, <3>4, <3>5
    <2> QED
        BY <2>1, <2>2
<1>9. ~deaf' => Busy(tasks', ui'.busy)
    BY <1>3, <1>6, <1>8, MoreTasks
<1>10. defaults' \in BOOLEAN /\ failed' \in BOOLEAN /\ (defaults' \/ failed')
       /\ (defaults => defaults') /\ (failed => failed')
    BY <1>1, ModalTyped DEF ModalTypes
<1>11. loading' \subseteq {"get-defaults", "get-proxy"} /\ proxyId' \in Nat
    BY <1>5, <1>8, ModalTyped, WizardAssumption DEF ModalTypes, L, Proxies
<1>12. ModalTypes'
    BY <1>1, <1>8, <1>10, <1>11, ModalTyped DEF ModalTypes
<1>13. Good(tasks', step, ui'.busy) /\ UNCHANGED <<cluster, step, provider, skip>>
    BY <1>6, <1>8
<1>14. shown' => shown
    BY <1>6
<1>15. /\ ui.know \subseteq ui'.know
       /\ "domains" \in ui'.know => "domains" \in ui.know \/ domains
       /\ "fqdn" \in ui'.know => "fqdn" \in ui.know \/ Configured
    BY <1>6
<1> QED
    BY <1>7, <1>8, <1>9, <1>10, <1>12, <1>13, <1>14, <1>15, Stays

LEMMA GetProxyConfigKeeps == ASSUME IInv, GetProxyConfigAnswered PROVE IInv'
<1>1. PICK a \in AnswersTo("get-proxy") :
        /\ skip' = IF Done(a) THEN Seen(a) = 1 ELSE skip
        /\ loading' = loading \ {"get-proxy"}
        /\ UNCHANGED <<store, installed, proxyId>>
        /\ IF step = "" THEN tasks' = Rest(a) /\ UNCHANGED view
           ELSE GoTo(step, Rest(a))
        /\ UNCHANGED <<shown, appConfigured, provider, cluster, failed>>
    BY DEF GetProxyConfigAnswered
<1>2. "get-proxy" \notin Opaque
    BY DEF Opaque
<1>3. /\ Good(Rest(a), step, ui.busy) /\ Once(Rest(a)) /\ (~deaf => Busy(Rest(a), ui.busy))
      /\ \A L : L \subseteq loading /\ "get-proxy" \notin L => Wait(Rest(a), L)
      /\ Told(a.task) /\ a.task.kind = "get-proxy" /\ (Done(a) => a.task.done)
    BY <1>2, ModalAnswer, ModalKinds
<1>4. Wait(Rest(a), loading')
    <2>1. loading' \subseteq loading /\ "get-proxy" \notin loading'
        BY <1>1
    <2> QED
        BY <1>3, <2>1
<1>5. ProxyInv /\ KnowInv /\ StepInv /\ step \in Steps \cup {""} /\ skip \in BOOLEAN
    BY DEF IInv, TypeOK
<1>6. (skip' => Configured) /\ skip' \in BOOLEAN
    <2>1. CASE Done(a)
        <3>1. skip' = (Seen(a) = 1) /\ Seen(a) = a.task.seen
            BY <1>1, <2>1 DEF Seen
        <3> QED
            BY <1>3, <2>1, <3>1 DEF Told
    <2>2. CASE ~Done(a)
        BY <1>1, <1>5, <2>2 DEF ProxyInv
    <2> QED
        BY <2>1, <2>2
<1>7. /\ defaults' = defaults /\ failed' = failed /\ provider' = provider /\ domains' = domains
      /\ installed' = installed /\ proxyId' = proxyId /\ shown' = shown /\ UNCHANGED cluster
      /\ status' = status /\ appConfigured' = appConfigured
    BY <1>1 DEF store, cluster
<1>8. ModalTypes'
    BY <1>1, <1>6, <1>7, ModalTyped DEF ModalTypes
<1>9. proxyId' \in Proxies \cup {0} /\ (installed' => proxyId' # 0)
    BY <1>5, <1>7 DEF ProxyInv
<1>10. CASE step = ""
    <2>1. tasks' = Rest(a) /\ step' = "" /\ step' = step /\ ui' = ui /\ deaf' = deaf
        BY <1>1, <1>10 DEF view
    <2>2. Configured' = Configured
        BY <1>7 DEF cluster, Configured
    <2>3. ProxyInv' /\ KnowInv'
        BY <1>5, <1>6, <1>7, <1>9, <2>1, <2>2 DEF ProxyInv, KnowInv
    <2>4. StepInv' /\ TimezonesAreThere'
        BY <1>5, <1>7, <1>10, <2>1 DEF StepInv, TimezonesAreThere
    <2>5. ui' \in UiTypes /\ deaf' \in BOOLEAN
        BY <2>1 DEF IInv, TypeOK, UiTypes
    <2>6. Good(tasks', step', ui'.busy) /\ Once(tasks') /\ (~deaf' => Busy(tasks', ui'.busy))
        BY <1>3, <2>1
    <2>7. step' \in Steps \cup {""} /\ Wait(tasks', loading')
        BY <1>4, <2>1
    <2> QED
        BY <1>7, <1>8, <2>3, <2>4, <2>5, <2>6, <2>7, Assemble
<1>11. CASE step # ""
    <2>1. step \in Steps /\ GoTo(step, Rest(a))
        BY <1>1, <1>5, <1>11
    <2>2. /\ provider => domains
          /\ step \in {"proxy", "nethvoice"} => provider
          /\ step = "nethvoice" => Configured
          /\ "get-defaults" \in loading \/ defaults \/ failed
          /\ step # "accountProvider" => defaults \/ failed
        BY <1>5, <2>1 DEF KnowInv, StepInv, Steps
    <2>3. /\ provider' => domains
          /\ failed => failed'
          /\ "get-defaults" \in loading' \/ defaults' \/ failed'
          /\ step # "accountProvider" => defaults' \/ failed'
        <3>1. provider' => domains
            BY <1>7, <2>2
        <3>2. "get-defaults" \in loading => "get-defaults" \in loading'
            BY <1>1
        <3>3. "get-defaults" \in loading' \/ defaults' \/ failed'
            BY <1>7, <2>2, <3>2
        <3>4. step # "accountProvider" => defaults' \/ failed'
            BY <1>7, <2>2
        <3>5. failed => failed'
            BY <1>7
        <3> QED
            BY <3>1, <3>3, <3>4, <3>5
    <2>4. step \in {"proxy", "nethvoice"} => provider'
        <3>1. step \in {"proxy", "nethvoice"} => provider
            BY <2>2
        <3>2. provider' = provider
            BY <1>7
        <3> QED
            BY <3>1, <3>2
    <2> QED
        BY <1>3, <1>4, <1>6, <1>7, <1>8, <1>9, <2>1, <2>2, <2>3, <2>4, Shows
<1> QED
    BY <1>10, <1>11

\* The modal is opened, whatever it showed when it was hidden.
LEMMA OpenKeeps ==
    ASSUME IInv, NEW T, Good(T, step, ui.busy), Once(T), Wait(T, loading),
           ~deaf => Busy(T, ui.busy), Open(T), UNCHANGED <<provider, cluster, failed>>,
           shown' \in BOOLEAN, appConfigured' \in BOOLEAN
    PROVE  IInv'
<1> DEFINE T1 == Create(T, "get-defaults", 0)
           T2 == IF status THEN T1 ELSE Create(T1, "get-status", 0)
<1>1. /\ skip' = FALSE /\ loading' = loading \cup {"get-defaults"}
      /\ status' = status /\ defaults' = defaults /\ installed' = installed
      /\ proxyId' = proxyId /\ GoTo("accountProvider", T2)
    BY DEF Open, GetDefaults, GetStatus, store
<1>2. /\ Good(T1, step, ui.busy) /\ Once(T1) /\ DOMAIN T \subseteq DOMAIN T1
      /\ \E t \in DOMAIN T1 : t.kind = "get-defaults"
    BY ModalTaskAdded, ModalKinds
<1> HIDE DEF T1
<1>3. Good(T2, step, ui.busy) /\ Once(T2) /\ DOMAIN T1 \subseteq DOMAIN T2
    BY <1>2, ModalTaskAdded, ModalKinds
<1> HIDE DEF T2
<1>4. Wait(T2, loading')
    BY <1>1, <1>2, <1>3 DEF Wait
<1>5. ~deaf => Busy(T2, ui.busy)
    BY <1>2, <1>3 DEF Busy
<1>6. ModalTypes'
    BY <1>1, ModalTyped DEF ModalTypes
<1>7. /\ proxyId' \in Proxies \cup {0} /\ (installed' => proxyId' # 0)
      /\ provider' => domains
    BY <1>1 DEF IInv, ProxyInv, KnowInv
<1>8. "accountProvider" \in Steps /\ "get-defaults" \in loading' /\ failed' = failed /\ ~skip'
    BY <1>1 DEF Steps
<1> QED
    BY <1>1, <1>3, <1>4, <1>5, <1>6, <1>7, <1>8, Shows

LEMMA GetConfigurationKeeps == ASSUME IInv, GetConfigurationAnswered PROVE IInv'
<1>1. PICK a \in AnswersTo("get-configuration") :
        /\ appConfigured' = IF Done(a) THEN Seen(a) = 1 ELSE appConfigured
        /\ IF Done(a) /\ Seen(a) = 0 /\ ~shown
           THEN shown' = TRUE /\ Open(Rest(a))
           ELSE tasks' = Rest(a) /\ UNCHANGED <<shown, store, view, proxy, loading>>
        /\ UNCHANGED <<provider, cluster, failed>>
    BY DEF GetConfigurationAnswered
<1>2. /\ Good(Rest(a), step, ui.busy) /\ Once(Rest(a)) /\ (~deaf => Busy(Rest(a), ui.busy))
      /\ \A L : L \subseteq loading /\ "get-configuration" \notin L => Wait(Rest(a), L)
    BY ModalAnswer, ModalKinds
<1>3. Wait(Rest(a), loading)
    <2>1. loading \subseteq loading /\ "get-configuration" \notin loading
        BY DEF IInv, TypeOK
    <2> QED
        BY <1>2, <2>1
<1>4. appConfigured' \in BOOLEAN
    BY <1>1, ModalTyped DEF ModalTypes
<1>5. CASE Done(a) /\ Seen(a) = 0 /\ ~shown
    <2>1. shown' = TRUE /\ Open(Rest(a)) /\ shown' \in BOOLEAN
        BY <1>1, <1>5
    <2> QED
        BY <1>1, <1>2, <1>3, <1>4, <2>1, OpenKeeps
<1>6. CASE ~(Done(a) /\ Seen(a) = 0 /\ ~shown)
    <2>1. /\ tasks' = Rest(a) /\ ui' = ui /\ deaf' = deaf /\ shown' = shown
          /\ UNCHANGED <<cluster, step, provider, skip>> /\ loading' = loading
          /\ defaults' = defaults /\ failed' = failed /\ status' = status
          /\ installed' = installed /\ proxyId' = proxyId
        BY <1>1, <1>6 DEF store, view, proxy
    <2>2. ui' \in UiTypes /\ deaf' \in BOOLEAN
        BY <2>1 DEF IInv, TypeOK, UiTypes
    <2>3. ModalTypes'
        BY <1>4, <2>1, ModalTyped DEF ModalTypes
    <2>4. proxyId' \in Proxies \cup {0} /\ (installed' => proxyId' # 0)
        BY <2>1 DEF IInv, ProxyInv
    <2>5. /\ defaults => defaults'
          /\ failed => failed'
          /\ shown' => shown
          /\ "get-defaults" \in loading => "get-defaults" \in loading' \/ defaults' \/ failed'
          /\ Good(tasks', step, ui'.busy) /\ Once(tasks') /\ Wait(tasks', loading')
          /\ ~deaf' => Busy(tasks', ui'.busy)
        BY <1>2, <1>3, <2>1
    <2> QED
        BY <2>1, <2>2, <2>3, <2>4, <2>5, Stays
<1> QED
    BY <1>5, <1>6

-----------------------------------------------------------------------------
(* What the user does.                                                     *)

LEMMA ReloadKeeps == ASSUME IInv, Reload PROVE IInv'
<1> DEFINE T == Orphaned(tasks)
<1>1. Good(tasks, step, ui.busy)
    BY InvParts
<1>2. /\ IsABag(T) /\ DOMAIN T \subseteq Task
      /\ \A t \in DOMAIN T :
            /\ ~t.live /\ ~t.done /\ t.kind \in StepWrites
            /\ \E u \in DOMAIN tasks : u.kind = t.kind /\ u.id = t.id
    BY <1>1, OrphanedFacts DEF Good
<1> HIDE DEF T
<1>3. ASSUME NEW t \in DOMAIN T PROVE Told(t) /\ Heard(t, "", {})
    <2>1. PICK u \in DOMAIN tasks : u.kind = t.kind /\ u.id = t.id
        BY <1>2
    <2>2. Told(u) /\ ~t.done /\ ~t.live /\ t.kind \in StepWrites
        BY <1>1, <1>2 DEF Good
    <2> QED
        BY <2>1, <2>2 DEF Told, Heard
<1>4. Good(T, "", {}) /\ Writing(T) = {} /\ Once(T)
    BY <1>2, <1>3 DEF Good, Writing, Once
<1>5. /\ step' = "" /\ ui' = NoStep /\ loading' = {} /\ deaf' = FALSE
      /\ tasks' = Create(T, "get-configuration", 0)
      /\ shown' = FALSE /\ skip' = FALSE /\ installed' = FALSE /\ proxyId' = 0 /\ provider' = FALSE
    BY DEF Reload, GetConfiguration, T
<1>6. ui' \in UiTypes /\ ui'.busy = {} /\ ui'.know = {}
    BY <1>5 DEF NoStep, UiTypes
<1>7. Good(tasks', "", {}) /\ Once(tasks')
    <2>1. "get-configuration" \notin StepWrites
        BY DEF StepWrites
    <2> QED
        BY <1>4, <1>5, <2>1, GoodAdd, OnceAdd, ModalKinds DEF Good
<1>8. Wait(tasks', loading') /\ Busy(tasks', ui'.busy)
    BY <1>5, <1>6 DEF Wait, Busy
<1>9. ModalTypes' /\ UNCHANGED cluster
    BY DEF Reload, ModalTypes
<1>10. ProxyInv' /\ KnowInv' /\ StepInv' /\ TimezonesAreThere'
    BY <1>5, <1>6 DEF ProxyInv, KnowInv, StepInv, TimezonesAreThere
<1>11. Good(tasks', step', ui'.busy) /\ step' \in Steps \cup {""} /\ deaf' \in BOOLEAN
    BY <1>5, <1>6, <1>7
<1> QED
    BY <1>6, <1>7, <1>8, <1>9, <1>10, <1>11, Assemble

LEMMA ResumeKeeps == ASSUME IInv, Resume PROVE IInv'
<1>1. shown' \in BOOLEAN /\ appConfigured' \in BOOLEAN
    BY ModalTyped DEF Resume, ModalTypes
<1>2. Open(tasks) /\ UNCHANGED <<provider, cluster, failed>>
    BY DEF Resume
<1> QED
    BY <1>1, <1>2, InvParts, OpenKeeps

LEMMA HideKeeps == ASSUME IInv, Hide PROVE IInv'
<1>1. /\ UNCHANGED <<cluster, step, provider, skip>> /\ loading' = loading /\ deaf' = deaf
      /\ defaults' = defaults /\ failed' = failed /\ shown' = FALSE /\ ui' = ui /\ tasks' = tasks
      /\ installed' = installed /\ proxyId' = proxyId
    BY DEF Hide, view, proxy, store
<1>2. ui' \in UiTypes /\ deaf' \in BOOLEAN
    BY <1>1 DEF IInv, TypeOK, UiTypes
<1>3. ModalTypes'
    BY ModalTyped DEF Hide, ModalTypes, proxy, store
<1>4. proxyId' \in Proxies \cup {0} /\ (installed' => proxyId' # 0)
    BY <1>1 DEF IInv, ProxyInv
<1>5. /\ Good(tasks', step, ui'.busy) /\ Once(tasks') /\ Wait(tasks', loading')
      /\ ~deaf' => Busy(tasks', ui'.busy)
    BY <1>1, InvParts
<1>6. /\ defaults => defaults'
      /\ failed => failed'
      /\ shown' => shown
      /\ "get-defaults" \in loading => "get-defaults" \in loading' \/ defaults' \/ failed'
    BY <1>1
<1> QED
    BY <1>1, <1>2, <1>3, <1>4, <1>5, <1>6, Stays

LEMMA PreviousStepKeeps == ASSUME IInv, PreviousStep PROVE IInv'
<1> DEFINE s == IF step = "nethvoice" /\ ~skip THEN "proxy" ELSE "accountProvider"
<1>1. /\ GoTo(s, tasks) /\ UNCHANGED <<shown, appConfigured, store, proxy, loading, failed>>
      /\ UNCHANGED cluster /\ provider' = provider /\ shown /\ step # "accountProvider"
    BY DEF PreviousStep, PreviousEnabled
<1>2. /\ Good(tasks, step, ui.busy) /\ Once(tasks) /\ Wait(tasks, loading)
      /\ ~deaf => Busy(tasks, ui.busy)
    BY InvParts
<1>3. /\ (provider => domains) /\ provider \in BOOLEAN /\ (s = "proxy" => provider)
      /\ "get-defaults" \in loading \/ defaults \/ failed
      /\ s = "proxy" => defaults \/ failed
    BY <1>1 DEF IInv, KnowInv, StepInv, TypeOK
<1>4. s \in Steps /\ s \in {"proxy", "accountProvider"}
    BY DEF Steps
<1> HIDE DEF s
<1>5. provider' \in BOOLEAN /\ (provider' => domains) /\ (s = "proxy" => provider')
    BY <1>1, <1>3
<1>6. /\ ModalTypes' /\ loading' = loading
      /\ proxyId' \in Proxies \cup {0} /\ (installed' => proxyId' # 0)
      /\ (skip' => Configured) /\ (failed => failed')
      /\ (defaults \/ failed) => (defaults' \/ failed')
      /\ "get-defaults" \in loading' \/ defaults' \/ failed'
    BY <1>1, <1>3, <1>5, ModalMoved
<1>7. Wait(tasks, loading') /\ (s # "accountProvider" => defaults' \/ failed')
    BY <1>2, <1>3, <1>4, <1>6
<1> QED
    BY <1>1, <1>2, <1>4, <1>5, <1>6, <1>7, Shows

LEMMA NextAccountProviderKeeps == ASSUME IInv, NextAccountProvider PROVE IInv'
<1>1. /\ UNCHANGED <<shown, appConfigured, store, proxy, loading, failed>> /\ UNCHANGED cluster
      /\ loading = {} /\ step = "accountProvider"
      /\ \/ provider' = provider /\ GoTo("openldap", tasks)
         \/ "domains" \in ui.know /\ provider' = TRUE /\ GoTo("proxy", tasks)
    BY DEF NextAccountProvider, NextEnabled
<1>2. Good(tasks, step, ui.busy) /\ Once(tasks) /\ Wait(tasks, loading)
    BY InvParts
<1>3. /\ (provider => domains) /\ provider \in BOOLEAN /\ ("domains" \in ui.know => domains)
      /\ defaults \/ failed
    BY <1>1 DEF IInv, KnowInv, StepInv, TypeOK
<1>4. PICK s \in {"openldap", "proxy"} : GoTo(s, tasks) /\ (s = "proxy" => provider')
    BY <1>1
<1>5. provider' \in BOOLEAN /\ (provider' => domains)
    <2>1. CASE provider' = provider
        BY <1>3, <2>1
    <2>2. CASE provider' = TRUE /\ "domains" \in ui.know
        BY <1>3, <2>2
    <2> QED
        BY <1>1, <2>1, <2>2
<1>6. /\ ModalTypes' /\ loading' = loading
      /\ proxyId' \in Proxies \cup {0} /\ (installed' => proxyId' # 0)
      /\ (skip' => Configured) /\ (failed => failed')
      /\ defaults' \/ failed'
    BY <1>1, <1>3, <1>5, ModalMoved
<1>7. SkipProxyStepIfConfigured(s, skip') # step /\ s \in Steps
    BY <1>1 DEF SkipProxyStepIfConfigured, Steps
<1>8. Wait(tasks, loading')
    BY <1>2, <1>6
<1> QED
    BY <1>1, <1>2, <1>4, <1>5, <1>6, <1>7, <1>8, Shows

LEMMA NextProxyGoesOnKeeps == ASSUME IInv, NextProxyGoesOn PROVE IInv'
<1>1. /\ UNCHANGED <<shown, appConfigured, store, proxy, loading, failed>> /\ UNCHANGED cluster
      /\ step = "proxy" /\ provider' = provider /\ GoTo("nethvoice", tasks) /\ "fqdn" \in ui.know
    BY DEF NextProxyGoesOn
<1>2. Good(tasks, step, ui.busy) /\ Once(tasks) /\ Wait(tasks, loading)
    BY InvParts
<1>3. /\ (provider => domains) /\ provider \in BOOLEAN /\ provider /\ Configured
      /\ defaults \/ failed
    BY <1>1 DEF IInv, KnowInv, StepInv, TypeOK
<1>4. provider' \in BOOLEAN /\ (provider' => domains) /\ provider'
    BY <1>1, <1>3
<1>5. /\ ModalTypes' /\ loading' = loading
      /\ proxyId' \in Proxies \cup {0} /\ (installed' => proxyId' # 0)
      /\ (skip' => Configured) /\ (failed => failed')
      /\ defaults' \/ failed'
    BY <1>1, <1>3, <1>4, ModalMoved
<1>6. SkipProxyStepIfConfigured("nethvoice", skip') # step /\ "nethvoice" \in Steps
    BY <1>1 DEF SkipProxyStepIfConfigured, Steps
<1>7. Wait(tasks, loading')
    BY <1>2, <1>5
<1> QED
    BY <1>1, <1>2, <1>3, <1>4, <1>5, <1>6, <1>7, Shows

\* A button that starts a task which changes the cluster: it was enabled, so no other is
\* under way, and from now on it is not.
LEMMA Submits ==
    ASSUME IInv, NEW kind \in StepWrites, NEW id \in Nat, NEW f \in Flags,
           ui.busy = {}, OfStep(kind, step), kind \in TaskOf(f),
           kind = "configure-proxy" => id \in Proxies,
           ui' = [ui EXCEPT !.busy = @ \cup {f}], tasks' = Create(tasks, kind, id),
           UNCHANGED <<shown, appConfigured, store, step, deaf, provider, proxy, loading,
                       cluster, failed>>
    PROVE  IInv'
<1>1. Good(tasks, step, ui.busy) /\ Once(tasks) /\ Wait(tasks, loading)
    BY InvParts
<1>2. /\ ui' \in UiTypes /\ ui'.busy = {f} /\ ui'.know = ui.know
    BY DEF IInv, TypeOK, UiTypes
<1>3. \A t \in Writing(tasks) : FALSE
    BY <1>1 DEF Writing, Good, Heard, Flagged, StepKinds, StepWrites
<1>4. Good(tasks, step, ui'.busy)
    BY <1>1, <1>2, MoreFlags
<1>5. /\ kind \in Kinds /\ Flagged(kind, ui'.busy) /\ kind \notin {"get-proxy", "get-step-proxy"}
    BY <1>2, TaskOfFacts DEF Kinds, StepKinds, StepWrites, Flagged, Flags
<1>6. /\ Good(tasks', step, ui'.busy)
      /\ DOMAIN tasks' = DOMAIN tasks \cup {NewTask(kind, id)}
      /\ NewTask(kind, id).kind = kind /\ NewTask(kind, id).live
    BY <1>4, <1>5, GoodAdd
<1>7. IsABag(tasks)
    BY <1>1 DEF Good
<1>8. Once(tasks')
    BY <1>1, <1>3, <1>7, OnceAdd
<1>9. Wait(tasks', loading) /\ Busy(tasks', ui'.busy)
    BY <1>1, <1>2, <1>6 DEF Wait, Busy
<1>10. deaf' \in BOOLEAN
    BY DEF IInv, TypeOK
<1> QED
    BY <1>2, <1>6, <1>8, <1>9, <1>10, StepOnly

LEMMA NextOpenldapKeeps == ASSUME IInv, NextOpenldap PROVE IInv'
<1>1. /\ "configure-openldap" \in StepWrites /\ 0 \in Nat /\ "configure" \in Flags
      /\ "configure-openldap" \in TaskOf("configure")
    BY TaskOfFacts DEF StepWrites, Flags
<1>2. OfStep("configure-openldap", step) /\ ui.busy = {}
    BY DEF NextOpenldap, NextEnabled, OfStep
<1> QED
    BY <1>1, <1>2, Submits DEF NextOpenldap, ConfigureOpenLdap

LEMMA StartConfigurationKeeps == ASSUME IInv, StartConfiguration PROVE IInv'
<1>1. /\ "configure-module" \in StepWrites /\ 0 \in Nat /\ "configure" \in Flags
      /\ "configure-module" \in TaskOf("configure")
    BY TaskOfFacts DEF StepWrites, Flags
<1>2. OfStep("configure-module", step) /\ ui.busy = {}
    BY DEF StartConfiguration, NextEnabled, OfStep
<1> QED
    BY <1>1, <1>2, Submits DEF StartConfiguration, ConfigureModule

LEMMA NextProxyConfiguresKeeps == ASSUME IInv, NextProxyConfigures PROVE IInv'
<1>1. /\ "configure-proxy" \in StepWrites /\ "configure" \in Flags
      /\ "configure-proxy" \in TaskOf("configure")
    BY TaskOfFacts DEF StepWrites, Flags
<1>2. OfStep("configure-proxy", step) /\ ui.busy = {}
    BY DEF NextProxyConfigures, NextEnabled, OfStep
<1>3. proxyId \in Proxies /\ proxyId \in Nat
    BY DEF NextProxyConfigures, IInv, ProxyInv, TypeOK
<1> QED
    BY <1>1, <1>2, <1>3, Submits DEF NextProxyConfigures, ConfigureProxy

LEMMA NextProxyInstallsKeeps == ASSUME IInv, NextProxyInstalls PROVE IInv'
<1>1. /\ "add-proxy" \in StepWrites /\ 0 \in Nat /\ "install" \in Flags
      /\ "add-proxy" \in TaskOf("install")
    BY TaskOfFacts DEF StepWrites, Flags
<1>2. /\ OfStep("add-proxy", step) /\ ui.busy = {}
      /\ ui' = [ui EXCEPT !.busy = @ \cup {"install"}]
      /\ UNCHANGED <<shown, appConfigured, store, step, provider, proxy, loading, cluster, failed>>
    BY DEF NextProxyInstalls, NextEnabled, OfStep
<1>3. CASE status
    <2>1. tasks' = Create(tasks, "add-proxy", 0) /\ deaf' = deaf
        BY <1>3 DEF NextProxyInstalls, InstallProxy
    <2>2. UNCHANGED <<shown, appConfigured, store, step, deaf, provider, proxy, loading,
                      cluster, failed>>
        BY <1>2, <2>1
    <2> QED
        BY <1>1, <1>2, <2>1, <2>2, Submits
<1>4. CASE ~status
    <2>1. tasks' = tasks /\ deaf' = TRUE
        BY <1>4 DEF NextProxyInstalls
    <2>2. ui' \in UiTypes /\ ui'.busy = {"install"} /\ ui'.know = ui.know
        BY <1>1, <1>2 DEF IInv, TypeOK, UiTypes
    <2>3. Good(tasks, step, ui.busy) /\ Once(tasks) /\ Wait(tasks, loading)
        BY InvParts
    <2>4. Good(tasks', step, ui'.busy)
        BY <1>2, <2>1, <2>2, <2>3, MoreFlags
    <2> QED
        BY <1>2, <2>1, <2>2, <2>3, <2>4, StepOnly
<1> QED
    BY <1>3, <1>4

-----------------------------------------------------------------------------
(* The cluster runs the tasks: the browser is as it was.                   *)

\* The first of the proxies is one of them: every set of numbers has a least one.
LEMMA FirstProxyFacts == FirstProxy \in Proxies \cup {0}
<1>1. CASE \A p \in Proxies : proxies[p] = "absent"
    BY <1>1 DEF FirstProxy
<1>2. CASE \E p \in Proxies : proxies[p] # "absent"
    <2> DEFINE S == {p \in Proxies : proxies[p] # "absent"}
    <2>1. S \subseteq Nat /\ S # {}
        BY <1>2, WizardAssumption DEF Proxies
    <2>2. PICK p \in S : \A q \in S : ~(<<q, p>> \in OpToRel(<, Nat))
        BY <2>1, WFMin, NatLessThanWellFounded
    <2>3. \A q \in S : ~(q < p)
        BY <2>1, <2>2 DEF OpToRel
    <2>4. p \in Proxies /\ proxies[p] # "absent" /\ \A q \in 1..p - 1 : proxies[q] = "absent"
        BY <2>3, WizardAssumption DEF Proxies
    <2>5. FirstProxy = CHOOSE r \in Proxies :
                           proxies[r] # "absent" /\ \A q \in 1..r - 1 : proxies[q] = "absent"
        BY <1>2 DEF FirstProxy
    <2> QED
        BY <2>4, <2>5
<1> QED
    BY <1>1, <1>2

\* What was so of the cluster stays so.
Grown ==
    /\ domains' \in BOOLEAN /\ module' \in BOOLEAN /\ proxies' \in [Proxies -> ProxyStates]
    /\ domains => domains'
    /\ module => module'
    /\ Configured => Configured'

\* A task has run: in its place is its answer, or nothing if nobody hears it.
LEMMA RunKeeps ==
    ASSUME IInv, Grown, NEW t \in DOMAIN tasks, NEW seen \in Nat, ~t.done, Ran(t, seen),
           t.live => Told([t EXCEPT !.done = TRUE, !.seen = seen])',
           UNCHANGED <<shown, appConfigured, store, view, provider, proxy, loading, failed>>
    PROVE  IInv'
<1> DEFINE n == [t EXCEPT !.done = TRUE, !.seen = seen]
           R == tasks (-) One(t)
<1>1. /\ Good(tasks, step, ui.busy) /\ Once(tasks) /\ Wait(tasks, loading)
      /\ ~deaf => Busy(tasks, ui.busy)
    BY InvParts
<1>2. /\ Good(R, step, ui.busy) /\ Once(R) /\ DOMAIN R \subseteq DOMAIN tasks
      /\ DOMAIN tasks \subseteq DOMAIN R \cup {t}
      /\ t \in Writing(tasks) => \A u \in Writing(R) : u.kind # t.kind
    BY <1>1, GoodRemove
<1>3. t \in Task /\ Heard(t, step, ui.busy)
    BY <1>1 DEF Good
<1>4. n \in Task /\ n.kind = t.kind /\ n.live = t.live /\ n.done = TRUE
    BY <1>3 DEF Task
<1>5. tasks' = IF t.live THEN R (+) One(n) ELSE R
    BY DEF Ran
<1>6. t.live => Told(n)'
    OBVIOUS
<1> HIDE DEF n, R
<1>7. Once(tasks')
    <2>1. IsABag(R)
        BY <1>2 DEF Good
    <2>2. n.live /\ n.kind \in StepWrites => \A u \in Writing(R) : u.kind # n.kind
        BY <1>2, <1>4 DEF Writing
    <2>3. Once(R (+) One(n))
        BY <1>2, <2>1, <2>2, OncePut
    <2> QED
        BY <1>2, <1>5, <2>3
<1>8. IsABag(tasks') /\ DOMAIN tasks' = IF t.live THEN DOMAIN R \cup {n} ELSE DOMAIN R
    <2>1. IsABag(R)
        BY <1>2 DEF Good
    <2>2. IsABag(R (+) One(n)) /\ DOMAIN (R (+) One(n)) = DOMAIN R \cup {n}
        BY <2>1, BagAdd
    <2> QED
        BY <1>5, <2>1, <2>2
<1>9. /\ step' = step /\ ui' = ui /\ deaf' = deaf /\ shown' = shown /\ loading' = loading
      /\ appConfigured' = appConfigured /\ status' = status /\ defaults' = defaults
      /\ provider' = provider /\ skip' = skip /\ installed' = installed /\ proxyId' = proxyId
      /\ failed' = failed
    BY DEF store, view, proxy
<1>10. \A x : Told(x) => Told(x)'
    BY DEF Grown, Told
<1>11. TasksInv'
    <2> SUFFICES ASSUME NEW x \in DOMAIN tasks' PROVE Told(x)' /\ Heard(x, step, ui.busy)
        BY <1>9 DEF TasksInv, Heard
    <2>1. CASE x \in DOMAIN R
        BY <1>2, <1>10, <2>1 DEF Good
    <2>2. CASE x = n /\ t.live
        BY <1>3, <1>4, <1>6, <2>2 DEF Heard
    <2> QED
        BY <1>8, <2>1, <2>2
<1>12. TypeOK'
    <2>1. DOMAIN tasks' \subseteq Task
        BY <1>2, <1>4, <1>8 DEF Good
    <2>2. TypeOK
        BY DEF IInv
    <2> QED
        BY <1>8, <1>9, <2>1, <2>2 DEF TypeOK, Grown
<1>13. ProxyInv' /\ KnowInv'
    <2>1. ProxyInv /\ KnowInv
        BY DEF IInv
    <2> QED
        BY <1>9, <2>1 DEF ProxyInv, KnowInv, Grown
<1>14. StepInv'
    <2>1. StepInv
        BY DEF IInv
    <2>2. step' = "nethvoice" => Configured'
        BY <1>9, <2>1 DEF StepInv, Grown
    <2>3. step' \in {"proxy", "nethvoice"} => provider'
        <3>1. step \in {"proxy", "nethvoice"} => provider
            BY <2>1 DEF StepInv
        <3>2. step' = step /\ provider' = provider
            BY <1>9
        <3> QED
            BY <3>1, <3>2
    <2>4. step' = step /\ loading' = loading
        BY <1>9
    <2>5. (shown' => shown) /\ (defaults => defaults') /\ (failed => failed')
        BY <1>9
    <2>6. /\ shown => step # ""
          /\ step # "" => "get-defaults" \in loading \/ defaults \/ failed
          /\ step \in {"openldap", "proxy", "nethvoice"} => defaults \/ failed
        BY <2>1 DEF StepInv
    <2>7. /\ shown' => step' # ""
          /\ step' # "" => "get-defaults" \in loading' \/ defaults' \/ failed'
          /\ step' \in {"openldap", "proxy", "nethvoice"} => defaults' \/ failed'
        BY <2>4, <2>5, <2>6
    <2> QED
        BY <2>2, <2>3, <2>7 DEF StepInv
<1>15. TimezonesAreThere'
    BY <1>9 DEF IInv, TimezonesAreThere
<1>16. OneSubmission'
    BY <1>7 DEF OneSubmission, Once, Writing
<1>17. \A x \in DOMAIN tasks : x.live => \E y \in DOMAIN tasks' : y.live /\ y.kind = x.kind
    BY <1>2, <1>4, <1>8
<1>18. NobodyWaitsInVain'
    <2>1. \A k \in loading : k \notin StepWrites
        BY DEF IInv, TypeOK, StepWrites
    <2>2. \A x \in DOMAIN tasks : x.kind \notin StepWrites => x.live
        BY <1>1 DEF Good, Heard
    <2>3. \A k \in loading : \E y \in DOMAIN tasks' : y.kind = k
        BY <1>1, <1>17, <2>1, <2>2 DEF Wait
    <2>4. ~deaf => \A f \in ui.busy : \E y \in DOMAIN tasks' : y.live /\ y.kind \in TaskOf(f)
        BY <1>1, <1>17 DEF Busy
    <2> QED
        BY <1>9, <2>3, <2>4 DEF NobodyWaitsInVain
<1> QED
    BY <1>11, <1>12, <1>13, <1>14, <1>15, <1>16, <1>18 DEF IInv

LEMMA TaskCompletesKeeps ==
    ASSUME IInv, NEW t \in DOMAIN tasks, TaskCompletes(t),
           UNCHANGED <<shown, appConfigured, store, view, provider, proxy, loading, failed>>
    PROVE  IInv'
<1>0. PICK seen : seen = SeenBy(t)
    OBVIOUS
<1> DEFINE n == [t EXCEPT !.done = TRUE, !.seen = seen]
<1>1. /\ ~t.done /\ t.kind \notin Opaque \cup {"add-proxy"} /\ Ran(t, seen)
      /\ domains' = (domains \/ t.kind = "configure-openldap")
      /\ module' = (module \/ t.kind = "configure-module")
      /\ proxies' = IF t.kind = "configure-proxy" THEN [proxies EXCEPT ![t.id] = "configured"]
                    ELSE proxies
    BY <1>0 DEF TaskCompletes
<1>2. t \in Task /\ Told(t)
    BY InvParts DEF Good
<1>3. domains \in BOOLEAN /\ module \in BOOLEAN /\ proxies \in [Proxies -> ProxyStates]
    BY DEF IInv, TypeOK
<1>4. t.kind = "configure-proxy" => t.id \in Proxies
    BY <1>2 DEF Told
<1>5. proxies' \in [Proxies -> ProxyStates] /\ (Configured => Configured')
    BY <1>1, <1>3, <1>4 DEF ProxyStates, Configured
<1>6. t.kind = "configure-proxy" => Configured'
    BY <1>1, <1>3, <1>4 DEF Configured
<1>7. /\ domains' \in BOOLEAN /\ module' \in BOOLEAN
      /\ domains => domains'
      /\ module => module'
      /\ t.kind = "configure-openldap" => domains'
      /\ t.kind = "configure-module" => module'
    BY <1>1, <1>3
<1>8. Grown
    BY <1>5, <1>7 DEF Grown
<1>9. /\ seen \in Nat
      /\ t.kind = "get-defaults" => seen \in Proxies \cup {0}
      /\ t.kind = "list-user-domains" /\ seen = 1 => domains
      /\ t.kind = "get-configuration" /\ seen = 1 => module
      /\ t.kind \in {"get-proxy", "get-step-proxy"} /\ seen = 1 => Configured
    <2>1. /\ t.kind = "get-configuration" => seen = Bit(module)
          /\ t.kind = "list-user-domains" => seen = Bit(domains)
          /\ t.kind = "get-defaults" => seen = FirstProxy
          /\ t.kind \in {"get-proxy", "get-step-proxy"} => seen = Bit(proxies[t.id] = "configured")
          /\ t.kind \notin {"get-configuration", "list-user-domains", "get-defaults", "get-proxy",
                            "get-step-proxy"} => seen = 0
        BY <1>0 DEF SeenBy
    <2>2. FirstProxy \in Proxies \cup {0} /\ FirstProxy \in Nat
        BY FirstProxyFacts, WizardAssumption DEF Proxies
    <2>3. \A b \in BOOLEAN : Bit(b) \in Nat /\ (Bit(b) = 1 => b)
        BY DEF Bit
    <2>4. t.kind \in {"get-proxy", "get-step-proxy"} => t.id \in Proxies
        BY <1>2 DEF Told
    <2>5. (proxies[t.id] = "configured") \in BOOLEAN
        OBVIOUS
    <2>6. seen \in Nat
        <3>1. Bit(module) \in Nat /\ Bit(domains) \in Nat /\ Bit(proxies[t.id] = "configured") \in Nat
            BY DEF Bit
        <3> QED
            BY <2>1, <2>2, <3>1
    <2>7. t.kind \in {"get-proxy", "get-step-proxy"} /\ seen = 1 => Configured
        BY <2>1, <2>3, <2>4, <2>5 DEF Configured
    <2> QED
        BY <1>3, <2>1, <2>2, <2>3, <2>6, <2>7
<1>10. n.kind = t.kind /\ n.id = t.id /\ n.seen = seen
    BY <1>2 DEF Task
<1> HIDE DEF n
<1>11. Told(n)'
    <2>1. n.kind \in {"get-proxy", "get-step-proxy", "configure-proxy"} => n.id \in Proxies
        BY <1>2, <1>10 DEF Told
    <2>2. /\ n.kind = "get-defaults" => n.seen \in Proxies \cup {0}
          /\ n.kind # "add-proxy"
        BY <1>1, <1>9, <1>10
    <2>3. /\ n.kind = "list-user-domains" /\ n.seen = 1 => domains'
          /\ n.kind = "configure-openldap" => domains'
        BY <1>7, <1>9, <1>10
    <2>4. /\ n.kind \in {"get-proxy", "get-step-proxy"} /\ n.seen = 1 => Configured'
          /\ n.kind = "configure-proxy" => Configured'
        BY <1>5, <1>6, <1>9, <1>10
    <2>5. /\ n.kind = "get-configuration" /\ n.seen = 1 => module'
          /\ n.kind = "configure-module" => module'
        BY <1>7, <1>9, <1>10
    <2> QED
        BY <2>1, <2>2, <2>3, <2>4, <2>5 DEF Told
<1> QED
    BY <1>1, <1>8, <1>9, <1>11, RunKeeps DEF n

LEMMA ProxyIsInstalledKeeps ==
    ASSUME IInv, NEW t \in DOMAIN tasks, ProxyIsInstalled(t),
           UNCHANGED <<shown, appConfigured, store, view, provider, proxy, loading, failed>>
    PROVE  IInv'
<1>1. PICK p \in Proxies : /\ proxies[p] = "absent"
                           /\ proxies' = [proxies EXCEPT ![p] = "installed"] /\ Ran(t, p)
    BY DEF ProxyIsInstalled
<1>2. ~t.done /\ t.kind = "add-proxy" /\ domains' = domains /\ module' = module
    BY DEF ProxyIsInstalled
<1>3. t \in Task
    BY InvParts DEF Good
<1>4. domains \in BOOLEAN /\ module \in BOOLEAN /\ proxies \in [Proxies -> ProxyStates]
    BY DEF IInv, TypeOK
<1>5. proxies' \in [Proxies -> ProxyStates] /\ (Configured => Configured')
    BY <1>1, <1>4 DEF ProxyStates, Configured
<1>6. Grown
    BY <1>2, <1>4, <1>5 DEF Grown
<1>7. p \in Nat
    BY WizardAssumption DEF Proxies
<1> DEFINE n == [t EXCEPT !.done = TRUE, !.seen = p]
<1>8. n.kind = "add-proxy" /\ n.seen = p
    BY <1>2, <1>3 DEF Task
<1>9. Told(n)'
    <2> HIDE DEF n
    <2> QED
        BY <1>8 DEF Told
<1> QED
    BY <1>1, <1>2, <1>6, <1>7, <1>9, RunKeeps

LEMMA OrphanFailsKeeps ==
    ASSUME IInv, NEW t \in DOMAIN tasks, OrphanFails(t),
           UNCHANGED <<shown, appConfigured, store, view, provider, proxy, loading, failed>>
    PROVE  IInv'
<1>1. ~t.live /\ tasks' = tasks (-) One(t) /\ UNCHANGED cluster
    BY DEF OrphanFails
<1>2. ~t.done
    BY <1>1, InvParts DEF Good, Heard
<1>3. Ran(t, 0) /\ 0 \in Nat
    BY <1>1 DEF Ran
<1>4. Grown
    BY <1>1 DEF Grown, cluster, IInv, TypeOK, Configured
<1> QED
    BY <1>1, <1>2, <1>3, <1>4, RunKeeps

-----------------------------------------------------------------------------
LEMMA InitHolds == Init => IInv
<1> SUFFICES ASSUME Init PROVE IInv
    OBVIOUS
<1> DEFINE T == EmptyBag
<1>1. IsABag(T) /\ DOMAIN T = {}
    BY DEF EmptyBag, IsABag, SetToBag
<1> HIDE DEF T
<1>2. Good(T, "", {}) /\ Once(T)
    BY <1>1 DEF Good, Once, Writing
<1>3. tasks = Create(T, "get-configuration", 0)
    BY DEF Init, GetConfiguration, T
<1>4. Good(tasks, "", {}) /\ Once(tasks)
    <2>1. "get-configuration" \notin StepWrites
        BY DEF StepWrites
    <2> QED
        BY <1>1, <1>2, <1>3, <2>1, GoodAdd, OnceAdd, ModalKinds
<1>5. /\ step = "" /\ ui.busy = {} /\ ui.know = {} /\ loading = {} /\ ~shown /\ ~skip
      /\ ~provider /\ ~installed /\ proxyId = 0
    BY DEF Init, NoStep
<1>6. TypeOK
    <2>1. ui \in [busy: SUBSET Flags, know: SUBSET Facts]
        BY DEF Init, NoStep
    <2> QED
        BY <1>4, <2>1 DEF Init, TypeOK, Good
<1>7. TasksInv
    BY <1>4, <1>5 DEF TasksInv, Good
<1>8. ProxyInv /\ KnowInv /\ StepInv /\ TimezonesAreThere
    BY <1>5 DEF ProxyInv, KnowInv, StepInv, TimezonesAreThere
<1>9. OneSubmission /\ NobodyWaitsInVain
    BY <1>4, <1>5 DEF OneSubmission, Once, Writing, NobodyWaitsInVain
<1> QED
    BY <1>6, <1>7, <1>8, <1>9 DEF IInv

LEMMA UserKeeps == ASSUME IInv, User PROVE IInv'
BY ReloadKeeps, ResumeKeeps, HideKeeps, PreviousStepKeeps, NextAccountProviderKeeps,
   NextOpenldapKeeps, NextProxyInstallsKeeps, NextProxyConfiguresKeeps, NextProxyGoesOnKeeps,
   StartConfigurationKeeps DEF User

LEMMA ClusterKeeps == ASSUME IInv, Cluster PROVE IInv'
BY TaskCompletesKeeps, ProxyIsInstalledKeeps, OrphanFailsKeeps DEF Cluster

LEMMA AnswersKeep == ASSUME IInv, Answers PROVE IInv'
BY GetConfigurationKeeps, GetStatusKeeps, PageStatusKeeps, PageDefaultsKeeps, GetDefaultsKeeps,
   GetProxyConfigKeeps, ListUserDomainsKeeps, AddInternalProviderKeeps,
   GetOpenLdapDefaultsKeeps, ConfigureOpenLdapKeeps, GetStepProxyConfigKeeps,
   GetAvailableInterfacesKeeps, InstallProxyKeeps, ConfigureProxyKeeps, ConfigureModuleKeeps
   DEF Answers

LEMMA StutterKeeps == ASSUME IInv, UNCHANGED vars PROVE IInv'
<1>1. /\ ui' = ui /\ tasks' = tasks /\ deaf' = deaf
      /\ UNCHANGED <<shown, appConfigured, store, step, provider, proxy, loading, cluster, failed>>
    BY DEF vars, store, proxy, cluster
<1>2. ui' \in UiTypes /\ deaf' \in BOOLEAN
    BY <1>1 DEF IInv, TypeOK, UiTypes
<1>3. /\ Good(tasks', step, ui'.busy) /\ Once(tasks') /\ Wait(tasks', loading)
      /\ ~deaf' => Busy(tasks', ui'.busy)
    BY <1>1, InvParts
<1> QED
    BY <1>1, <1>2, <1>3, StepOnly

(***************************************************************************)
(* Every handler of the wizard and every task of the cluster keeps the     *)
(* invariant: what the tasks on their way say of the cluster is so, a task *)
(* that is heard belongs to the step shown and has its flag set, and the   *)
(* modal is no further than what it has learnt allows.                     *)
(***************************************************************************)
THEOREM WizardInvariant == Spec => []IInv
<1>1. Init => IInv
    BY InitHolds
<1>2. IInv /\ [Next]_vars => IInv'
    BY UserKeeps, ClusterKeeps, AnswersKeep, StutterKeeps DEF Next
<1> QED
    BY <1>1, <1>2, PTL DEF Spec

\* The store, the modal, its step, the tasks and the cluster keep their types.
THEOREM WizardTypes == Spec => []TypeOK
<1>1. IInv => TypeOK
    BY DEF IInv
<1> QED
    BY <1>1, WizardInvariant, PTL

(***************************************************************************)
(* NethvoiceStep is reached only with an account provider, a user domain   *)
(* and a configured proxy, whatever the order of clicks and late answers.  *)
(***************************************************************************)
THEOREM LastStepIsReady == Spec => []NethvoiceStepIsReady
<1>1. IInv => NethvoiceStepIsReady
    BY DEF IInv, StepInv, KnowInv, Configured, NethvoiceStepIsReady
<1> QED
    BY <1>1, WizardInvariant, PTL

\* NethvoiceStep, created once, has found the defaults it reads its timezones from.
THEOREM LastStepHasTimezones == Spec => []TimezonesAreThere
<1>1. IInv => TimezonesAreThere
    BY DEF IInv
<1> QED
    BY <1>1, WizardInvariant, PTL

\* No step submits the same change of the cluster twice.
THEOREM SubmittedOnce == Spec => []OneSubmission
<1>1. IInv => OneSubmission
    BY DEF IInv
<1> QED
    BY <1>1, WizardInvariant, PTL

\* A Next button that is disabled waits for a task that has still to answer.
THEOREM WaitsAreAnswered == Spec => []NobodyWaitsInVain
<1>1. IInv => NobodyWaitsInVain
    BY DEF IInv
<1> QED
    BY <1>1, WizardInvariant, PTL

-----------------------------------------------------------------------------
LEMMA ConfiguredHeard ==
    ASSUME IInv, Next, ~appConfigured, appConfigured'
    PROVE  module \/ step' = ""
<1>1. CASE Reload
    BY <1>1 DEF Reload
<1>2. CASE GetConfigurationAnswered
    <2>1. PICK a \in AnswersTo("get-configuration") :
              appConfigured' = IF Done(a) THEN Seen(a) = 1 ELSE appConfigured
        BY <1>2 DEF GetConfigurationAnswered
    <2>2. Done(a) /\ Seen(a) = 1
        BY <2>1
    <2>3. Told(a.task) /\ a.task.kind = "get-configuration" /\ a.task.done /\ a.task.seen = 1
        BY <2>2, AnswerFacts DEF Seen, Opaque
    <2> QED
        BY <2>3 DEF Told
<1>3. CASE ConfigureModuleAnswered
    <2>1. PICK a \in AnswersTo("configure-module") : Done(a) \/ appConfigured' = appConfigured
        BY <1>3 DEF ConfigureModuleAnswered
    <2>2. Done(a)
        BY <2>1
    <2>3. Told(a.task) /\ a.task.kind = "configure-module" /\ a.task.done
        BY <2>2, AnswerFacts DEF Opaque
    <2> QED
        BY <2>3 DEF Told
<1>4. ASSUME User, ~Reload PROVE appConfigured' = appConfigured
    BY <1>4 DEF User, Resume, Hide, PreviousStep, NextAccountProvider, NextOpenldap,
       NextProxyInstalls, NextProxyConfigures, NextProxyGoesOn, StartConfiguration
<1>5. ASSUME Cluster PROVE appConfigured' = appConfigured
    BY <1>5 DEF Cluster
<1>6. ASSUME Answers, ~GetConfigurationAnswered, ~ConfigureModuleAnswered
      PROVE  appConfigured' = appConfigured
    BY <1>6 DEF Answers, GetStatusAnswered, PageStatus, PageDefaults, GetDefaultsAnswered,
       GetProxyConfigAnswered, ListUserDomainsAnswered, AddInternalProviderAnswered,
       GetOpenLdapDefaultsAnswered, ConfigureOpenLdapAnswered, GetStepProxyConfigAnswered,
       GetAvailableInterfacesAnswered, InstallProxyAnswered, ConfigureProxyAnswered, StepLearns
<1> QED
    BY <1>1, <1>2, <1>3, <1>4, <1>5, <1>6 DEF Next

(***************************************************************************)
(* Where the interface knew the module was not configured, it takes it for *)
(* configured only when it is, a reload of the page apart.                 *)
(***************************************************************************)
THEOREM ConfiguredIsBelieved == Spec => ConfiguredIsTrue
<1>1. IInv /\ [Next]_vars =>
          [~appConfigured /\ appConfigured' => module \/ step' = ""]_vars
    BY ConfiguredHeard
<1> QED
    BY <1>1, WizardInvariant, PTL DEF Spec, ConfiguredIsTrue
=============================================================================
