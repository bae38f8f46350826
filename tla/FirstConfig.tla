---------------------------- MODULE FirstConfig ----------------------------
(***************************************************************************)
(* The first configuration wizard of the module's user interface: App.vue, *)
(* the Vuex store, FirstConfigurationModal.vue and its four steps, with    *)
(* the tasks of the cluster they start.  The browser runs one handler at a *)
(* time, the watchers and the rendering it causes included: each is one    *)
(* action.  A task runs elsewhere, and its answer comes some time later.   *)
(*                                                                         *)
(* A step is created when the modal shows it and destroyed when it shows   *)
(* another one; a destroyed step no longer reaches the modal, while its    *)
(* tasks run on.  Reloading the page does the same to everything.          *)
(***************************************************************************)
EXTENDS Naturals, FiniteSets, Bags

CONSTANTS
    MaxProxies,  \* bound: proxies ever installed
    MaxSame,     \* bound: tasks of one kind at a time
    MaxTasks     \* bound: tasks at a time

ASSUME WizardAssumption == MaxProxies \in Nat /\ MaxSame \in Nat /\ MaxTasks \in Nat

Steps == {"accountProvider", "openldap", "proxy", "nethvoice"}
Proxies == 1..MaxProxies

\* The tasks of the steps: what only the step looks at, and what changes the cluster.
\* An OpenLDAP module is of no use before it is configured.
StepReads == {"list-user-domains", "add-internal-provider", "get-openldap-defaults",
              "get-step-proxy", "get-interfaces"}
StepWrites == {"configure-openldap", "add-proxy", "configure-proxy", "configure-module"}
StepKinds == StepReads \cup StepWrites
Kinds == StepKinds \cup {"get-configuration", "get-status", "get-defaults", "get-proxy"}

\* A task that neither changes the cluster nor tells anything of it.
Opaque == {"get-status", "add-internal-provider", "get-openldap-defaults", "get-interfaces"}

\* aborted; refused is validation-failed; uncreated, an error of the call that creates
\* the task.  Where the code treats them alike only aborted is there.
Outcomes == {"completed", "aborted", "refused", "uncreated"}
Failures(kind) ==
    {"aborted"} \cup (IF kind \in {"add-internal-provider", "configure-openldap", "add-proxy"}
                     THEN {"refused"} ELSE {})
                \cup (IF kind = "get-openldap-defaults" THEN {"uncreated"} ELSE {})

VARIABLES
    shown, appConfigured,  \* the store: is the modal shown, isAppConfigured
    status, defaults,      \* the store: instanceStatus and defaults are there
    step, ui,              \* the modal's step; that step's own loading flags and data
    provider,              \* the modal has an account provider
    installed, proxyId,    \* isProxyInstalled and proxyModuleId (0: none)
    skip,                  \* isProxyAlreadyConfigured
    loading,               \* the modal's loading flags that disable the Next button
    tasks,                 \* the tasks not answered yet
    domains, proxies, module,  \* the cluster: a user domain, the proxies, our configuration
    failed,                \* history: a get-defaults of the modal has failed
    deaf                   \* history: this step got an answer it does not listen to

vars == <<shown, appConfigured, status, defaults, step, ui, provider, installed, proxyId,
          skip, loading, tasks, domains, proxies, module, failed, deaf>>
cluster == <<domains, proxies, module>>
store == <<status, defaults>>
view == <<step, ui, deaf>>
proxy == <<installed, proxyId, skip>>

-----------------------------------------------------------------------------
(* Starting tasks.                                                         *)

\* The tasks are a bag: the same one may be started twice.
One(t) == SetToBag({t})
Create(T, kind, id) ==
    T (+) One([kind |-> kind, id |-> id, live |-> TRUE, done |-> FALSE, seen |-> 0])

GetConfiguration(T) == Create(T, "get-configuration", 0)
GetStatus(T) == Create(T, "get-status", 0)
GetDefaults(T) == Create(T, "get-defaults", 0)
GetProxyConfig(T, id) == Create(T, "get-proxy", id)
ListUserDomains(T) == Create(T, "list-user-domains", 0)
InstallOpenldapProvider(T) == Create(T, "add-internal-provider", 0)
GetOpenLdapDefaults(T) == Create(T, "get-openldap-defaults", 0)
ConfigureOpenLdap(T) == Create(T, "configure-openldap", 0)
GetStepProxyConfig(T, id) == Create(T, "get-step-proxy", id)
GetAvailableInterfaces(T, id) == Create(T, "get-interfaces", id)
InstallProxy(T) == Create(T, "add-proxy", 0)
ConfigureProxy(T, id) == Create(T, "configure-proxy", id)
ConfigureModule(T) == Create(T, "configure-module", 0)

\* The step's tasks when it is destroyed: nobody heeds their answers any more.
Orphan(t) == [t EXCEPT !.live = FALSE]
Only(T, S) == [t \in DOMAIN T \cap S |-> T[t]]
Orphaned(T) ==
    LET under == {t \in DOMAIN T : t.kind \in StepWrites /\ ~t.done}
    IN  Only(T, {t \in under : ~t.live}) (+)
        [o \in {Orphan(t) : t \in {u \in under : u.live}} |-> T[[o EXCEPT !.live = TRUE]]]
Left(T) == Only(T, {t \in DOMAIN T : t.kind \notin StepKinds}) (+) Orphaned(T)

-----------------------------------------------------------------------------
(* The life of a step: its data, its immediate watchers, created().        *)

NoStep == [busy |-> {}, know |-> {}]

\* skipProxyStepIfConfigured runs before the step is drawn.
SkipProxyStepIfConfigured(s, sk) == IF s = "proxy" /\ sk THEN "nethvoice" ELSE s

CreatedUi(s, st, def) ==
    CASE s = "accountProvider" -> [busy |-> {"list"}, know |-> {}]
      [] s = "openldap" -> [busy |-> IF st THEN {"install"} ELSE {}, know |-> {}]
      [] s = "proxy" -> NoStep
      [] s = "nethvoice" -> [busy |-> {}, know |-> IF def THEN {"timezones"} ELSE {}]

CreatedTasks(s, T, st, id) ==
    CASE s = "accountProvider" -> ListUserDomains(T)
      [] s = "openldap" -> IF st THEN InstallOpenldapProvider(T) ELSE T
      [] s = "proxy" -> IF id # 0 THEN GetStepProxyConfig(T, id) ELSE T
      [] s = "nethvoice" -> T

\* The modal shows s; T are the tasks there are.  Showing the same step changes nothing.
GoTo(s, T) ==
    LET to == SkipProxyStepIfConfigured(s, skip') IN
    /\ step' = to
    /\ IF to = step THEN ui' = ui /\ tasks' = T /\ deaf' = deaf
       ELSE /\ ui' = CreatedUi(to, status', defaults')
            /\ tasks' = CreatedTasks(to, Left(T), status', proxyId')
            /\ deaf' = FALSE

-----------------------------------------------------------------------------
(* What the user does.                                                     *)

ProxyStates == {"absent", "installed", "configured"}

\* Of the proxies there may be, at most one is there to begin with.
Init ==
    /\ domains \in BOOLEAN /\ module \in BOOLEAN
    /\ proxies \in [Proxies -> ProxyStates]
    /\ \A p \in Proxies : p > 1 => proxies[p] = "absent"
    /\ shown = FALSE /\ appConfigured = TRUE
    /\ status = FALSE /\ defaults = FALSE
    /\ step = "" /\ ui = NoStep
    /\ provider = FALSE /\ installed = FALSE /\ proxyId = 0 /\ skip = FALSE
    /\ loading = {} /\ tasks = GetConfiguration(EmptyBag)
    /\ failed = FALSE /\ deaf = FALSE

Reload ==
    /\ shown' = FALSE /\ appConfigured' = TRUE
    /\ status' = FALSE /\ defaults' = FALSE
    /\ step' = "" /\ ui' = NoStep
    /\ provider' = FALSE /\ installed' = FALSE /\ proxyId' = 0 /\ skip' = FALSE
    /\ loading' = {} /\ tasks' = GetConfiguration(Orphaned(tasks))
    /\ failed' = FALSE /\ deaf' = FALSE
    /\ UNCHANGED cluster

\* The modal's watcher of isShown.
Open(T) ==
    LET T2 == IF status THEN GetDefaults(T) ELSE GetStatus(GetDefaults(T)) IN
    /\ skip' = FALSE
    /\ loading' = loading \cup {"get-defaults"}
    /\ UNCHANGED <<store, installed, proxyId>>
    /\ GoTo("accountProvider", T2)

Resume ==
    /\ ~shown /\ ~appConfigured
    /\ shown' = TRUE
    /\ Open(tasks)
    /\ UNCHANGED <<appConfigured, provider, cluster, failed>>

Hide ==
    /\ shown
    /\ shown' = FALSE
    /\ UNCHANGED <<appConfigured, store, view, provider, proxy, loading, tasks, cluster, failed>>

\* Mutant of NextEnabled: the loading of the modal is not looked at.
MutNextEnabled == shown /\ ui.busy = {}

NextEnabled == shown /\ loading = {} /\ ui.busy = {}
PreviousEnabled == shown /\ step # "accountProvider" /\ ui.busy = {}

PreviousStep ==
    /\ PreviousEnabled
    /\ UNCHANGED <<store, proxy>>
    /\ GoTo(IF step = "nethvoice" /\ ~skip THEN "proxy" ELSE "accountProvider", tasks)
    /\ UNCHANGED <<shown, appConfigured, provider, loading, cluster, failed>>

\* The buttons below do nothing while the form is not valid.
NextAccountProvider ==
    /\ NextEnabled /\ step = "accountProvider"
    /\ UNCHANGED <<store, proxy>>
    /\ \/ UNCHANGED provider /\ GoTo("openldap", tasks)
       \/ /\ "domains" \in ui.know
          /\ provider' = TRUE /\ GoTo("proxy", tasks)
    /\ UNCHANGED <<shown, appConfigured, loading, cluster, failed>>

NextOpenldap ==
    /\ NextEnabled /\ step = "openldap"
    /\ {"created", "form"} \subseteq ui.know
    /\ ui' = [ui EXCEPT !.busy = @ \cup {"configure"}]
    /\ tasks' = ConfigureOpenLdap(tasks)
    /\ UNCHANGED <<shown, appConfigured, store, step, deaf, provider, proxy, loading,
                   cluster, failed>>

\* Without the status of this instance installProxy fails after it set its flag.
NextProxyInstalls ==
    /\ NextEnabled /\ step = "proxy" /\ ~installed
    /\ ui' = [ui EXCEPT !.busy = @ \cup {"install"}]
    /\ IF status
       THEN tasks' = InstallProxy(tasks) /\ UNCHANGED deaf
       ELSE deaf' = TRUE /\ UNCHANGED tasks
    /\ UNCHANGED <<shown, appConfigured, store, step, provider, proxy, loading, cluster, failed>>

NextProxyConfigures ==
    /\ NextEnabled /\ step = "proxy" /\ installed /\ "fqdn" \notin ui.know
    /\ "interfaces" \in ui.know /\ status
    /\ ui' = [ui EXCEPT !.busy = @ \cup {"configure"}]
    /\ tasks' = ConfigureProxy(tasks, proxyId)
    /\ UNCHANGED <<shown, appConfigured, store, step, deaf, provider, proxy, loading,
                   cluster, failed>>

NextProxyGoesOn ==
    /\ NextEnabled /\ step = "proxy" /\ installed /\ "fqdn" \in ui.know
    /\ UNCHANGED <<store, proxy>>
    /\ GoTo("nethvoice", tasks)
    /\ UNCHANGED <<shown, appConfigured, provider, loading, cluster, failed>>

\* Mutant of StartConfiguration: the loading flag is not set.
MutStartConfiguration ==
    /\ NextEnabled /\ step = "nethvoice" /\ "timezones" \in ui.know
    /\ UNCHANGED ui
    /\ tasks' = ConfigureModule(tasks)
    /\ UNCHANGED <<shown, appConfigured, store, step, deaf, provider, proxy, loading,
                   cluster, failed>>

\* set-nethvoice-admin-password is started too: nothing here waits for its answer.
StartConfiguration ==
    /\ NextEnabled /\ step = "nethvoice" /\ "timezones" \in ui.know
    /\ ui' = [ui EXCEPT !.busy = @ \cup {"configure"}]
    /\ tasks' = ConfigureModule(tasks)
    /\ UNCHANGED <<shown, appConfigured, store, step, deaf, provider, proxy, loading,
                   cluster, failed>>

User ==
    \/ Reload \/ Resume \/ Hide \/ PreviousStep
    \/ NextAccountProvider \/ NextOpenldap
    \/ NextProxyInstalls \/ NextProxyConfigures \/ NextProxyGoesOn
    \/ StartConfiguration

-----------------------------------------------------------------------------
(* The cluster runs the tasks.                                             *)

FirstProxy ==
    IF \A p \in Proxies : proxies[p] = "absent" THEN 0
    ELSE CHOOSE p \in Proxies : proxies[p] # "absent" /\ \A q \in 1..p - 1 : proxies[q] = "absent"

Bit(b) == IF b THEN 1 ELSE 0

\* The part of the answer that is looked at.
SeenBy(t) ==
    CASE t.kind = "get-configuration" -> Bit(module)
      [] t.kind = "list-user-domains" -> Bit(domains)
      [] t.kind = "get-defaults" -> FirstProxy
      [] t.kind \in {"get-proxy", "get-step-proxy"} -> Bit(proxies[t.id] = "configured")
      [] OTHER -> 0

\* It has run: its answer is on the way, if there is still somebody to hear it.
Ran(t, seen) ==
    tasks' = IF t.live THEN (tasks (-) One(t)) (+) One([t EXCEPT !.done = TRUE, !.seen = seen])
             ELSE tasks (-) One(t)

TaskCompletes(t) ==
    /\ ~t.done /\ t.kind \notin Opaque \cup {"add-proxy"}
    /\ Ran(t, SeenBy(t))
    /\ domains' = (domains \/ t.kind = "configure-openldap")
    /\ module' = (module \/ t.kind = "configure-module")
    /\ proxies' = IF t.kind = "configure-proxy" THEN [proxies EXCEPT ![t.id] = "configured"]
                  ELSE proxies

ProxyIsInstalled(t) ==
    /\ ~t.done /\ t.kind = "add-proxy"
    /\ \E p \in Proxies :
          /\ proxies[p] = "absent" /\ \A q \in 1..p - 1 : proxies[q] # "absent"
          /\ proxies' = [proxies EXCEPT ![p] = "installed"]
          /\ Ran(t, p)
    /\ UNCHANGED <<domains, module>>

OrphanFails(t) ==
    /\ ~t.live
    /\ tasks' = tasks (-) One(t)
    /\ UNCHANGED cluster

Cluster ==
    /\ \E t \in DOMAIN tasks : TaskCompletes(t) \/ ProxyIsInstalled(t) \/ OrphanFails(t)
    /\ UNCHANGED <<shown, appConfigured, store, view, provider, proxy, loading, failed>>

-----------------------------------------------------------------------------
(* The answers.  A failure changes nothing in the cluster: it is heard in  *)
(* the same step.                                                          *)

AnswersTo(kind) ==
    {a \in [task: {t \in DOMAIN tasks : t.kind = kind /\ t.live}, o: Outcomes] :
        IF a.o = "completed" THEN a.task.done \/ kind \in Opaque
        ELSE ~a.task.done /\ a.o \in Failures(kind)}
Rest(a) == tasks (-) One(a.task)
Done(a) == a.o = "completed"
Seen(a) == IF Done(a) THEN a.task.seen ELSE 0

\* The step forgets flag f and learns K.
Learns(f, K) == [busy |-> ui.busy \ {f}, know |-> ui.know \cup K]

GetConfigurationAnswered ==
    \E a \in AnswersTo("get-configuration") :
        LET T == Rest(a) IN
        /\ appConfigured' = IF Done(a) THEN Seen(a) = 1 ELSE appConfigured
        /\ IF Done(a) /\ Seen(a) = 0 /\ ~shown
           THEN shown' = TRUE /\ Open(T)
           ELSE tasks' = T /\ UNCHANGED <<shown, store, view, proxy, loading>>
        /\ UNCHANGED <<provider, cluster, failed>>

\* A new status in the store.  OpenldapStep watches it: each one installs a provider.
StatusStored(T) ==
    /\ status' = TRUE
    /\ IF step = "openldap"
       THEN ui' = [ui EXCEPT !.busy = @ \cup {"install"}] /\ tasks' = InstallOpenldapProvider(T)
       ELSE tasks' = T /\ UNCHANGED ui

GetStatusAnswered ==
    \E a \in AnswersTo("get-status") :
        /\ IF Done(a) THEN StatusStored(Rest(a)) ELSE tasks' = Rest(a) /\ UNCHANGED <<status, ui>>
        /\ UNCHANGED <<shown, appConfigured, defaults, step, deaf, provider, proxy, loading,
                       cluster, failed>>

\* The Status page stores both as well, for each time it was opened.
PageStatus ==
    /\ StatusStored(tasks)
    /\ UNCHANGED <<shown, appConfigured, defaults, step, deaf, provider, proxy, loading,
                   cluster, failed>>

PageDefaults ==
    /\ defaults' = TRUE
    /\ UNCHANGED <<shown, appConfigured, status, view, provider, proxy, loading, tasks,
                   cluster, failed>>

\* ProxyStep watches the module id.
TasksForProxyId(T, id) ==
    IF step = "proxy" /\ id # proxyId THEN GetStepProxyConfig(T, id) ELSE T

GetDefaultsAnswered ==
    \E a \in AnswersTo("get-defaults") :
        LET T == Rest(a) IN
        /\ defaults' = (defaults \/ Done(a))
        /\ failed' = (failed \/ ~Done(a))
        /\ IF Done(a) /\ Seen(a) # 0
           THEN /\ installed' = TRUE /\ proxyId' = Seen(a)
                /\ tasks' = TasksForProxyId(GetProxyConfig(T, Seen(a)), Seen(a))
                /\ loading' = (loading \ {"get-defaults"}) \cup {"get-proxy"}
           ELSE /\ installed' = IF Done(a) THEN FALSE ELSE installed
                /\ tasks' = T
                /\ loading' = loading \ {"get-defaults"}
                /\ UNCHANGED proxyId
        /\ UNCHANGED <<shown, appConfigured, status, view, provider, skip, cluster>>

\* Mutant of GetProxyConfigAnswered: a host name that ends in .invalid counts.
MutGetProxyConfigAnswered ==
    \E a \in AnswersTo("get-proxy") :
        /\ skip' = (Done(a) \/ skip)
        /\ loading' = loading \ {"get-proxy"}
        /\ UNCHANGED <<store, installed, proxyId>>
        /\ IF step = "" THEN tasks' = Rest(a) /\ UNCHANGED view
           ELSE GoTo(step, Rest(a))
        /\ UNCHANGED <<shown, appConfigured, provider, cluster, failed>>

\* A proxy found configured takes the modal past the proxy step, even while it is shown.
GetProxyConfigAnswered ==
    \E a \in AnswersTo("get-proxy") :
        /\ skip' = IF Done(a) THEN Seen(a) = 1 ELSE skip
        /\ loading' = loading \ {"get-proxy"}
        /\ UNCHANGED <<store, installed, proxyId>>
        /\ IF step = "" THEN tasks' = Rest(a) /\ UNCHANGED view
           ELSE GoTo(step, Rest(a))
        /\ UNCHANGED <<shown, appConfigured, provider, cluster, failed>>

\* The answers that concern only the step that asked.
StepLearns(new, T) ==
    /\ ui' = new /\ tasks' = T
    /\ UNCHANGED <<shown, appConfigured, store, step, deaf, provider, proxy, loading,
                   cluster, failed>>

\* Mutant of ListUserDomainsAnswered: the list is kept under another name.
MutListUserDomainsAnswered ==
    \E a \in AnswersTo("list-user-domains") :
        StepLearns(Learns("list", IF Seen(a) = 1 THEN {"domain"} ELSE {}), Rest(a))

ListUserDomainsAnswered ==
    \E a \in AnswersTo("list-user-domains") :
        StepLearns(Learns("list", IF Seen(a) = 1 THEN {"domains"} ELSE {}), Rest(a))

\* There is no handler for add-internal-provider refused.
AddInternalProviderAnswered ==
    \E a \in AnswersTo("add-internal-provider") :
        /\ tasks' = IF Done(a) THEN GetOpenLdapDefaults(Rest(a)) ELSE Rest(a)
        /\ ui' = IF a.o = "refused" THEN ui
                 ELSE Learns("install", IF Done(a) THEN {"created"} ELSE {})
        /\ deaf' = (deaf \/ a.o = "refused")
        /\ UNCHANGED <<shown, appConfigured, store, step, provider, proxy, loading, cluster,
                       failed>>

\* Where the task was not created the skeleton stays in the place of the form.
GetOpenLdapDefaultsAnswered ==
    \E a \in AnswersTo("get-openldap-defaults") :
        StepLearns(Learns("", IF a.o = "uncreated" THEN {} ELSE {"form"}), Rest(a))

\* configureOpenLdapAborted does not exist.
ConfigureOpenLdapAnswered ==
    \E a \in AnswersTo("configure-openldap") :
        /\ UNCHANGED <<store, proxy>>
        /\ \/ Done(a) /\ provider' = TRUE /\ GoTo("proxy", Rest(a))
           \/ /\ a.o \in {"refused", "uncreated"}
              /\ ui' = Learns("configure", {}) /\ tasks' = Rest(a)
              /\ UNCHANGED <<step, deaf, provider>>
           \/ /\ a.o = "aborted"
              /\ deaf' = TRUE /\ tasks' = Rest(a)
              /\ UNCHANGED <<step, ui, provider>>
        /\ UNCHANGED <<shown, appConfigured, loading, cluster, failed>>

GetStepProxyConfigAnswered ==
    \E a \in AnswersTo("get-step-proxy") :
        StepLearns(Learns("", IF Seen(a) = 1 THEN {"fqdn"} ELSE {}),
                   IF Done(a) THEN GetAvailableInterfaces(Rest(a), a.task.id) ELSE Rest(a))

GetAvailableInterfacesAnswered ==
    \E a \in AnswersTo("get-interfaces") :
        StepLearns(Learns("", IF Done(a) THEN {"interfaces"} ELSE {}), Rest(a))

\* There is no handler for add-module refused.
InstallProxyAnswered ==
    \E a \in AnswersTo("add-proxy") :
        /\ IF Done(a)
           THEN /\ installed' = TRUE /\ proxyId' = Seen(a)
                /\ tasks' = TasksForProxyId(Rest(a), Seen(a))
           ELSE tasks' = Rest(a) /\ UNCHANGED <<installed, proxyId>>
        /\ ui' = IF a.o = "refused" THEN ui ELSE Learns("install", {})
        /\ deaf' = (deaf \/ a.o = "refused")
        /\ UNCHANGED <<shown, appConfigured, store, step, provider, skip, loading, cluster, failed>>

\* Mutant of ConfigureProxyAnswered: a failure leaves the loading flag set.
MutConfigureProxyAnswered ==
    \E a \in AnswersTo("configure-proxy") :
        /\ UNCHANGED <<store, proxy>>
        /\ IF Done(a) THEN GoTo("nethvoice", Rest(a))
           ELSE /\ ui' = ui /\ tasks' = Rest(a)
                /\ UNCHANGED <<step, deaf>>
        /\ UNCHANGED <<shown, appConfigured, provider, loading, cluster, failed>>

ConfigureProxyAnswered ==
    \E a \in AnswersTo("configure-proxy") :
        /\ UNCHANGED <<store, proxy>>
        /\ IF Done(a) THEN GoTo("nethvoice", Rest(a))
           ELSE /\ ui' = Learns("configure", {}) /\ tasks' = Rest(a)
                /\ UNCHANGED <<step, deaf>>
        /\ UNCHANGED <<shown, appConfigured, provider, loading, cluster, failed>>

\* Mutant of ConfigureModuleAnswered: every answer finishes the wizard.
MutConfigureModuleAnswered ==
    \E a \in AnswersTo("configure-module") :
        /\ ui' = Learns("configure", {})
        /\ IF a.o \in Outcomes
           THEN /\ appConfigured' = TRUE /\ shown' = FALSE
                /\ tasks' = GetConfiguration(Rest(a))
           ELSE tasks' = Rest(a) /\ UNCHANGED <<appConfigured, shown>>
        /\ UNCHANGED <<store, step, deaf, provider, proxy, loading, cluster, failed>>

\* finish: App.vue hides the modal and reads the configuration again.
ConfigureModuleAnswered ==
    \E a \in AnswersTo("configure-module") :
        /\ ui' = Learns("configure", {})
        /\ IF Done(a)
           THEN /\ appConfigured' = TRUE /\ shown' = FALSE
                /\ tasks' = GetConfiguration(Rest(a))
           ELSE tasks' = Rest(a) /\ UNCHANGED <<appConfigured, shown>>
        /\ UNCHANGED <<store, step, deaf, provider, proxy, loading, cluster, failed>>

Answers ==
    \/ GetConfigurationAnswered \/ GetStatusAnswered \/ PageStatus \/ PageDefaults
    \/ GetDefaultsAnswered \/ GetProxyConfigAnswered \/ ListUserDomainsAnswered
    \/ AddInternalProviderAnswered \/ GetOpenLdapDefaultsAnswered \/ ConfigureOpenLdapAnswered
    \/ GetStepProxyConfigAnswered \/ GetAvailableInterfacesAnswered
    \/ InstallProxyAnswered \/ ConfigureProxyAnswered \/ ConfigureModuleAnswered

InBounds ==
    /\ BagCardinality(tasks) <= MaxTasks
    /\ \A k \in Kinds : BagCardinality(Only(tasks, {t \in DOMAIN tasks : t.kind = k})) <= MaxSame

Next == (User \/ Cluster \/ Answers) /\ InBounds'

Spec == Init /\ [][Next]_vars

-----------------------------------------------------------------------------
Flags == {"list", "install", "configure"}
Facts == {"domains", "created", "form", "fqdn", "interfaces", "timezones"}
Task == [kind: Kinds, id: Nat, live: BOOLEAN, done: BOOLEAN, seen: Nat]

\* The types of the store, the modal, its step, the tasks and the cluster.
TypeOK ==
    /\ shown \in BOOLEAN /\ appConfigured \in BOOLEAN /\ status \in BOOLEAN /\ defaults \in BOOLEAN
    /\ step \in Steps \cup {""} /\ ui \in [busy: SUBSET Flags, know: SUBSET Facts]
    /\ provider \in BOOLEAN /\ installed \in BOOLEAN /\ skip \in BOOLEAN
    /\ proxyId \in Nat /\ loading \subseteq {"get-defaults", "get-proxy"}
    /\ DOMAIN tasks \subseteq Task /\ IsABag(tasks)
    /\ domains \in BOOLEAN /\ module \in BOOLEAN /\ proxies \in [Proxies -> ProxyStates]
    /\ failed \in BOOLEAN /\ deaf \in BOOLEAN

(***************************************************************************)
(* The last step is reached only with an account provider whose domain     *)
(* exists and with a proxy that is configured, whichever way the user and  *)
(* the late answers took the modal there: configure-module is sent what    *)
(* both gave.                                                              *)
(***************************************************************************)
NethvoiceStepIsReady ==
    step = "nethvoice" =>
        provider /\ domains /\ \E p \in Proxies : proxies[p] = "configured"

(***************************************************************************)
(* NethvoiceStep reads the store's defaults once, when it is created: they *)
(* are there, unless a get-defaults has failed.  The wizard was opened any *)
(* number of times, with as many get-defaults on their way.                *)
(***************************************************************************)
TimezonesAreThere ==
    step = "nethvoice" /\ "timezones" \notin ui.know => failed

\* Of each task that changes the cluster the step shown has started at most one.
OneSubmission ==
    \A t, u \in {x \in DOMAIN tasks : x.live /\ x.kind \in StepWrites} :
        tasks[t] = 1 /\ (t.kind = u.kind => t = u)

TaskOf(f) ==
    CASE f = "list" -> {"list-user-domains"}
      [] f = "install" -> {"add-internal-provider", "add-proxy"}
      [] f = "configure" -> {"configure-openldap", "configure-proxy", "configure-module"}

(***************************************************************************)
(* Whatever disables the Next button is a task that has still to answer.   *)
(* The exceptions are the answers a step does not listen to (an aborted    *)
(* configure-module of OpenLDAP, a refused add-internal-provider or        *)
(* add-module) and the proxy whose installation began without the status   *)
(* of this instance.                                                       *)
(***************************************************************************)
NobodyWaitsInVain ==
    /\ \A k \in loading : \E t \in DOMAIN tasks : t.kind = k
    /\ ~deaf => \A f \in ui.busy : \E t \in DOMAIN tasks : t.live /\ t.kind \in TaskOf(f)

(***************************************************************************)
(* The interface takes the module for configured, where it knew it was     *)
(* not, only when it is: a reload apart, which starts from the default.    *)
(***************************************************************************)
ConfiguredIsTrue == [][~appConfigured /\ appConfigured' => module \/ step' = ""]_vars
=============================================================================
