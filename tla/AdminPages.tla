----------------------------- MODULE AdminPages -----------------------------
(***************************************************************************)
(* The pages of the user interface that show a form, read it from the      *)
(* module and save it: Hotel.vue, Integrations.vue, Settings.vue and       *)
(* Rebranding.vue.  The router shows one at a time; a page left is         *)
(* destroyed and its tasks run on unheard.  The module runs the tasks when *)
(* and in the order it likes, and each answer arrives later.               *)
(*                                                                         *)
(* A field stands for all the inputs that are read and saved together.     *)
(* Every value typed is a new number; 1 is what the module was configured  *)
(* with, 0 what a form holds before anything was read.                     *)
(***************************************************************************)
EXTENDS Naturals, FiniteSets, Bags

CONSTANTS
    MaxEdits,    \* bound: values typed
    MaxTasks,    \* bound: tasks at a time
    MaxOrphans,  \* bound: those of them whose page was left
    MaxChanged   \* bound: pages whose configuration is not the first one

ASSUME PagesAssumption ==
    /\ MaxEdits \in Nat /\ MaxTasks \in Nat /\ MaxOrphans \in Nat
    /\ MaxChanged \in Nat

FieldsOf == [hotel |-> {"hotel"}, integrations |-> {"integrations"},
             settings |-> {"config", "alerts", "password"},
             rebranding |-> {"name", "look"}]
Pages == DOMAIN FieldsOf
Fields == UNION {FieldsOf[p] : p \in Pages}
Reads == {"get", "domains", "defaults"}
Nothing == [f \in Fields |-> 0]
Part(c, S) == [f \in Fields |-> IF f \in S THEN c[f] ELSE 0]

VARIABLES
    conf,     \* what the module has saved
    page,     \* the page shown
    form,     \* its fields
    saved,    \* alerts_enabled_saved, savedRebrandingConfig
    active,   \* rebranding_active
    loading,  \* its loading flags, named for what is read or saved
    error,    \* the errors of Settings.vue that isErrorState looks at; "save" is
              \* configureModule and setAdminPassword, which stay until it is left
    tasks,    \* the tasks not answered yet
    edits,    \* values typed so far
    dirty,    \* history: fields typed in and not saved
    loaded,   \* history: the page has been read
    clean,    \* history: no task that saves this page overlapped another of the page,
              \* or did something else than the page was told
    reloaded  \* history: the wizard has had this page read again

vars == <<conf, page, form, saved, active, loading, error, tasks, edits,
          dirty, loaded, clean, reloaded>>

-----------------------------------------------------------------------------
(* Tasks.                                                                  *)

One(t) == SetToBag({t})
Only(T, S) == [t \in DOMAIN T \cap S |-> T[t]]

Copies(t, T) == IF t \in DOMAIN T THEN T[t] ELSE 0

\* The tasks among T that read or save the form of page p.
OfForm(T, p) == {t \in DOMAIN T : t.page = p /\ t.kind \notin {"domains", "defaults"}}
Overlaps(T, p, kind) ==
    \E t \in OfForm(T, p) : kind # "get" \/ t.kind # "get"

\* Two that overlap know nothing of each other.
Parted(t) == [t EXCEPT !.alone = FALSE]
Meet(T, p) ==
    LET met == {t \in OfForm(T, p) : t.kind # "get" /\ t.alone}
    IN  Only(T, DOMAIN T \ met) (+)
        [u \in {Parted(t) : t \in met} |-> T[[u EXCEPT !.alone = TRUE]]]

Create(T, p, kind, data) ==
    (IF kind \in Fields THEN Meet(T, p) ELSE T) (+)
    One([page |-> p, kind |-> kind, data |-> data, live |-> TRUE, done |-> FALSE,
         alone |-> kind \in Reads \/ (clean /\ ~Overlaps(T, p, kind))])

GetHotel(T) == Create(T, "hotel", "get", Nothing)
GetIntegrations(T) == Create(T, "integrations", "get", Nothing)
GetUserDomains(T) == Create(T, "settings", "domains", Nothing)
GetDefaults(T) == Create(T, "settings", "defaults", Nothing)
GetConfiguration(T) == Create(T, "settings", "get", Nothing)
GetRebranding(T) == Create(T, "rebranding", "get", Nothing)
LoadConfig(T) == GetDefaults(GetUserDomains(T))

\* The tasks of a page that is destroyed.
Orphan(t) == [t EXCEPT !.live = FALSE]
Left(T) ==
    LET kept == {t \in DOMAIN T : t.kind \in Fields /\ ~t.done}
    IN  Only(T, {t \in kept : ~t.live}) (+)
        [u \in {Orphan(t) : t \in {k \in kept : k.live}} |-> T[[u EXCEPT !.live = TRUE]]]

-----------------------------------------------------------------------------
Init ==
    /\ conf = [f \in Fields |-> 1]
    /\ page = "none" /\ form = Nothing /\ saved = Nothing /\ active = FALSE
    /\ loading = {} /\ error = {} /\ tasks = EmptyBag
    /\ edits = 0
    /\ dirty = {} /\ loaded = FALSE /\ clean = TRUE /\ reloaded = FALSE

\* Mutant: the page waits for a reading no task stands for.
MutCreatedLoading(p) == IF p = "settings" THEN {"domains", "defaults", "features"} ELSE {"get"}

\* created() of each page.
CreatedLoading(p) == IF p = "settings" THEN {"domains", "defaults"} ELSE {"get"}
CreatedTasks(p, T) ==
    CASE p = "hotel" -> GetHotel(T)
      [] p = "integrations" -> GetIntegrations(T)
      [] p = "settings" -> LoadConfig(T)
      [] p = "rebranding" -> GetRebranding(T)

OpenPage(p) ==
    /\ page # p
    /\ page' = p /\ form' = Nothing /\ saved' = Nothing /\ active' = FALSE
    /\ loading' = CreatedLoading(p) /\ error' = {}
    /\ tasks' = CreatedTasks(p, Left(tasks))
    /\ dirty' = {} /\ loaded' = FALSE /\ reloaded' = FALSE
    /\ clean' = (OfForm(Left(tasks), p) = {})
    /\ UNCHANGED <<conf, edits>>

\* The event reloadConfig of the first configuration.
ReloadConfig ==
    /\ page = "settings" /\ ~reloaded
    /\ reloaded' = TRUE
    /\ loading' = loading \cup {"domains", "defaults"}
    /\ error' = error \ {"domains", "defaults"}
    /\ tasks' = LoadConfig(tasks)
    /\ UNCHANGED <<conf, page, form, saved, active, edits, dirty, loaded, clean>>

\* A field can be typed in.  The two forms of Rebranding.vue look at their own flag; the
\* other pages have one form or disable all of them together.
FormOpen(f) ==
    /\ page \in Pages /\ f \in FieldsOf[page]
    /\ IF page = "rebranding" THEN active /\ loading \cap {"get", f} = {} ELSE loading = {}

\* Mutant: Save looks at isFormDisabled alone.
MutSaveOpen(f) == FormOpen(f)

\* Its form can be saved: the buttons of Settings.vue look at isErrorState too.
SaveOpen(f) == FormOpen(f) /\ (page = "settings" => error = {})

Type(f) ==
    /\ FormOpen(f) /\ edits < MaxEdits
    /\ edits' = edits + 1
    /\ form' = [form EXCEPT ![f] = edits + 2]
    /\ dirty' = dirty \cup {f}
    /\ UNCHANGED <<conf, page, saved, active, loading, error, tasks, loaded, clean,
                   reloaded>>

-----------------------------------------------------------------------------
(* Saving.  clearErrors finds nothing that isErrorState looks at.          *)

Submit(f, data) ==
    /\ loading' = loading \cup {f}
    /\ tasks' = Create(tasks, page, f, data)
    /\ clean' = (clean /\ ~Overlaps(tasks, page, f))
    /\ UNCHANGED <<conf, page, form, saved, active, error, edits, dirty, loaded, reloaded>>

SetHotel ==
    /\ SaveOpen("hotel")
    /\ Submit("hotel", Part(form, {"hotel"}))

SetIntegrations ==
    /\ SaveOpen("integrations")
    /\ Submit("integrations", Part(form, {"integrations"}))

\* The host names, the domain and the time zone are required.
StartConfiguration ==
    /\ SaveOpen("config") /\ form["config"] # 0
    /\ Submit("config", Part(form, {"config"}))

ChangeAdminPassword ==
    /\ SaveOpen("password") /\ form["password"] # 0
    /\ Submit("password", Part(form, {"password"}))

\* Whatever the switch shows is sent, turned or not.
SetAlerts ==
    /\ SaveOpen("alerts")
    /\ Submit("alerts", Part(form, {"alerts"}))

\* Each form of Rebranding.vue sends everything: its own field, the rest as last saved.
SetBrandName ==
    /\ SaveOpen("name")
    /\ Submit("name", [saved EXCEPT !["name"] = form["name"]])

\* Mutant: what the other form holds is sent with it, saved or not.
MutSetRebranding ==
    /\ SaveOpen("look")
    /\ Submit("look", form)

SetRebranding ==
    /\ SaveOpen("look")
    /\ Submit("look", [saved EXCEPT !["look"] = form["look"]])

Save ==
    \/ SetHotel \/ SetIntegrations \/ StartConfiguration \/ ChangeAdminPassword \/ SetAlerts
    \/ SetBrandName \/ SetRebranding

-----------------------------------------------------------------------------
(* The module runs the tasks: what each action leaves in the environment.  *)

SetHotelEnv(data) == [conf EXCEPT !["hotel"] = data["hotel"]]
SetIntegrationsEnv(data) == [conf EXCEPT !["integrations"] = data["integrations"]]
ConfigureEnv(data) == [conf EXCEPT !["config"] = data["config"]]
SetAlertsEnv(data) == [conf EXCEPT !["alerts"] = data["alerts"]]
SetPassword(data) == [conf EXCEPT !["password"] = data["password"]]
SetRebrandingEnv(data) == [conf EXCEPT !["name"] = data["name"], !["look"] = data["look"]]

Written(kind, data) ==
    CASE kind = "hotel" -> SetHotelEnv(data)
      [] kind = "integrations" -> SetIntegrationsEnv(data)
      [] kind = "config" -> ConfigureEnv(data)
      [] kind = "alerts" -> SetAlertsEnv(data)
      [] kind = "password" -> SetPassword(data)
      [] kind \in {"name", "look"} -> SetRebrandingEnv(data)
      [] OTHER -> conf

\* Of the answer to a reading the page is told, to a saving only how it ended.
Read(t) == IF t.kind = "get" THEN Part(conf, FieldsOf[t.page]) ELSE t.data
Ran(t) == [t EXCEPT !.data = Read(t), !.done = TRUE]

\* A task of a page left is forgotten once it has run.
Finish(t) ==
    tasks' = IF t.live THEN (tasks (-) One(t)) (+) One(Ran(t)) ELSE tasks (-) One(t)

\* The task gets as far as what it reads or writes; it may yet fail.  What
\* list-user-domains and get-defaults read is not in the model.
Runs(t) ==
    /\ ~t.done /\ t.kind \notin {"domains", "defaults"}
    /\ conf' = Written(t.kind, t.data)
    /\ Finish(t)
    /\ UNCHANGED <<page, form, saved, active, loading, error, edits, dirty, loaded, clean,
                   reloaded>>

\* set-rebranding writes nothing once rebranding is no longer active, and completes.
RebrandingInactive(t) ==
    /\ ~t.done /\ t.live /\ t.kind \in FieldsOf["rebranding"]
    /\ Finish(t)
    /\ clean' = FALSE
    /\ UNCHANGED <<conf, page, form, saved, active, loading, error, edits, dirty, loaded,
                   reloaded>>

OrphanFails(t) ==
    /\ ~t.live
    /\ tasks' = tasks (-) One(t)
    /\ UNCHANGED <<conf, page, form, saved, active, loading, error, edits, dirty, loaded, clean,
                   reloaded>>

-----------------------------------------------------------------------------
(* The answers.  ok is completion; the other is a task aborted, refused or *)
(* not created, which are treated alike but for the errors they set.       *)

\* An action that saves has steps after the one that writes: it may fail there.
Outcomes(t) ==
    CASE t.kind \in Fields -> {FALSE, t.done}
      [] t.kind = "get" -> {t.done}
      [] t.kind \in {"domains", "defaults"} -> BOOLEAN

AnswersTo(kind) ==
    {a \in [task: {t \in DOMAIN tasks : t.kind = kind /\ t.live}, ok: BOOLEAN] :
        a.ok \in Outcomes(a.task)}
\* What the page is told is what happened.
Faithful(a) == a.ok \/ ~a.task.done
Rest(a) == tasks (-) One(a.task)

\* The page's answers leave these alone.
Kept == <<conf, page, edits, reloaded>>

GetHotelAnswered ==
    \E a \in AnswersTo("get") :
        /\ page = "hotel"
        /\ form' = IF a.ok THEN [form EXCEPT !["hotel"] = a.task.data["hotel"]] ELSE form
        /\ dirty' = IF a.ok THEN {} ELSE dirty
        /\ loading' = loading \ {"get"} /\ tasks' = Rest(a)
        /\ loaded' = (loaded \/ a.ok)
        /\ UNCHANGED <<Kept, error, saved, active, clean>>

GetIntegrationsAnswered ==
    \E a \in AnswersTo("get") :
        /\ page = "integrations"
        /\ form' = IF a.ok THEN [form EXCEPT !["integrations"] = a.task.data["integrations"]] ELSE form
        /\ dirty' = IF a.ok THEN {} ELSE dirty
        /\ loading' = loading \ {"get"} /\ tasks' = Rest(a)
        /\ loaded' = (loaded \/ a.ok)
        /\ UNCHANGED <<Kept, error, saved, active, clean>>

\* A page that was saved is read again.
SavedThenRead(a, T) ==
    /\ IF a.ok
       THEN /\ loading' = (loading \ {a.task.kind}) \cup {"get"}
            /\ tasks' = T
            /\ dirty' = dirty \ {a.task.kind}
            /\ clean' = (clean /\ ~Overlaps(Rest(a), page, "get"))
       ELSE /\ loading' = loading \ {a.task.kind}
            /\ tasks' = Rest(a)
            /\ UNCHANGED <<dirty, clean>>
    /\ UNCHANGED <<Kept, form, saved, active, loaded>>

SetHotelAnswered ==
    \E a \in AnswersTo("hotel") : SavedThenRead(a, GetHotel(Rest(a))) /\ UNCHANGED error

SetIntegrationsAnswered ==
    \E a \in AnswersTo("integrations") :
        SavedThenRead(a, GetIntegrations(Rest(a))) /\ UNCHANGED error

\* A refusal marks the fields it is about, and no error of the form.
ConfigureModuleAnswered ==
    \E a \in AnswersTo("config") :
        /\ SavedThenRead(a, GetConfiguration(Rest(a)))
        /\ error' \in IF a.ok THEN {error \ {"get"}} ELSE {error, error \cup {"save"}}

\* Mutant: the flag of a reading that failed stays.
MutGetUserDomainsAnswered ==
    \E a \in AnswersTo("domains") :
        /\ IF a.ok
           THEN /\ loading' = (loading \ {"domains"}) \cup {"get"}
                /\ error' = error \ {"get"}
                /\ tasks' = GetConfiguration(Rest(a))
                /\ clean' = (clean /\ ~Overlaps(Rest(a), page, "get"))
           ELSE /\ error' = error \cup {"domains"}
                /\ tasks' = Rest(a) /\ UNCHANGED <<loading, clean>>
        /\ UNCHANGED <<Kept, form, saved, active, dirty, loaded>>

\* Settings.vue reads the configuration once the domains are there.
GetUserDomainsAnswered ==
    \E a \in AnswersTo("domains") :
        /\ IF a.ok
           THEN /\ loading' = (loading \ {"domains"}) \cup {"get"}
                /\ error' = error \ {"get"}
                /\ tasks' = GetConfiguration(Rest(a))
                /\ clean' = (clean /\ ~Overlaps(Rest(a), page, "get"))
           ELSE /\ loading' = loading \ {"domains"}
                /\ error' = error \cup {"domains"}
                /\ tasks' = Rest(a) /\ UNCHANGED clean
        /\ UNCHANGED <<Kept, form, saved, active, dirty, loaded>>

GetDefaultsAnswered ==
    \E a \in AnswersTo("defaults") :
        /\ loading' = loading \ {"defaults"} /\ tasks' = Rest(a)
        /\ error' = IF a.ok THEN error ELSE error \cup {"defaults"}
        /\ UNCHANGED <<Kept, form, saved, active, dirty, loaded, clean>>

\* The password typed is cleared with the rest, and the switch of the alerts set again.
GetConfigurationAnswered ==
    \E a \in AnswersTo("get") :
        /\ page = "settings"
        /\ IF a.ok
           THEN /\ form' = [a.task.data EXCEPT !["password"] = 0]
                /\ saved' = [saved EXCEPT !["alerts"] = a.task.data["alerts"]]
                /\ dirty' = {} /\ UNCHANGED error
           ELSE error' = error \cup {"get"} /\ UNCHANGED <<form, saved, dirty>>
        /\ loading' = loading \ {"get"} /\ tasks' = Rest(a)
        /\ loaded' = (loaded \/ a.ok)
        /\ UNCHANGED <<Kept, active, clean>>

\* Mutant: the switch stays as it was turned.
MutSetAlertsAnswered ==
    \E a \in AnswersTo("alerts") :
        /\ saved' = IF a.ok THEN [saved EXCEPT !["alerts"] = form["alerts"]] ELSE saved
        /\ dirty' = dirty \ {"alerts"}
        /\ loading' = loading \ {"alerts"} /\ tasks' = Rest(a)
        /\ clean' = (clean /\ Faithful(a))
        /\ UNCHANGED <<Kept, error, form, active, loaded>>

\* The switch goes back to the value saved when it could not be saved.
SetAlertsAnswered ==
    \E a \in AnswersTo("alerts") :
        /\ IF a.ok
           THEN saved' = [saved EXCEPT !["alerts"] = form["alerts"]] /\ UNCHANGED form
           ELSE form' = [form EXCEPT !["alerts"] = saved["alerts"]] /\ UNCHANGED saved
        /\ dirty' = dirty \ {"alerts"}
        /\ loading' = loading \ {"alerts"} /\ tasks' = Rest(a)
        /\ clean' = (clean /\ Faithful(a))
        /\ UNCHANGED <<Kept, error, active, loaded>>

SetAdminPasswordAnswered ==
    \E a \in AnswersTo("password") :
        /\ IF a.ok
           THEN /\ form' = [form EXCEPT !["password"] = 0] /\ dirty' = dirty \ {"password"}
                /\ UNCHANGED error
           ELSE error' \in {error, error \cup {"save"}} /\ UNCHANGED <<form, dirty>>
        /\ loading' = loading \ {"password"} /\ tasks' = Rest(a)
        /\ UNCHANGED <<Kept, saved, active, loaded, clean>>

\* Without a subscription rebranding is not active, and its forms are not shown.
GetRebrandingAnswered ==
    \E a \in AnswersTo("get") :
        /\ page = "rebranding"
        /\ IF a.ok
           THEN active' \in BOOLEAN /\ form' = a.task.data /\ saved' = a.task.data
           ELSE UNCHANGED <<active, form, saved>>
        /\ loading' = loading \ {"get"} /\ tasks' = Rest(a)
        /\ loaded' = (loaded \/ a.ok)
        /\ UNCHANGED <<Kept, error, dirty, clean>>

\* Mutant: the page takes over what was submitted.
MutSetRebrandingAnswered ==
    \E a \in AnswersTo("name") \cup AnswersTo("look") :
        /\ saved' = IF a.ok THEN a.task.data ELSE saved
        /\ form' = IF a.ok THEN a.task.data ELSE form
        /\ dirty' = IF a.ok THEN dirty \ {a.task.kind} ELSE dirty
        /\ loading' = loading \ {a.task.kind} /\ tasks' = Rest(a)
        /\ clean' = (clean /\ Faithful(a))
        /\ UNCHANGED <<Kept, error, active, loaded>>

\* What was submitted becomes what is saved; nothing is read again.
SetRebrandingAnswered ==
    \E a \in AnswersTo("name") \cup AnswersTo("look") :
        /\ saved' = IF a.ok THEN a.task.data ELSE saved
        /\ dirty' = IF a.ok THEN dirty \ {a.task.kind} ELSE dirty
        /\ loading' = loading \ {a.task.kind} /\ tasks' = Rest(a)
        /\ clean' = (clean /\ Faithful(a))
        /\ UNCHANGED <<Kept, error, form, active, loaded>>

Answered ==
    \/ GetHotelAnswered \/ GetIntegrationsAnswered
    \/ GetConfigurationAnswered \/ GetRebrandingAnswered
    \/ GetUserDomainsAnswered \/ GetDefaultsAnswered
    \/ SetHotelAnswered \/ SetIntegrationsAnswered
    \/ ConfigureModuleAnswered \/ SetAlertsAnswered \/ SetAdminPasswordAnswered
    \/ SetRebrandingAnswered

Running == \E t \in DOMAIN tasks : Runs(t) \/ RebrandingInactive(t) \/ OrphanFails(t)

InBounds ==
    /\ BagCardinality(tasks) <= MaxTasks
    /\ BagCardinality(Only(tasks, {t \in DOMAIN tasks : ~t.live})) <= MaxOrphans
    /\ Cardinality({p \in Pages : \E f \in FieldsOf[p] : conf[f] # 1}) <= MaxChanged

Next ==
    /\ \/ \E p \in Pages : OpenPage(p)
       \/ \E f \in Fields : Type(f)
       \/ ReloadConfig \/ Save \/ Running \/ Answered
    /\ InBounds'

\* While the page waits for answers one of them is heard, sooner or later: every task of
\* the module ends, and its end is an event.
Fairness == WF_vars(Answered)

Spec == Init /\ [][Next]_vars /\ Fairness

-----------------------------------------------------------------------------
Values == 0..MaxEdits + 1
Task == [page: Pages, kind: Reads \cup Fields, data: [Fields -> Values],
         live: BOOLEAN, done: BOOLEAN, alone: BOOLEAN]

\* The types of the module's configuration, of the page shown and of the tasks.
TypeOK ==
    /\ conf \in [Fields -> Values] /\ page \in Pages \cup {"none"}
    /\ form \in [Fields -> Values] /\ saved \in [Fields -> Values]
    /\ active \in BOOLEAN
    /\ loading \subseteq Reads \cup Fields /\ error \subseteq Reads \cup {"save"}
    /\ IsABag(tasks) /\ DOMAIN tasks \subseteq Task
    /\ edits \in 0..MaxEdits /\ dirty \subseteq Fields
    /\ loaded \in BOOLEAN /\ clean \in BOOLEAN /\ reloaded \in BOOLEAN

(***************************************************************************)
(* What the user has typed and not saved is changed by no answer, however  *)
(* late.  The exceptions: the password and the switch of the alerts, which *)
(* follow the answer to their own saving and are set again by the reading  *)
(* that follows the saving of the other settings; and the reading that the *)
(* wizard asks for when it ends.                                           *)
(***************************************************************************)
TypedIsKept ==
    [][\A f \in dirty :
          page' = page /\ edits' = edits /\ ~reloaded' /\ form'[f] # form[f] =>
              /\ f \in {"alerts", "password"}
              /\ f \in loading \/ (loaded /\ "get" \in loading)]_vars

(***************************************************************************)
(* The settings, the switch of the alerts included, and the rebranding are *)
(* never replaced by the empty form of a page that was not read, or whose  *)
(* reading failed.  In Hotel.vue and Integrations.vue such a form is       *)
(* offered, and what it saves is empty.                                    *)
(***************************************************************************)
NeverBlanked == \A f \in Fields : conf[f] = 0 => f \in {"hotel", "integrations"}

(***************************************************************************)
(* Saving one form does not undo what another saved: the brand name and    *)
(* the rest of the rebranding are always sent together, the one not being  *)
(* saved as it was last known.  The exceptions: two tasks that overlapped, *)
(* and what the page saves after a set-rebranding that failed behind its   *)
(* write, or completed without one (alone is then FALSE).                  *)
(***************************************************************************)
SavedStays ==
    [][\A f \in Fields : conf'[f] # conf[f] =>
          \E t \in DOMAIN tasks :
              /\ Copies(t, tasks') < Copies(t, tasks)
              /\ t.kind = f \/ ~t.alone]_vars

(***************************************************************************)
(* A page at rest shows what the module has saved, but for what was typed  *)
(* since: after every sequence of savings, failures and readings that did  *)
(* not overlap.  The switch of the alerts is part of it: it goes back when *)
(* it could not be saved.  Not so after a set-alerts or set-rebranding     *)
(* that failed behind its write or completed without one, until the page   *)
(* is opened again (clean is then FALSE).                                  *)
(***************************************************************************)
ShownIsSaved ==
    page \in Pages /\ loading = {} /\ loaded /\ clean =>
        \A f \in FieldsOf[page] \ (dirty \cup {"password"}) : form[f] = conf[f]

(***************************************************************************)
(* Settings.vue disables everything while anything is being read or saved, *)
(* and an answer may start the next task.  Whatever the chain, failures    *)
(* and the reading the wizard asks for included, it ends: the page is open *)
(* again, or it was left.                                                  *)
(***************************************************************************)
FormComesBack ==
    (page = "settings" /\ loading # {}) ~> (page # "settings" \/ loading = {})
=============================================================================
