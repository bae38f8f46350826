---------------------------- MODULE AdminPagesInv ----------------------------
(* The inductive invariant behind AdminPages' safety properties.           *)
EXTENDS AdminPages

Brand == FieldsOf["rebranding"]
WrittenBy(t) == IF t.kind \in Brand THEN Brand ELSE {t.kind}
Writes(T) == {t \in DOMAIN T : t.kind \in Fields}
LiveOf(T) == {t \in DOMAIN T : t.live}

\* Answers come to the page shown; of a page left only what is still to be saved runs on.
OwnTask(t, p) ==
    /\ t.live => t.page = p
    /\ ~t.live => t.kind \in Fields /\ ~t.done
    /\ t.kind \in Fields => t.kind \in FieldsOf[t.page]
    /\ t.kind \in {"domains", "defaults"} => t.page = "settings"
TasksInv(T, p) == \A t \in DOMAIN T : OwnTask(t, p)

\* A form of the page is being saved once at a time, and its flag says so.
WritesInv(T, busy) ==
    \A t \in Writes(T) : t.live =>
        /\ T[t] = 1 /\ t.kind \in busy
        /\ \A u \in Writes(T) : u.live /\ u.kind = t.kind => u = t

\* Nothing empty is sent, but for the two pages that may.
Full(data) == \A f \in Brand : data[f] # 0
FullTask(t) ==
    /\ t.kind \in {"config", "alerts", "password"} => t.data[t.kind] # 0
    /\ t.kind \in Brand => Full(t.data)
    /\ t.kind = "get" /\ t.page = "rebranding" /\ t.done => Full(t.data)
    /\ t.kind = "get" /\ t.page = "settings" /\ t.done => t.data["alerts"] # 0
FullInv(T) == \A t \in DOMAIN T : FullTask(t)
ActiveInv == active => page = "rebranding" /\ Full(form) /\ Full(saved)
\* Until the settings are read either a reading is under way or an error says it failed,
\* and nothing is being saved.
SettingsInv ==
    page = "settings" =>
        IF loaded THEN form["alerts"] # 0 /\ saved["alerts"] # 0
                  ELSE /\ (error \cup loading) \cap {"get", "domains"} # {}
                       /\ loading \subseteq Reads

\* What is read is shown over what was typed: until the wizard asks for another, there is
\* one such reading under way at most, and nothing is typed before it is answered.
Chain == {"get", "domains", "hotel", "integrations", "config"}
ChainInv(T, busy, typed) ==
    \A t \in LiveOf(T) :
        /\ T[t] = 1 /\ t.kind \in busy
        /\ \A u \in LiveOf(T) : u.kind = t.kind \/ {t.kind, u.kind} \subseteq Chain => u = t
        /\ t.kind \in {"get", "domains"} => typed \subseteq {"password", "alerts"}
\* Only the reading that follows a saving finds fields typed in.
RereadInv == ~reloaded /\ dirty # {} /\ ~loaded => loading \cap {"get", "domains"} = {}
DirtyInv == dirty # {} => page \in Pages /\ dirty \subseteq FieldsOf[page]

\* A task that saves the rebranding and met no other sends the rest as it is saved.
AloneInv(T, c) ==
    \A t \in DOMAIN T : t.kind \in Brand /\ t.alone =>
        /\ T[t] = 1
        /\ \A u \in DOMAIN T : u.kind \in Brand => u = t
        /\ ~t.done => \A f \in Brand \ {t.kind} : t.data[f] = c[f]

\* While nothing overlaps: the tasks of the page,
CleanTasks(T, p) ==
    \A t \in OfForm(T, p) :
        /\ t.live
        /\ t.kind # "get" => T[t] = 1 /\ OfForm(T, p) = {t}
\* what they read or save,
CleanTask(t, p, c, shown, last) ==
    /\ t.kind = "get" /\ t.done => \A f \in FieldsOf[p] : t.data[f] = c[f]
    /\ t.kind \in Fields => t.data[t.kind] = shown[t.kind]
    /\ t.kind \in Fields /\ t.done => \A f \in WrittenBy(t) : c[f] = t.data[f]
    /\ t.kind \in Brand => \A f \in Brand \ {t.kind} : t.data[f] = last[f]
CleanData(T, p, c, shown, last) == \A t \in OfForm(T, p) : CleanTask(t, p, c, shown, last)
\* what the page shows,
CleanForm(p, c, shown, typed) ==
    \A f \in FieldsOf[p] \ (typed \cup {"password"}) : shown[f] = c[f]
\* and what it takes for saved.
Recalled == {"alerts", "name", "look"}
Told(T, p) == \E t \in OfForm(T, p) : t.kind \in Recalled /\ t.done
CleanSaved(T, p, c, last) ==
    \/ \A f \in FieldsOf[p] \cap Recalled : last[f] = c[f]
    \/ Told(T, p)

CleanInv ==
    clean /\ page \in Pages =>
        /\ CleanTasks(tasks, page)
        /\ CleanData(tasks, page, conf, form, saved)
        /\ loaded => CleanForm(page, conf, form, dirty)
        /\ loaded => CleanSaved(tasks, page, conf, saved)

ReadInv == active => loaded

\* All of it together: every handler and every task keeps it.
IInv ==
    /\ TypeOK
    /\ TasksInv(tasks, page)
    /\ WritesInv(tasks, loading)
    /\ FullInv(tasks) /\ ActiveInv /\ SettingsInv /\ NeverBlanked
    /\ DirtyInv /\ (~reloaded => ChainInv(tasks, loading, dirty))
    /\ AloneInv(tasks, conf)
    /\ ReadInv /\ RereadInv /\ CleanInv
=============================================================================
