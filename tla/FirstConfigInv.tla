--------------------------- MODULE FirstConfigInv ---------------------------
(* The inductive invariant behind FirstConfig's safety properties.         *)
EXTENDS FirstConfig

Configured == \E p \in Proxies : proxies[p] = "configured"

\* The step that starts tasks of a kind, and the flag it sets with those that
\* change the cluster.
OfStep(kind, s) ==
    \/ s = "accountProvider" /\ kind = "list-user-domains"
    \/ /\ s = "openldap"
       /\ kind \in {"add-internal-provider", "get-openldap-defaults", "configure-openldap"}
    \/ s = "proxy" /\ kind \in {"get-step-proxy", "get-interfaces", "add-proxy", "configure-proxy"}
    \/ s = "nethvoice" /\ kind = "configure-module"
Flagged(kind, busy) ==
    /\ kind = "add-proxy" => "install" \in busy
    /\ kind \in {"configure-openldap", "configure-proxy", "configure-module"} => "configure" \in busy

\* What an answer on its way, or a task, says of a proxy or of the cluster is so.
Told(t) ==
    /\ t.kind \in {"get-proxy", "get-step-proxy", "configure-proxy"} => t.id \in Proxies
    /\ t.done /\ t.kind = "get-defaults" => t.seen \in Proxies \cup {0}
    /\ t.done /\ t.kind = "add-proxy" => t.seen \in Proxies
    /\ t.done /\ t.kind = "list-user-domains" /\ t.seen = 1 => domains
    /\ t.done /\ t.kind = "configure-openldap" => domains
    /\ t.done /\ t.kind \in {"get-proxy", "get-step-proxy"} /\ t.seen = 1 => Configured
    /\ t.done /\ t.kind = "configure-proxy" => Configured
    /\ t.done /\ t.kind = "get-configuration" /\ t.seen = 1 => module
    /\ t.done /\ t.kind = "configure-module" => module

\* A task heard is the modal's or the present step's; one nobody hears has still to run.
Heard(t, s, busy) ==
    /\ t.live /\ t.kind \in StepKinds => OfStep(t.kind, s) /\ Flagged(t.kind, busy)
    /\ ~t.live => t.kind \in StepWrites /\ ~t.done
TasksInv == \A t \in DOMAIN tasks : Told(t) /\ Heard(t, step, ui.busy)

\* What the modal and its step have learnt is so.
ProxyInv ==
    /\ proxyId \in Proxies \cup {0} /\ (installed => proxyId # 0)
    /\ skip => Configured
KnowInv ==
    /\ "domains" \in ui.know => domains
    /\ "fqdn" \in ui.know => Configured
    /\ provider => domains

\* How far the modal may be.
StepInv ==
    /\ shown => step # ""
    /\ step \in {"proxy", "nethvoice"} => provider
    /\ step = "nethvoice" => Configured
    /\ step # "" => "get-defaults" \in loading \/ defaults \/ failed
    /\ step \in {"openldap", "proxy", "nethvoice"} => defaults \/ failed

\* All of it together: every handler and every task keeps it.
IInv ==
    /\ TypeOK
    /\ TasksInv
    /\ ProxyInv
    /\ KnowInv
    /\ StepInv
    /\ TimezonesAreThere
    /\ OneSubmission
    /\ NobodyWaitsInVain
=============================================================================
