----------------------------- MODULE FiasOrder -----------------------------
(***************************************************************************)
(* What one direction of the FIAS queue promises: messages are handed over *)
(* in the order they were queued and at least once.  Only the message      *)
(* handed over last may be handed over again, and none after it was        *)
(* acknowledged.  A message that cannot be handed over when its turn comes *)
(* is given up.  It says nothing of how much of a message is handed over.  *)
(***************************************************************************)
EXTENDS Naturals, Sequences

VARIABLES
    put,    \* the ids queued so far
    quiet,  \* those of them that need no hand-over, or were given up
    out,    \* the hand-overs, in order
    acked   \* the ids acknowledged

vars == <<put, quiet, out, acked>>

Init == put = {} /\ quiet = {} /\ out = <<>> /\ acked = {}

HandedOver == {out[k] : k \in DOMAIN out}

\* One more message; its id is larger than every id before.
Accept ==
    /\ put \subseteq put' /\ quiet \subseteq quiet'
    /\ \A i \in put' \ put, j \in put : i > j
    /\ quiet' \ quiet \subseteq put' \ put
    /\ UNCHANGED <<out, acked>>

Deliver ==
    /\ \E i \in put \ acked :
          /\ \A j \in HandedOver : j <= i
          /\ out' = Append(out, i)
    /\ UNCHANGED <<put, quiet, acked>>

\* The same message could as well have been handed over: none is given up out of turn.
GiveUp ==
    /\ \E i \in put \ acked :
          /\ \A j \in HandedOver : j <= i
          /\ quiet' = quiet \cup {i}
    /\ UNCHANGED <<put, out, acked>>

\* Of the messages handed over, given up, or in need of neither.
Acknowledge ==
    /\ acked \subseteq acked'
    /\ acked' \subseteq acked \cup HandedOver \cup quiet
    /\ UNCHANGED <<put, quiet, out>>

Next == Accept \/ Deliver \/ GiveUp \/ Acknowledge

Spec == Init /\ [][Next]_vars
=============================================================================
