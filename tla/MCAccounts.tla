----------------------------- MODULE MCAccounts -----------------------------
(* The instance of Accounts that TLC checks.  Only for the last of the     *)
(* names is it known when it was added: it comes first.                    *)
EXTENDS Accounts

CONSTANTS u1, u2, u3

MCAdded == [r \in Rooms |-> [u \in Users |-> IF u = u3 THEN 5 ELSE 0]]
MCNameLess(p, q) == <<p, q>> \in {<<u1, u2>>, <<u1, u3>>, <<u2, u3>>}
=============================================================================
