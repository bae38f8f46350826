---------------------------- MODULE MCGuestRooms ----------------------------
(* GuestRooms for TLC. *)
EXTENDS GuestRoomsInv, TLC

CONSTANTS w, op

\* "mario", the same with the mark guestNick adds, and an operator's name.
Plain == [word |-> w, upper |-> FALSE, tail |-> 0]
Marked == [word |-> w, upper |-> FALSE, tail |-> 1]

PlainOnly == {Plain}
PlainAndMarked == {Plain, Marked}
PlainAndOperator == {Plain, [Plain EXCEPT !.word = op]}
OneWord == {w}
TwoWords == {w, op}

Symmetry == Permutations(GuestIds) \cup Permutations(Joins)
=============================================================================
