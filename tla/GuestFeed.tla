----------------------------- MODULE GuestFeed ------------------------------
(***************************************************************************)
(* What a guest's page is promised: it shows a stretch of the room's       *)
(* archive without gaps, grows at its end only, and stops when the guest   *)
(* is told to go.                                                          *)
(***************************************************************************)
EXTENDS Integers, Sequences

VARIABLES archive,  \* the room's archive
          shown,    \* the archive ids the page has been given, in order
          page      \* "open", or "stopped" for good

feedVars == <<archive, shown, page>>

FeedInit == archive = <<>> /\ shown = <<>> /\ page = "open"

Arrive == \E v \in BOOLEAN : archive' = Append(archive, v) /\ UNCHANGED <<shown, page>>

\* The ids lo..hi in order.
Stretch(lo, hi) == [i \in 1..(hi - lo + 1) |-> lo + i - 1]

\* A stretch of the archive that goes on where the page ends.
Show ==
    /\ page = "open"
    /\ \E lo, hi \in 1..Len(archive) :
          /\ lo <= hi
          /\ shown = <<>> \/ lo = shown[Len(shown)] + 1
          /\ shown' = shown \o Stretch(lo, hi)
    /\ UNCHANGED <<archive, page>>

Stop == page' = "stopped" /\ UNCHANGED <<archive, shown>>

FeedSpec == FeedInit /\ [][Arrive \/ Show \/ Stop]_feedVars
=============================================================================
