---------------------------- MODULE MCGuestPoll -----------------------------
(* GuestPoll for TLC. *)
EXTENDS GuestPoll, TLC

Symmetry == Permutations(Reqs)
=============================================================================
