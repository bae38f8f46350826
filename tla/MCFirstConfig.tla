--------------------------- MODULE MCFirstConfig ---------------------------
(* The instance of FirstConfig that TLC checks.                            *)
EXTENDS FirstConfigInv
=============================================================================
