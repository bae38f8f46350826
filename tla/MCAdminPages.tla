---------------------------- MODULE MCAdminPages ----------------------------
(* The instance of AdminPages that TLC checks.                             *)
EXTENDS AdminPagesInv
=============================================================================
