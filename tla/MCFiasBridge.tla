---------------------------- MODULE MCFiasBridge ----------------------------
(* The instance of FiasBridge that TLC checks.                             *)
EXTENDS FiasBridgeInv
CONSTANTS s1
=============================================================================
