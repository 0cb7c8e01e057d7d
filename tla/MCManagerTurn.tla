--------------------------- MODULE MCManagerTurn ---------------------------
(* Model values of ManagerTurn for TLC.                                      *)
EXTENDS ManagerTurn

CONSTANTS c1, m1
=============================================================================
