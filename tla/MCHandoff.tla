----------------------------- MODULE MCHandoff -----------------------------
(* Model values of Handoff for TLC.                                          *)
EXTENDS Handoff

CONSTANTS w1, m1, c1, c2

=============================================================================
