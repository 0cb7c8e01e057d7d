--------------------------- MODULE MCBackoffGate ---------------------------
(* Model values of BackoffGate for TLC.                                      *)
EXTENDS BackoffGate

CONSTANTS a, b
=============================================================================
