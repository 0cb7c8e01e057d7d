--------------------------- MODULE MCEngineLease ---------------------------
(* Model values of EngineLease for TLC.                                      *)
EXTENDS EngineLease, TLC

CONSTANTS s1, s2, old, new

\* The second shell was started from a newer build.
TwoBuilds == (s1 :> old) @@ (s2 :> new)
=============================================================================
