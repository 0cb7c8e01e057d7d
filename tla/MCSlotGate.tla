----------------------------- MODULE MCSlotGate -----------------------------
(***************************************************************************)
(* SlotGate for TLC: four workers, two setters that go from the default   *)
(* cap (2) to 1, 3 and, with a non-positive request, back.  No symmetry:   *)
(* the run checks liveness.                                                *)
(***************************************************************************)
EXTENDS SlotGate

CONSTANTS w1, w2, w3, w4, s1, s2

MCRequests == {0, 1, 3}
=============================================================================
