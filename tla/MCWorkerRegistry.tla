-------------------------- MODULE MCWorkerRegistry --------------------------
(***************************************************************************)
(* WorkerRegistry for TLC: two roles with ids of their own.                *)
(***************************************************************************)
EXTENDS WorkerRegistry, TLC

CONSTANTS a1, a2, b1, h1, h2, h3, c1, c2, c3, A, B

OneId == [id \in {a1} |-> A]

\* The instance that breaks NoTwins, which no configuration here checks.
OneRole == [id \in {a1, a2} |-> A]

TwoRoles == [id \in {a1, b1} |-> IF id = b1 THEN B ELSE A]

Symmetry == Permutations(Handles) \cup Permutations(Callers)
=============================================================================
