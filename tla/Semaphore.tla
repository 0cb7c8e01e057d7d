----------------------------- MODULE Semaphore ------------------------------
(***************************************************************************)
(* What the concurrency gate promises: a set of queued workers, a set of   *)
(* admitted ones, and a cap that bounds admissions but evicts nobody.      *)
(* Nothing here knows about a mutex, a wait set or a wakeup.               *)
(***************************************************************************)
EXTENDS Integers, FiniteSets

CONSTANT Workers

VARIABLES cap, queued, admitted

vars == <<cap, queued, admitted>>

Init == /\ cap \in Nat \ {0}
        /\ queued = {}
        /\ admitted = {}

Queue(w) == /\ w \notin queued \cup admitted
            /\ queued' = queued \cup {w}
            /\ cap' \in Nat \ {0}   \* the first caller creates the gate
            /\ UNCHANGED admitted

Admit(w) == /\ w \in queued
            /\ Cardinality(admitted) < cap
            /\ queued' = queued \ {w}
            /\ admitted' = admitted \cup {w}
            /\ UNCHANGED cap

Leave(w) == /\ w \in admitted
            /\ admitted' = admitted \ {w}
            /\ UNCHANGED <<cap, queued>>

SetCap == /\ cap' \in Nat \ {0}
          /\ UNCHANGED <<queued, admitted>>

Next == SetCap \/ \E w \in Workers : Queue(w) \/ Admit(w) \/ Leave(w)

Spec == Init /\ [][Next]_vars

FairSpec == Spec /\ \A w \in Workers : WF_vars(Admit(w))
=============================================================================
