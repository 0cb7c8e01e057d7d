--------------------------- MODULE SlotGateProofs ---------------------------
(***************************************************************************)
(* The gate for any number of workers and setters and any requested caps.  *)
(***************************************************************************)
EXTENDS SlotGate, FiniteSetTheorems, TLAPS

\* One worker entering or leaving a place changes the count of that place by one.
LEMMA CountIn ==
    ASSUME NEW S, IsFiniteSet(S), NEW x, x \notin S
    PROVE  Cardinality(S \cup {x}) = Cardinality(S) + 1
BY FS_AddElement

LEMMA CountOut ==
    ASSUME NEW S, IsFiniteSet(S), NEW x \in S
    PROVE  /\ Cardinality(S \ {x}) = Cardinality(S) - 1
           /\ Cardinality(S) \in Nat \ {0}
<1>1. Cardinality(S \ {x}) = Cardinality(S) - 1
  BY FS_RemoveElement
<1>2. Cardinality(S \ {x}) \in Nat /\ Cardinality(S) \in Nat
  BY FS_CardinalityType, FS_RemoveElement
<1> QED
  BY <1>1, <1>2

\* Every place holds finitely many workers.
LEMMA PlacesFinite ==
    ASSUME NEW place
    PROVE  IsFiniteSet(At(place)) /\ Cardinality(At(place)) \in Nat
<1>1. At(place) \subseteq Workers
  BY DEF At
<1>2. IsFiniteSet(At(place))
  BY <1>1, WorkersAssumption, FS_Subset
<1> QED
  BY <1>2, FS_CardinalityType

\* The primed places are finite too: the set is a subset of Workers.
LEMMA PlacesFinitePrime ==
    ASSUME NEW place
    PROVE  IsFiniteSet(At(place)') /\ Cardinality(At(place)') \in Nat
<1>1. At(place)' \subseteq Workers
  BY DEF At
<1>2. IsFiniteSet(At(place)')
  BY <1>1, WorkersAssumption, FS_Subset
<1> QED
  BY <1>2, FS_CardinalityType

LEMMA TypeInit == Init => TypeOK
<1> SUFFICES ASSUME Init PROVE TypeOK
  OBVIOUS
<1>1. maxConcurrent \in Nat /\ created \in BOOLEAN /\ cap \in Nat \ {0} /\ held \in Nat
  BY DefaultAssumption DEF Init
<1>2. pc \in [Workers -> Places]
  BY DEF Init, Places
<1>3. resizing \in [Setters -> (Nat \ {0}) \cup {NoRequest}]
  BY DEF Init
<1> QED
  BY <1>1, <1>2, <1>3 DEF TypeOK

LEMMA TypeStep == TypeOK /\ [Next]_vars => TypeOK'
<1> SUFFICES ASSUME TypeOK, [Next]_vars PROVE TypeOK'
  OBVIOUS
<1> USE DEF TypeOK, Places
<1>0. \A n \in Int : Repair(n) \in Nat \ {0}
  BY DefaultAssumption DEF Repair
<1>1. ASSUME NEW w \in Workers, Enter(w) PROVE TypeOK'
  BY <1>0, <1>1 DEF Enter, AdvertisedCap
<1>2. ASSUME NEW w \in Workers, Take(w) PROVE TypeOK'
  BY <1>2 DEF Take
<1>3. ASSUME NEW w \in Workers, Park(w) PROVE TypeOK'
  BY <1>3 DEF Park
<1>4. ASSUME NEW w \in Workers, Release(w) PROVE TypeOK'
  <2>1. [pc EXCEPT ![w] = "gone"] \in [Workers -> Places]
    OBVIOUS
  <2>2. \A p \in [Workers -> Places] : Signalled(p) \subseteq [Workers -> Places]
    BY DEF Signalled
  <2>3. pc' \in [Workers -> Places]
    BY <1>4, <2>1, <2>2 DEF Release
  <2> QED
    BY <1>4, <2>3 DEF Release
<1>5. ASSUME NEW s \in Setters, Resize(s) PROVE TypeOK'
  <2>1. resizing[s] \in Nat \ {0}
    BY <1>5 DEF Resize
  <2>2. pc' \in [Workers -> Places]
    BY <1>5 DEF Resize
  <2> QED
    BY <1>0, <1>5, <2>1, <2>2 DEF Resize
<1>6. ASSUME NEW s \in Setters, NEW n \in Requests, SetFirst(s, n) PROVE TypeOK'
  BY <1>0, <1>6, RequestsAssumption DEF SetFirst
<1>7. ASSUME NEW s \in Setters, NEW n \in Requests, SetField(s, n) PROVE TypeOK'
  BY <1>0, <1>7, RequestsAssumption DEF SetField
<1>8. CASE UNCHANGED vars
  BY <1>8 DEF vars
<1> QED
  BY <1>1, <1>2, <1>3, <1>4, <1>5, <1>6, <1>7, <1>8 DEF Next

\* SlotGate keeps its types: the cap is never repaired to zero, held never goes
\* below zero, and a setter between its critical sections carries a positive cap.
THEOREM TypeCorrect == Spec => []TypeOK
BY TypeInit, TypeStep, PTL DEF Spec

-----------------------------------------------------------------------------

\* NoLostWakeup needs an exact held (a release that found held already at zero
\* would free nothing) and the fact that nobody is in the gate before it exists.
GateExists == (\E w \in Workers : pc[w] # "new") => created

IInv == TypeOK /\ GateExists /\ HeldIsHolders /\ NoLostWakeup

LEMMA InitIInv == Init => IInv
<1> SUFFICES ASSUME Init PROVE IInv
  OBVIOUS
<1>1. TypeOK
  BY TypeInit
<1>2. At("holding") = {} /\ At("waiting") = {}
  BY DEF Init, At
<1>3. HeldIsHolders
  BY <1>2, FS_EmptySet DEF HeldIsHolders, Init
<1>4. GateExists
  BY DEF Init, GateExists
<1> QED
  BY <1>1, <1>2, <1>3, <1>4 DEF IInv, NoLostWakeup

\* A step that leaves the goroutines and the counter alone, and the cap of an
\* existing gate too, keeps the invariant.
LEMMA EnterIInv == ASSUME IInv, NEW w \in Workers, Enter(w) PROVE IInv'
<1> USE DEF IInv
<1>1. TypeOK'
  BY TypeStep DEF Next
<1>2. /\ At("holding")' = At("holding")
      /\ At("waiting")' = At("waiting")
      /\ At("woken")' = At("woken")
  BY DEF Enter, At, TypeOK
<1>3. At("waiting") # {} => created
  BY DEF At, GateExists, TypeOK
<1>4. HeldIsHolders'
  BY <1>2 DEF HeldIsHolders, Enter
<1>5. NoLostWakeup'
  BY <1>2, <1>3 DEF NoLostWakeup, Enter
<1> QED
  BY <1>1, <1>4, <1>5 DEF GateExists, Enter

\* Taking a slot uses up one free slot and at most one woken goroutine.
LEMMA TakeIInv == ASSUME IInv, NEW w \in Workers, Take(w) PROVE IInv'
<1> USE DEF IInv
<1>1. TypeOK'
  BY TypeStep DEF Next
<1>2. GateExists'
  BY DEF GateExists, Take
<1>3. At("holding")' = At("holding") \cup {w} /\ w \notin At("holding")
  BY DEF Take, At, TypeOK
<1>4. HeldIsHolders'
  BY <1>3, PlacesFinite, CountIn DEF HeldIsHolders, Take
<1>5. At("waiting")' = At("waiting")
  BY DEF Take, At, TypeOK
<1>6. Cardinality(At("woken")') >= Cardinality(At("woken")) - 1
  <2>1. CASE pc[w] = "woken"
    <3>1. At("woken")' = At("woken") \ {w} /\ w \in At("woken")
      BY <2>1 DEF Take, At, TypeOK
    <3> QED
      BY <3>1, PlacesFinite, CountOut
  <2>2. CASE pc[w] = "locking"
    <3>1. At("woken")' = At("woken")
      BY <2>2 DEF Take, At, TypeOK
    <3> QED
      BY <3>1, PlacesFinite
  <2> QED
    BY <2>1, <2>2 DEF Take
<1>7. NoLostWakeup'
  BY <1>5, <1>6, PlacesFinite, PlacesFinitePrime DEF NoLostWakeup, Take, TypeOK
<1> QED
  BY <1>1, <1>2, <1>4, <1>7

\* A goroutine parks only when held has reached the cap by itself.
LEMMA ParkIInv == ASSUME IInv, NEW w \in Workers, Park(w) PROVE IInv'
<1> USE DEF IInv
<1>1. TypeOK'
  BY TypeStep DEF Next
<1>2. GateExists'
  BY DEF GateExists, Park
<1>3. At("holding")' = At("holding")
  BY DEF Park, At, TypeOK
<1>4. HeldIsHolders'
  BY <1>3 DEF HeldIsHolders, Park
<1>5. NoLostWakeup'
  BY PlacesFinitePrime DEF NoLostWakeup, Park, TypeOK
<1> QED
  BY <1>1, <1>2, <1>4, <1>5

\* A release gives up one slot and, when somebody is parked, wakes one goroutine.
LEMMA ReleaseIInv == ASSUME IInv, NEW w \in Workers, Release(w) PROVE IInv'
<1> USE DEF IInv
<1> DEFINE mid == [pc EXCEPT ![w] = "gone"]
<1>1. TypeOK'
  BY TypeStep DEF Next
<1>2. GateExists'
  BY DEF GateExists, Release, TypeOK
<1>3. pc \in [Workers -> Places] /\ pc[w] = "holding" /\ w \in At("holding")
  BY DEF TypeOK, Release, At
<1>4. held \in Nat \ {0} /\ held' = held - 1
  <2>1. held \in Nat \ {0}
    BY <1>3, PlacesFinite, CountOut DEF HeldIsHolders
  <2> QED
    BY <2>1 DEF Release
<1>5. CASE At("waiting") = {}
  <2>1. pc' = mid
    BY <1>3, <1>5 DEF Release, Signalled, At
  <2>2. At("holding")' = At("holding") \ {w} /\ At("waiting")' = {}
    BY <1>3, <1>5, <2>1 DEF At
  <2>3. Cardinality(At("holding")') = Cardinality(At("holding")) - 1
    BY <1>3, <2>2, PlacesFinite, CountOut
  <2> QED
    BY <1>1, <1>2, <1>4, <2>2, <2>3 DEF HeldIsHolders, NoLostWakeup
<1>6. CASE At("waiting") # {}
  <2>1. PICK v \in Workers : pc[v] = "waiting" /\ pc' = [mid EXCEPT ![v] = "woken"]
    BY <1>3, <1>6 DEF Release, Signalled, At
  <2>2. At("holding")' = At("holding") \ {w}
    BY <1>3, <2>1 DEF At
  <2>3. At("woken")' = At("woken") \cup {v} /\ v \notin At("woken")
    BY <1>3, <2>1 DEF At
  <2>4. Cardinality(At("holding")') = Cardinality(At("holding")) - 1
    BY <1>3, <2>2, PlacesFinite, CountOut
  <2>5. Cardinality(At("woken")') = Cardinality(At("woken")) + 1
    BY <2>3, PlacesFinite, CountIn
  <2>6. HeldIsHolders'
    BY <1>4, <2>4 DEF HeldIsHolders
  <2>7. NoLostWakeup'
    BY <1>4, <1>6, <2>5, PlacesFinite DEF NoLostWakeup, Release, TypeOK
  <2> QED
    BY <1>1, <1>2, <2>6, <2>7
<1> QED
  BY <1>5, <1>6

\* resize empties the wait set.
LEMMA ResizeIInv == ASSUME IInv, NEW s \in Setters, Resize(s) PROVE IInv'
<1> USE DEF IInv
<1>1. TypeOK'
  BY TypeStep DEF Next
<1>2. GateExists'
  BY DEF GateExists, Resize, TypeOK
<1>3. At("waiting")' = {} /\ At("holding")' = At("holding")
  BY DEF Resize, At, TypeOK
<1> QED
  BY <1>1, <1>2, <1>3 DEF HeldIsHolders, NoLostWakeup, Resize

LEMMA StepIInv == IInv /\ [Next]_vars => IInv'
<1> SUFFICES ASSUME IInv, [Next]_vars PROVE IInv'
  OBVIOUS
<1>1. ASSUME NEW s \in Setters, NEW n \in Requests, SetFirst(s, n) PROVE IInv'
  <2>1. TypeOK'
    BY <1>1, TypeStep DEF IInv, Next
  <2>2. At("waiting")' = {} /\ At("holding")' = At("holding")
    BY <1>1 DEF SetFirst, At, IInv, GateExists
  <2> QED
    BY <1>1, <2>1, <2>2 DEF IInv, GateExists, HeldIsHolders, NoLostWakeup, SetFirst
<1>2. ASSUME NEW s \in Setters, NEW n \in Requests, SetField(s, n) PROVE IInv'
  <2>1. TypeOK'
    BY <1>2, TypeStep DEF IInv, Next
  <2> QED
    BY <1>2, <2>1 DEF IInv, GateExists, HeldIsHolders, NoLostWakeup, SetField, At
<1>3. CASE UNCHANGED vars
  <2>1. TypeOK'
    BY <1>3, TypeStep DEF IInv
  <2> QED
    BY <1>3, <2>1 DEF vars, IInv, GateExists, HeldIsHolders, NoLostWakeup, At
<1> QED
  BY <1>1, <1>2, <1>3, EnterIInv, TakeIInv, ParkIInv, ReleaseIInv, ResizeIInv DEF Next

\* The counter of the gate is exact for every number of workers and every
\* sequence of caps: no path of acquire, release or resize leaks a slot.
THEOREM HeldExact == Spec => []HeldIsHolders
<1>1. IInv => HeldIsHolders
  BY DEF IInv
<1> QED
  BY <1>1, InitIInv, StepIInv, PTL DEF Spec

\* No wakeup is lost, for every number of workers and every sequence of caps: a
\* slot that is free while workers are parked has a woken goroutine coming for it.
THEOREM WakeupsKept == Spec => []NoLostWakeup
<1>1. IInv => NoLostWakeup
  BY DEF IInv
<1> QED
  BY <1>1, InitIInv, StepIInv, PTL DEF Spec

\* An acquire never pushes held past the cap in force, woken goroutines included.
THEOREM AdmissionBounded == Spec => NoAdmissionAboveCap
<1>1. TypeOK /\ [Next]_vars =>
        [(\E w \in Workers : pc[w] # "holding" /\ pc'[w] = "holding") => held' <= cap]_vars
  <2> SUFFICES ASSUME TypeOK, Next, NEW v \in Workers,
                      pc[v] # "holding", pc'[v] = "holding"
               PROVE  held' <= cap
    OBVIOUS
  <2>1. ASSUME NEW w \in Workers, Take(w) PROVE held' <= cap
    BY <2>1 DEF Take, TypeOK
  <2>2. ASSUME NEW w \in Workers, Enter(w) \/ Park(w) \/ Release(w) PROVE FALSE
    <3>1. CASE Release(w)
      BY <3>1 DEF Release, Signalled, TypeOK
    <3> QED
      BY <2>2, <3>1 DEF Enter, Park, TypeOK
  <2>3. ASSUME NEW s \in Setters, Resize(s) PROVE FALSE
    BY <2>3 DEF Resize, TypeOK
  <2>4. ASSUME NEW s \in Setters, NEW n \in Requests, SetFirst(s, n) \/ SetField(s, n) PROVE FALSE
    BY <2>4 DEF SetFirst, SetField
  <2> QED
    BY <2>1, <2>2, <2>3, <2>4 DEF Next
<1> QED
  BY <1>1, TypeCorrect, PTL DEF Spec, NoAdmissionAboveCap

-----------------------------------------------------------------------------
\* Refinement: wakeups, the wait set and the counter are the gate's own.

Waiters == At("locking") \cup At("waiting") \cup At("woken")

\* One goroutine moves between the classes Semaphore tells apart.
LEMMA Classes ==
    ASSUME TypeOK, NEW w \in Workers
    PROVE  /\ w \in Waiters <=> pc[w] \in {"locking", "waiting", "woken"}
           /\ w \in At("holding") <=> pc[w] = "holding"
BY DEF Waiters, At

\* Every wakeup is invisible: goroutines that wait stay waiters.
LEMMA SignalStutters ==
    ASSUME NEW p \in [Workers -> Places], NEW q \in Signalled(p)
    PROVE  /\ \A w \in Workers : q[w] = "holding" <=> p[w] = "holding"
           /\ \A w \in Workers : q[w] \in {"locking", "waiting", "woken"}
                                    <=> p[w] \in {"locking", "waiting", "woken"}
<1>1. CASE {w \in Workers : p[w] = "waiting"} = {}
  BY <1>1 DEF Signalled
<1>2. CASE {w \in Workers : p[w] = "waiting"} # {}
  <2>1. PICK v \in Workers : p[v] = "waiting" /\ q = [p EXCEPT ![v] = "woken"]
    BY <1>2 DEF Signalled
  <2> QED
    BY <2>1
<1> QED
  BY <1>1, <1>2

LEMMA StepAbstract ==
    ASSUME IInv, TypeOK', [Next]_vars
    PROVE  Abstract!Next \/ UNCHANGED <<cap, Waiters, At("holding")>>
<1> USE DEF IInv
<1>0. pc \in [Workers -> Places] /\ cap' \in Nat \ {0}
  BY DEF TypeOK
<1>1. ASSUME NEW w \in Workers, Enter(w) PROVE Abstract!Next
  <2>1. /\ pc[w] = "new" /\ pc' = [pc EXCEPT ![w] = "locking"]
    BY <1>1 DEF Enter
  <2>2. /\ w \notin Waiters \cup At("holding")
        /\ Waiters' = Waiters \cup {w} /\ At("holding")' = At("holding")
    BY <1>0, <2>1 DEF Waiters, At
  <2>3. Abstract!Queue(w)
    BY <1>0, <2>2 DEF Abstract!Queue, Waiters
  <2> QED
    BY <2>3 DEF Abstract!Next
<1>2. ASSUME NEW w \in Workers, Take(w) PROVE Abstract!Next
  <2>1. pc[w] \in {"locking", "woken"} /\ pc' = [pc EXCEPT ![w] = "holding"] /\ held < cap /\ cap' = cap
    BY <1>2 DEF Take
  <2>2. /\ w \in Waiters
        /\ Waiters' = Waiters \ {w} /\ At("holding")' = At("holding") \cup {w}
    BY <1>0, <2>1 DEF Waiters, At
  <2>3. Cardinality(At("holding")) < cap
    BY <2>1 DEF HeldIsHolders
  <2>c. Abstract!Cardinality(At("holding")) = Cardinality(At("holding"))
    BY DEF Abstract!Cardinality, Cardinality
  <2>4. Abstract!Admit(w)
    BY <2>1, <2>2, <2>3, <2>c DEF Abstract!Admit, Waiters
  <2> QED
    BY <2>4 DEF Abstract!Next
<1>3. ASSUME NEW w \in Workers, Park(w) PROVE UNCHANGED <<cap, Waiters, At("holding")>>
  <2>1. pc[w] \in {"locking", "woken"} /\ pc' = [pc EXCEPT ![w] = "waiting"] /\ cap' = cap
    BY <1>3 DEF Park
  <2> QED
    BY <1>0, <2>1 DEF Waiters, At
<1>4. ASSUME NEW w \in Workers, Release(w) PROVE Abstract!Next
  <2> DEFINE mid == [pc EXCEPT ![w] = "gone"]
  <2>1. pc[w] = "holding" /\ pc' \in Signalled(mid) /\ mid \in [Workers -> Places] /\ cap' = cap
    BY <1>0, <1>4 DEF Release, Places
  <2>2. /\ \A v \in Workers : pc'[v] = "holding" <=> pc[v] = "holding" /\ v # w
        /\ \A v \in Workers : pc'[v] \in {"locking", "waiting", "woken"}
                                 <=> pc[v] \in {"locking", "waiting", "woken"}
    <3>1. /\ \A v \in Workers : pc'[v] = "holding" <=> mid[v] = "holding"
          /\ \A v \in Workers : pc'[v] \in {"locking", "waiting", "woken"}
                                   <=> mid[v] \in {"locking", "waiting", "woken"}
      BY <2>1, SignalStutters
    <3> QED
      BY <1>0, <2>1, <3>1
  <2>3. At("holding")' = At("holding") \ {w} /\ w \in At("holding") /\ Waiters' = Waiters
    BY <2>1, <2>2 DEF Waiters, At
  <2>4. Abstract!Leave(w)
    BY <2>1, <2>3 DEF Abstract!Leave, Waiters
  <2> QED
    BY <2>4 DEF Abstract!Next
<1>5. ASSUME NEW s \in Setters, Resize(s) PROVE Abstract!Next
  <2>1. \A v \in Workers : pc'[v] = IF pc[v] = "waiting" THEN "woken" ELSE pc[v]
    BY <1>5 DEF Resize
  <2>2. At("holding")' = At("holding") /\ Waiters' = Waiters
    BY <2>1 DEF Waiters, At
  <2> QED
    BY <1>0, <2>2 DEF Abstract!Next, Abstract!SetCap, Waiters
<1>6. ASSUME NEW s \in Setters, NEW n \in Requests, SetFirst(s, n) PROVE Abstract!Next
  <2>1. At("holding")' = At("holding") /\ Waiters' = Waiters
    BY <1>6 DEF SetFirst, Waiters, At
  <2> QED
    BY <1>0, <2>1 DEF Abstract!Next, Abstract!SetCap, Waiters
<1>7. ASSUME NEW s \in Setters, NEW n \in Requests, SetField(s, n)
      PROVE  UNCHANGED <<cap, Waiters, At("holding")>>
  BY <1>7 DEF SetField, Waiters, At
<1>8. CASE UNCHANGED vars
  BY <1>8 DEF vars, Waiters, At
<1> QED
  BY <1>1, <1>2, <1>3, <1>4, <1>5, <1>6, <1>7, <1>8 DEF Next

\* The gate is the semaphore of module Semaphore, fairness aside, for any
\* number of workers and setters: acquire, release and resize of gate.go queue,
\* admit and let go as it allows, and no wakeup is an admission of its own.
THEOREM SemaphoreSafety == Spec => Abstract!Spec
<1>1. Init => Abstract!Init
  <2> SUFFICES ASSUME Init PROVE Abstract!Init
    OBVIOUS
  <2>1. Waiters = {} /\ At("holding") = {}
    BY DEF Init, Waiters, At
  <2> QED
    BY <2>1, DefaultAssumption DEF Init, Abstract!Init, Waiters
<1>2. IInv /\ TypeOK' /\ [Next]_vars => [Abstract!Next]_(Abstract!vars)
  BY StepAbstract DEF Abstract!vars, Waiters
<1>3. IInv => TypeOK
  BY DEF IInv
<1> QED
  BY <1>1, <1>2, <1>3, InitIInv, StepIInv, PTL DEF Spec, Abstract!Spec
=============================================================================
