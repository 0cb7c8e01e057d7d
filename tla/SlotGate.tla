------------------------------ MODULE SlotGate ------------------------------
(***************************************************************************)
(* The resizable counting semaphore of gate.go, as the registry uses it:   *)
(* a worker goroutine calls acquireSlot before its first model call and    *)
(* releaseSlot when it ends, while SetMaxConcurrent changes the cap.       *)
(*                                                                         *)
(* One action is one critical section of slotGate.mu (or of Registry.mu).  *)
(* sync.Cond is modelled by its contract: Wait joins the wait set and      *)
(* gives up the mutex in one step, Signal moves at most one goroutine, any *)
(* one, out of the wait set, Broadcast moves all of them.  A goroutine     *)
(* moved out still has to win the mutex again, and a newcomer may beat it. *)
(***************************************************************************)
EXTENDS Integers, FiniteSets

CONSTANTS
    Workers,        \* goroutines that pass the gate
    Setters,        \* goroutines that call SetMaxConcurrent
    Requests,       \* the caps they ask for, non-positive ones included
    Default,        \* defaultMaxConcurrent
    NoRequest       \* a setter that is not between its two critical sections

ASSUME DefaultAssumption == Default \in Nat \ {0}
ASSUME RequestsAssumption == Requests \subseteq Int
ASSUME WorkersAssumption == IsFiniteSet(Workers)
ASSUME NoRequestAssumption == NoRequest \notin Int

VARIABLES
    maxConcurrent,  \* Registry.MaxConcurrent: what the manager is told
    created,        \* Registry.slots # nil
    cap, held,      \* the fields of slotGate
    pc,             \* where each worker goroutine is
    resizing        \* per setter, the cap it still has to hand to resize

vars == <<maxConcurrent, created, cap, held, pc, resizing>>

\* "new": acquireSlot not called yet.  "locking": in acquire, before the loop
\* test.  "waiting": parked in cond.Wait.  "woken": out of the wait set, before
\* it tests the loop condition again.  "holding": between acquire and release.
Places == {"new", "locking", "waiting", "woken", "holding", "gone"}

At(place) == {w \in Workers : pc[w] = place}

\* The repair of a non-positive cap, which newSlotGate, resize, SetMaxConcurrent
\* and advertisedCap all apply.
Repair(n) == IF n <= 0 THEN Default ELSE n

AdvertisedCap == Repair(maxConcurrent)

Init == /\ maxConcurrent = 0
        /\ created = FALSE
        /\ cap = Default
        /\ held = 0
        /\ pc = [w \in Workers |-> "new"]
        /\ resizing = [s \in Setters |-> NoRequest]

-----------------------------------------------------------------------------

\* slotGate() creates the gate from MaxConcurrent on the first acquireSlot.
Enter(w) == /\ pc[w] = "new"
            /\ pc' = [pc EXCEPT ![w] = "locking"]
            /\ created' = TRUE
            /\ cap' = IF created THEN cap ELSE AdvertisedCap
            /\ UNCHANGED <<maxConcurrent, held, resizing>>

\* A wakeup taken for a free slot: "if" where acquire has "for".
TakeUntested(w) == /\ \/ pc[w] = "locking" /\ held < cap
                      \/ pc[w] = "woken"
                   /\ held' = held + 1
                   /\ pc' = [pc EXCEPT ![w] = "holding"]
                   /\ UNCHANGED <<maxConcurrent, created, cap, resizing>>

\* acquire: the loop test fails, so the goroutine takes a slot.
Take(w) == /\ pc[w] \in {"locking", "woken"}
           /\ held < cap
           /\ held' = held + 1
           /\ pc' = [pc EXCEPT ![w] = "holding"]
           /\ UNCHANGED <<maxConcurrent, created, cap, resizing>>

\* acquire: every slot is held, so the goroutine joins the wait set.
Park(w) == /\ pc[w] \in {"locking", "woken"}
           /\ held >= cap
           /\ pc' = [pc EXCEPT ![w] = "waiting"]
           /\ UNCHANGED <<maxConcurrent, created, cap, held, resizing>>

\* A release that forgets to signal.
SignalledNobody(p) == {p}

\* What cond.Signal may do to the places p of the goroutines.
Signalled(p) == LET parked == {w \in Workers : p[w] = "waiting"}
                IN IF parked = {} THEN {p}
                   ELSE {[p EXCEPT ![v] = "woken"] : v \in parked}

Release(w) == /\ pc[w] = "holding"
              /\ held' = IF held > 0 THEN held - 1 ELSE held
              /\ pc' \in Signalled([pc EXCEPT ![w] = "gone"])
              /\ UNCHANGED <<maxConcurrent, created, cap, resizing>>

\* SetMaxConcurrent under Registry.mu: the gate does not exist yet, it is
\* created with the requested cap and there is nothing left to resize.
SetFirst(s, n) == /\ resizing[s] = NoRequest
                  /\ ~created
                  /\ maxConcurrent' = Repair(n)
                  /\ created' = TRUE
                  /\ cap' = Repair(n)
                  /\ UNCHANGED <<held, pc, resizing>>

\* SetMaxConcurrent under Registry.mu with a gate: the field changes now, the
\* gate only after the registry lock is given up.
SetField(s, n) == /\ resizing[s] = NoRequest
                  /\ created
                  /\ maxConcurrent' = Repair(n)
                  /\ resizing' = [resizing EXCEPT ![s] = Repair(n)]
                  /\ UNCHANGED <<created, cap, held, pc>>

\* A resize that wakes one waiter for a cap that may have grown by several.
ResizeSignal(s) == /\ resizing[s] # NoRequest
                   /\ cap' = Repair(resizing[s])
                   /\ pc' \in Signalled(pc)
                   /\ resizing' = [resizing EXCEPT ![s] = NoRequest]
                   /\ UNCHANGED <<maxConcurrent, created, held>>

\* resize: the new cap, and cond.Broadcast.
Resize(s) == /\ resizing[s] # NoRequest
             /\ cap' = Repair(resizing[s])
             /\ pc' = [w \in Workers |->
                          IF pc[w] = "waiting" THEN "woken" ELSE pc[w]]
             /\ resizing' = [resizing EXCEPT ![s] = NoRequest]
             /\ UNCHANGED <<maxConcurrent, created, held>>

Next == \/ \E w \in Workers : Enter(w) \/ Take(w) \/ Park(w) \/ Release(w)
        \/ \E s \in Setters : \/ Resize(s)
                              \/ \E n \in Requests : SetFirst(s, n) \/ SetField(s, n)

\* A started goroutine keeps running: it reaches its loop test, a worker ends
\* (completion, watchdog or cancel), and a setter reaches its resize.
Fairness == /\ \A w \in Workers : WF_vars(Take(w) \/ Park(w)) /\ WF_vars(Release(w))
            /\ \A s \in Setters : WF_vars(Resize(s))

Spec == Init /\ [][Next]_vars

FairSpec == Spec /\ Fairness

-----------------------------------------------------------------------------

TypeOK == /\ maxConcurrent \in Nat
          /\ created \in BOOLEAN
          /\ cap \in Nat \ {0}
          /\ held \in Nat
          /\ pc \in [Workers -> Places]
          /\ resizing \in [Setters -> (Nat \ {0}) \cup {NoRequest}]

\* held counts the goroutines between acquire and release, one by one, across
\* every interleaving of acquires, releases and resizes.
HeldIsHolders == held = Cardinality(At("holding"))

\* While workers are parked, a free slot always has a woken goroutine on its way
\* to it: no release or resize frees a slot without waking somebody for it.
NoLostWakeup == At("waiting") # {} => held + Cardinality(At("woken")) >= cap

\* "A lower cap does not kill in-flight workers - new acquires wait until held
\* drops under it": whoever starts to hold leaves held within the cap of then.
NoAdmissionAboveCap ==
    [][(\E w \in Workers : pc[w] # "holding" /\ pc'[w] = "holding") => held' <= cap]_vars

\* Every worker that reached the gate gets its slot, whatever happens to the cap.
EveryWorkerAdmitted ==
    \A w \in Workers : pc[w] \in {"locking", "waiting", "woken"} ~> pc[w] = "holding"

\* The gate is the semaphore of the module Semaphore, wakeups included: a worker
\* it keeps a slot free for is admitted.
Abstract == INSTANCE Semaphore WITH queued <- At("locking") \cup At("waiting") \cup At("woken"),
                                    admitted <- At("holding")

ImplementsSemaphore == Abstract!FairSpec
=============================================================================
