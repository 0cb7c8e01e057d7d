------------------------------- MODULE Alarms -------------------------------
(***************************************************************************)
(* What scheduling promises about waits: at most Cap of them are armed by    *)
(* those who arm them, a wait has one open fire at a time, a turn is started  *)
(* only for an open fire, and the one turn of a one-shot is its last until    *)
(* the wait is made to repeat.  Nothing here knows about ticks, locks, rows,  *)
(* busy conversations, refused starts or the steps of recovery.               *)
(***************************************************************************)
EXTENDS Naturals, FiniteSets

CONSTANTS Waits, Fires, Cap

VARIABLES
    armed,  \* waits that will fire
    open,   \* fires that are not over, each with its wait
    rung    \* one-shots that have had their turn

vars == <<armed, open, rung>>

Init == armed = {} /\ open = {} /\ rung = {}

Room(w) == w \in armed \/ Cardinality(armed) < Cap

Arm(w) == /\ Room(w) /\ w \notin rung
          /\ armed' = armed \cup {w}
          /\ UNCHANGED <<open, rung>>

\* Made to repeat: what it did as a one-shot no longer counts.
Rearm(w) == /\ Room(w)
            /\ armed' = armed \cup {w} /\ rung' = rung \ {w}
            /\ UNCHANGED open

\* By a human, by a manager, after too many failures, or because it was a one-shot.
Disarm(w) == /\ w \in armed
             /\ armed' = armed \ {w}
             /\ UNCHANGED <<open, rung>>

Fire(f, w) == /\ \A g \in open : g.fire # f /\ g.wait # w
              /\ open' = open \cup {[fire |-> f, wait |-> w]}
              /\ UNCHANGED <<armed, rung>>

\* The turn of a one-shot begins, when it can no longer be armed as one.
Ring(w) == /\ \E f \in open : f.wait = w
           /\ w \notin rung /\ w \notin armed
           /\ rung' = rung \cup {w}
           /\ UNCHANGED <<armed, open>>

\* One fire is over, or a restart gives up several.
Close(fires) == /\ open' = open \ fires
                /\ UNCHANGED <<armed, rung>>

Next == \/ \E w \in Waits : Arm(w) \/ Rearm(w) \/ Disarm(w) \/ Ring(w)
                            \/ \E f \in Fires : Fire(f, w)
        \/ \E fires \in SUBSET open : Close(fires)

Spec == Init /\ [][Next]_vars
=============================================================================
