---------------------------- MODULE WorkerLedger ----------------------------
(***************************************************************************)
(* What the registry of background workers promises to whoever delegates:    *)
(* which workers are at work, and whose results are still owed to somebody.   *)
(* Nothing here knows about calls in several sections, handles, generations,  *)
(* checkpoints, an archive or a roster that can be pruned.                    *)
(***************************************************************************)
EXTENDS Naturals, FiniteSets

CONSTANTS Ids, Cap

VARIABLES
    alive,      \* workers in a life
    owed,       \* workers whose last life nobody has settled
    abandoned,  \* those at work though nobody wants the result any more
    shut        \* the registry was closed

vars == <<alive, owed, abandoned, shut>>

Init == /\ alive = {}
        /\ owed = {}
        /\ abandoned = {}
        /\ shut = FALSE

\* A life begins, the first or a later one: one at a time per worker, under the cap,
\* with a result owed for it.
Start(id) == /\ ~shut
             /\ id \notin alive
             /\ Cardinality(alive) < Cap
             /\ alive' = alive \cup {id}
             /\ owed' = owed \cup {id}
             /\ UNCHANGED <<abandoned, shut>>

\* It ends; its result is owed as before.
End(id) == /\ id \in alive
           /\ alive' = alive \ {id}
           /\ abandoned' = abandoned \ {id}
           /\ UNCHANGED <<owed, shut>>

\* A result is consumed once, and not before it is there.
Collect(id) == /\ id \in owed \ alive
               /\ owed' = owed \ {id}
               /\ UNCHANGED <<alive, abandoned, shut>>

\* A worker at work is given up: the only way to a life without a debt.
Abandon(id) == /\ id \in owed \cap alive
               /\ owed' = owed \ {id}
               /\ abandoned' = abandoned \cup {id}
               /\ UNCHANGED <<alive, shut>>

\* The registry is closed for good: nothing is owed, and lives only end.
Close == /\ ~shut
         /\ shut' = TRUE
         /\ owed' = {}
         /\ UNCHANGED <<alive, abandoned>>

Next == Close \/ \E id \in Ids : Start(id) \/ End(id) \/ Collect(id) \/ Abandon(id)

Spec == Init /\ [][Next]_vars
=============================================================================
