------------------------------ MODULE Mailbox ------------------------------
(***************************************************************************)
(* What the queue of waiting messages promises, without turns, rows or       *)
(* locks: a message waits, is taken out by one sender at a time, comes back   *)
(* when that sender loses, and once it is delivered or dropped it is never    *)
(* seen in the queue again.                                                  *)
(***************************************************************************)
EXTENDS Naturals

CONSTANT Messages

VARIABLE where  \* where each message is

Places == {"new", "waiting", "out", "delivered", "dropped"}

Init == where = [m \in Messages |-> "new"]

Move(m, from, to) == /\ where[m] = from
                     /\ where' = [where EXCEPT ![m] = to]

Enqueue(m) == Move(m, "new", "waiting")
Take(m)    == Move(m, "waiting", "out")
Return(m)  == Move(m, "out", "waiting")
Remove(m)  == Move(m, "waiting", "dropped")

\* A start joins every message it carries into one turn.
Deliver(M) == /\ \A m \in M : where[m] = "out"
              /\ where' = [m \in Messages |-> IF m \in M THEN "delivered" ELSE where[m]]

\* A crash ends every sender: a message it held is in the turn it had
\* created, or gone.  Waiting messages stay.
Crash(D) == where' = [m \in Messages |-> IF where[m] # "out" THEN where[m]
                                         ELSE IF m \in D THEN "delivered" ELSE "dropped"]

Next == \/ \E m \in Messages : Enqueue(m) \/ Take(m) \/ Return(m) \/ Remove(m)
        \/ \E M \in SUBSET Messages : Deliver(M) \/ Crash(M)

Spec == Init /\ [][Next]_where
=============================================================================
