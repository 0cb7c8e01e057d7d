--------------------------- MODULE CircuitBreaker ---------------------------
(***************************************************************************)
(* What the recovery gate promises to the model calls of one origin: while    *)
(* the service is healthy requests run side by side; the first of them to     *)
(* fail stops the admission for a cooldown; after it one request tries, and   *)
(* that one alone decides whether the outage is over.  Nothing here knows     *)
(* about permits, generations, timers, wake-ups or the loops of a call.       *)
(***************************************************************************)
EXTENDS Naturals

CONSTANTS Calls, Initial, Max

VARIABLES
    inside,   \* calls with a request under way
    trusted,  \* those sent since the health was last decided
    trial,    \* the one of them that tries the service, if any: {c} or {}
    relieved, \* its stream has begun, and others may go too
    resting,  \* a cooldown runs
    streak,   \* failures in a row
    delay     \* the last cooldown

vars == <<inside, trusted, trial, relieved, resting, streak, delay>>

Init == /\ inside = {} /\ trusted = {} /\ trial = {}
        /\ relieved = FALSE /\ resting = FALSE
        /\ streak = 0 /\ delay = 0

Longer == IF streak = 0 THEN Initial ELSE IF 2 * delay <= Max THEN 2 * delay ELSE Max

\* A request is sent: freely in health and once the trial has begun to succeed ...
Pass(c) == /\ c \notin inside
           /\ streak = 0 \/ relieved
           /\ inside' = inside \cup {c} /\ trusted' = trusted \cup {c}
           /\ UNCHANGED <<trial, relieved, resting, streak, delay>>

\* ... and as the only trial after a cooldown.
Try(c) == /\ c \notin inside
          /\ streak > 0 /\ ~resting /\ trial = {}
          /\ inside' = inside \cup {c} /\ trusted' = trusted \cup {c} /\ trial' = {c}
          /\ UNCHANGED <<relieved, resting, streak, delay>>

Relieve == /\ trial # {} /\ ~relieved
           /\ relieved' = TRUE
           /\ UNCHANGED <<inside, trusted, trial, resting, streak, delay>>

\* A result that says nothing of the service, or has no say.
Ignore(c) == /\ c \in inside /\ c \notin trial
             /\ inside' = inside \ {c} /\ trusted' = trusted \ {c}
             /\ UNCHANGED <<trial, relieved, resting, streak, delay>>

\* Every decision makes strangers of the requests that are still under way.
Decide(c) == /\ c \in trusted /\ (streak > 0 => c \in trial)
             /\ inside' = inside \ {c} /\ trusted' = {} /\ trial' = {} /\ relieved' = FALSE

\* The first failure in health, or that of the trial: the next cooldown is longer.
Fail(c) == /\ Decide(c)
           /\ streak' = streak + 1 /\ delay' = Longer /\ resting' = TRUE

\* The trial succeeded: the only way out of an outage.
Recover(c) == /\ Decide(c) /\ c \in trial
              /\ streak' = 0 /\ delay' = 0 /\ resting' = FALSE

\* The trial was given up: another cooldown, no longer than the last.
Withdraw(c) == /\ Decide(c) /\ c \in trial
               /\ resting' = TRUE
               /\ UNCHANGED <<streak, delay>>

Rested == /\ resting
          /\ resting' = FALSE
          /\ UNCHANGED <<inside, trusted, trial, relieved, streak, delay>>

Next == \/ Relieve \/ Rested
        \/ \E c \in Calls : \/ Pass(c) \/ Try(c) \/ Ignore(c)
                            \/ Fail(c) \/ Recover(c) \/ Withdraw(c)

Spec == Init /\ [][Next]_vars
=============================================================================
