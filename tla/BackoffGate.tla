---------------------------- MODULE BackoffGate ----------------------------
(***************************************************************************)
(* The recovery gate the model calls of one origin share                    *)
(* (internal/provider/backoff.go), with the callers around it: the wait for *)
(* admission, the send with its one reconnect, the stream, and the loop that *)
(* repeats a send the gateway refused to route.                             *)
(*                                                                         *)
(* One action is one critical section of backoffGate.mu, or a step of a      *)
(* call that touches no gate.  Of the clock only "the cooldown has not       *)
(* passed" is kept; delays are kept in units.                               *)
(***************************************************************************)
EXTENDS Integers, FiniteSets

CONSTANTS
    Calls,       \* logical model calls, of any agent
    Persistent,  \* those with route recovery: not WithoutRouteRecovery
    Initial,     \* first cooldown
    Max,         \* longest cooldown
    Attempts,    \* DefaultRouteRecoveryAttempts
    Nil

ASSUME CooldownAssumption == Initial \in Nat /\ Max \in Nat /\ 0 < Initial /\ Initial <= Max
ASSUME AttemptsAssumption == Attempts \in Nat /\ 0 < Attempts
ASSUME PersistentAssumption == Persistent \subseteq Calls
ASSUME NilAssumption == Nil \notin [generation : Nat, probe : BOOLEAN]

VARIABLES
    gate,       \* backoffGate, with "cooling" for next > now
    at,         \* where each call is
    ticket,     \* the permit each call holds
    woken,      \* waiting calls whose "changed" channel was closed
    timed,      \* waiting calls that also wait for the cooldown to pass
    cancelled,  \* calls whose context is cancelled
    reconnected, \* calls that used the reconnect of this send
    refusals    \* confirmed route refusals of each call

vars == <<gate, at, ticket, woken, timed, cancelled, reconnected, refusals>>

Healthy == [delay |-> 0, failures |-> 0, cooling |-> FALSE, probe |-> FALSE,
            probeReady |-> FALSE, generation |-> 0, routeUnavailable |-> FALSE]

Init == /\ gate = Healthy
        /\ at = [c \in Calls |-> "idle"]
        /\ ticket = [c \in Calls |-> Nil]
        /\ woken = {}
        /\ timed = {}
        /\ cancelled = {}
        /\ reconnected = {}
        /\ refusals = [c \in Calls |-> 0]

-----------------------------------------------------------------------------
\* The gate.

Open == gate.failures = 0 \/ gate.probeReady \/ (~gate.probe /\ ~gate.cooling)

NextProbe == gate.failures > 0 /\ ~gate.probeReady

\* Doubled up to the cap.
NextDelay == IF gate.failures = 0 THEN Initial
             ELSE IF gate.delay >= Max - gate.delay THEN Max ELSE 2 * gate.delay

\* mutant: the probe of an earlier generation decides too.
AuthorityForever(t) == t.probe \/ gate.failures = 0

\* Only the first failure of the healthy generation and the current probe decide.
HasAuthority(t) == t.generation = gate.generation /\ (t.probe \/ gate.failures = 0)

\* mutant: a cancelled probe keeps its permit.
DecidesUncancelled(t, outcome) ==
    HasAuthority(t) /\ (outcome \in {"failure", "unavailable"} \/ (t.probe /\ outcome = "success"))

\* Whether a result changes the gate: success and cancellation only when the probe's.
Decides(t, outcome) ==
    HasAuthority(t) /\ (outcome \in {"failure", "unavailable"} \/ t.probe)

\* finish: what a deciding result makes of the gate.
After(outcome) ==
    [delay |-> CASE outcome \in {"failure", "unavailable"} -> NextDelay
                 [] outcome = "success" -> 0
                 [] outcome = "canceled" -> gate.delay,
     failures |-> CASE outcome \in {"failure", "unavailable"} -> gate.failures + 1
                    [] outcome = "success" -> 0
                    [] outcome = "canceled" -> gate.failures,
     cooling |-> outcome # "success",
     probe |-> FALSE,
     probeReady |-> FALSE,
     generation |-> gate.generation + 1,
     routeUnavailable |-> outcome = "unavailable"
                          \/ (gate.routeUnavailable /\ outcome # "success")]

\* Closing "changed" wakes every call that waits.
WakeAll == woken' = woken \cup {c \in Calls : at[c] = "waiting"}

Finish(c, outcome) ==
    /\ ticket' = [ticket EXCEPT ![c] = Nil]
    /\ IF Decides(ticket[c], outcome)
       THEN gate' = After(outcome) /\ WakeAll
       ELSE UNCHANGED <<gate, woken>>

-----------------------------------------------------------------------------
\* A call.

Move(c, place) == at' = [at EXCEPT ![c] = place]

Start(c) ==
    /\ at[c] = "idle"
    /\ Move(c, "acquiring")
    /\ UNCHANGED <<gate, ticket, woken, timed, cancelled, reconnected, refusals>>

\* mutant: the single probe is not tested for.
AdmitParallel(c) ==
    /\ at[c] = "acquiring" /\ c \notin cancelled
    /\ gate.failures = 0 \/ gate.probeReady \/ ~gate.cooling
    /\ ticket' = [ticket EXCEPT ![c] = [generation |-> gate.generation, probe |-> NextProbe]]
    /\ gate' = [gate EXCEPT !.probe = gate.probe \/ NextProbe]
    /\ Move(c, "sending")
    /\ UNCHANGED <<woken, timed, cancelled, reconnected, refusals>>

\* acquire gives the permit ...
Admit(c) ==
    /\ at[c] = "acquiring" /\ c \notin cancelled
    /\ Open
    /\ ticket' = [ticket EXCEPT ![c] = [generation |-> gate.generation, probe |-> NextProbe]]
    /\ gate' = [gate EXCEPT !.probe = gate.probe \/ NextProbe]
    /\ Move(c, "sending")
    /\ UNCHANGED <<woken, timed, cancelled, reconnected, refusals>>

\* ... or waits for a change, and for the cooldown while there is one.
Wait(c) ==
    /\ at[c] = "acquiring" /\ c \notin cancelled
    /\ ~Open
    /\ Move(c, "waiting")
    /\ timed' = IF gate.cooling THEN timed \cup {c} ELSE timed
    /\ UNCHANGED <<gate, ticket, woken, cancelled, reconnected, refusals>>

\* The select of the waiting loop.
Wake(c) ==
    /\ at[c] = "waiting"
    /\ c \in woken \/ (c \in timed /\ ~gate.cooling)
    /\ Move(c, "acquiring")
    /\ woken' = woken \ {c}
    /\ timed' = timed \ {c}
    /\ UNCHANGED <<gate, ticket, cancelled, reconnected, refusals>>

Cancel(c) ==
    /\ at[c] # "ended" /\ c \notin cancelled
    /\ cancelled' = cancelled \cup {c}
    /\ UNCHANGED <<gate, at, ticket, woken, timed, reconnected, refusals>>

\* A cancelled context ends the wait; there is no permit to return.
GiveUp(c) ==
    /\ at[c] \in {"acquiring", "waiting"} /\ c \in cancelled
    /\ Move(c, "ended")
    /\ woken' = woken \ {c}
    /\ timed' = timed \ {c}
    /\ UNCHANGED <<gate, ticket, cancelled, reconnected, refusals>>

\* RoundTrip: the one retry on a fresh connection after a header timeout is a failure
\* at the gate, and waits there again.
Reconnect(c) ==
    /\ at[c] = "sending" /\ c \notin reconnected
    /\ Finish(c, "failure")
    /\ reconnected' = reconnected \cup {c}
    /\ Move(c, "acquiring")
    /\ UNCHANGED <<timed, cancelled, refusals>>

\* generate and stream: a refusal is sent again, up to the budget.
Refused(c) ==
    /\ at[c] = "sending"
    /\ Finish(c, "unavailable")
    /\ LET again == c \in Persistent /\ c \notin cancelled
       IN  /\ refusals' = IF again THEN [refusals EXCEPT ![c] = @ + 1] ELSE refusals
           /\ Move(c, IF again /\ refusals[c] + 1 < Attempts THEN "acquiring" ELSE "ended")
    /\ reconnected' = reconnected \ {c}
    /\ UNCHANGED <<timed, cancelled>>

\* Stream has returned: the relay reads on.
Establish(c) ==
    /\ at[c] = "sending"
    /\ Move(c, "streaming")
    /\ UNCHANGED <<gate, ticket, woken, timed, cancelled, reconnected, refusals>>

\* The first decoded content of the probe's stream lets other calls in.
Progress(c) ==
    /\ at[c] = "streaming" /\ c \notin cancelled
    /\ ticket[c].probe /\ ticket[c].generation = gate.generation
    /\ gate.probe /\ ~gate.probeReady
    /\ gate' = [gate EXCEPT !.probeReady = TRUE]
    /\ WakeAll
    /\ UNCHANGED <<at, ticket, timed, cancelled, reconnected, refusals>>

\* The end of a send or of a drained stream: an error that says nothing of the service
\* counts as a cancellation, and so does everything once the context is cancelled.
End(c, outcome) ==
    /\ at[c] \in {"sending", "streaming"}
    /\ c \in cancelled => outcome = "canceled"
    /\ Finish(c, outcome)
    /\ Move(c, "ended")
    /\ UNCHANGED <<timed, cancelled, reconnected, refusals>>

\* The clock passes gate.next.
Elapse ==
    /\ gate.cooling
    /\ gate' = [gate EXCEPT !.cooling = FALSE]
    /\ UNCHANGED <<at, ticket, woken, timed, cancelled, reconnected, refusals>>

Ends(c) == Refused(c) \/ \E outcome \in {"failure", "success", "canceled"} : End(c, outcome)

Next == \/ \E c \in Calls : \/ Start(c) \/ Admit(c) \/ Wait(c) \/ Wake(c) \/ Cancel(c) \/ GiveUp(c)
                            \/ Reconnect(c) \/ Establish(c) \/ Progress(c) \/ Ends(c)
        \/ Elapse

Spec == Init /\ [][Next]_vars

\* Time passes; a call goes on; a send ends, because the header and idle timeouts of
\* the transport bound it.
FairSpec == /\ Spec
            /\ WF_vars(Elapse)
            /\ \A c \in Calls : WF_vars(Admit(c) \/ Wait(c) \/ Wake(c) \/ GiveUp(c)) /\ WF_vars(Ends(c))

-----------------------------------------------------------------------------

\* Every variable keeps its type; a permit is held exactly while a send is under way.
TypeOK ==
    /\ gate \in [delay : 0..Max, failures : Nat, cooling : BOOLEAN, probe : BOOLEAN,
                 probeReady : BOOLEAN, generation : Nat, routeUnavailable : BOOLEAN]
    /\ at \in [Calls -> {"idle", "acquiring", "waiting", "sending", "streaming", "ended"}]
    /\ ticket \in [Calls -> [generation : Nat, probe : BOOLEAN] \cup {Nil}]
    /\ \A c \in Calls : ticket[c] # Nil <=> at[c] \in {"sending", "streaming"}
    /\ woken \subseteq Calls /\ timed \subseteq Calls
    /\ cancelled \subseteq Calls /\ reconnected \subseteq Calls
    /\ refusals \in [Calls -> 0..Attempts]

Probes == {c \in Calls : ticket[c] # Nil /\ ticket[c].probe
                         /\ ticket[c].generation = gate.generation}

\* An outage is probed by one request at a time (ARCHITECTURE.md, Model service recovery:
\* "one probe may run"), and the gate says there is a probe exactly when some call holds it:
\* neither a second probe, nor a gate that waits for a probe nobody makes.
SingleProbe ==
    /\ \A c, d \in Probes : c = d
    /\ gate.probe <=> Probes # {}

\* No call is admitted during a cooldown, however admission, progress, timers and the late
\* results of earlier requests interleave.
CooldownQuiet ==
    [][\A c \in Calls : ticket[c] = Nil /\ ticket'[c] # Nil => ~gate.cooling]_vars

\* The failure streak moves only in the step in which a call of the current generation
\* ends, and during an outage only with the probe: a parallel or late result neither
\* advances the streak nor declares recovery.
StreakOwned ==
    [][gate'.failures # gate.failures =>
         \E c \in Calls :
            /\ ticket[c] # Nil /\ ticket'[c] = Nil
            /\ ticket[c].generation = gate.generation
            /\ (gate.failures > 0 => c \in Probes)]_vars

\* To the calls of an origin the gate is the breaker of module CircuitBreaker: permits of
\* the current generation have a say, and late results are strangers to it.
Sent == {c \in Calls : ticket[c] # Nil}

Current == {c \in Sent : ticket[c].generation = gate.generation}

Breaker == INSTANCE CircuitBreaker WITH inside <- Sent, trusted <- Current, trial <- Probes,
                                        relieved <- gate.probeReady, resting <- gate.cooling,
                                        streak <- gate.failures, delay <- gate.delay

ImplementsBreaker == Breaker!Spec

\* Every call comes to its end: admission never waits for ever, whoever cancels.
EveryCallEnds == \A c \in Calls : at[c] # "idle" ~> at[c] = "ended"

=============================================================================
