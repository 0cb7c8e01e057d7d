------------------------- MODULE BackoffGateProofs -------------------------
(***************************************************************************)
(* The recovery gate, for any number of calls, any cooldown bounds and any   *)
(* refusal budget: types, the single probe, and the two action properties.   *)
(*                                                                         *)
(* The inductive invariant IInv adds to the single probe what makes it       *)
(* stable: no permit is ahead of the generation of the gate, so that the     *)
(* step that settles a probe leaves no permit of the new generation behind;   *)
(* and a probe exists only in an outage whose cooldown has passed.            *)
(***************************************************************************)
EXTENDS BackoffGate, TLAPS

Permits == [generation : Nat, probe : BOOLEAN]
Gates == [delay : 0..Max, failures : Nat, cooling : BOOLEAN, probe : BOOLEAN,
          probeReady : BOOLEAN, generation : Nat, routeUnavailable : BOOLEAN]
Outcomes == {"failure", "unavailable", "success", "canceled"}

\* What Finish and Admit change.
Types == /\ gate \in Gates
         /\ ticket \in [Calls -> Permits \cup {Nil}]
         /\ woken \subseteq Calls
Phases == /\ gate.probe => gate.failures > 0 /\ ~gate.cooling
          /\ gate.probeReady => gate.probe
          /\ gate.failures = 0 => ~gate.cooling
NoneAhead == \A c \in Calls : ticket[c] # Nil => ticket[c].generation <= gate.generation
Core == Types /\ Phases /\ NoneAhead /\ SingleProbe

\* The call's own state.
Budget == \A c \in Calls : at[c] # "ended" => refusals[c] < Attempts
Holding == \A c \in Calls : ticket[c] # Nil <=> at[c] \in {"sending", "streaming"}
Places == /\ at \in [Calls -> {"idle", "acquiring", "waiting", "sending", "streaming", "ended"}]
          /\ timed \subseteq Calls /\ cancelled \subseteq Calls /\ reconnected \subseteq Calls
          /\ refusals \in [Calls -> 0..Attempts]

IInv == Core /\ Places /\ Holding /\ Budget

-----------------------------------------------------------------------------

\* The next gate is a gate, and its delay stays within the cap (finish).
LEMMA AfterIsGate ==
    ASSUME gate \in Gates, NEW outcome \in Outcomes
    PROVE  /\ After(outcome) \in Gates
           /\ After(outcome).probe = FALSE
           /\ After(outcome).probeReady = FALSE
           /\ After(outcome).generation = gate.generation + 1
           /\ After(outcome).cooling = (outcome # "success")
           /\ After(outcome).failures = CASE outcome \in {"failure", "unavailable"} -> gate.failures + 1
                                          [] outcome = "success" -> 0
                                          [] outcome = "canceled" -> gate.failures
  <1>1. NextDelay \in 0..Max
    BY CooldownAssumption DEF Gates, NextDelay
  <1>2. CASE outcome \in {"failure", "unavailable"}
    BY <1>1, <1>2 DEF After, Gates
  <1>3. CASE outcome = "success"
    BY <1>3, CooldownAssumption DEF After, Gates
  <1>4. CASE outcome = "canceled"
    BY <1>4 DEF After, Gates
  <1> QED BY <1>2, <1>3, <1>4 DEF Outcomes

\* Returning a permit keeps the gate consistent: when the result decides, every permit
\* is behind the new generation; when it does not, the permit was not the probe's.
LEMMA FinishKeepsCore ==
    ASSUME Core, NEW c \in Calls, ticket[c] # Nil, NEW outcome \in Outcomes, Finish(c, outcome)
    PROVE  Core' /\ ticket' = [ticket EXCEPT ![c] = Nil]
  <1>1. ticket' = [ticket EXCEPT ![c] = Nil]
    BY DEF Finish
  <1>2. /\ ticket' \in [Calls -> Permits \cup {Nil}]
        /\ ticket'[c] = Nil
        /\ \A d \in Calls : ticket'[d] # Nil => d # c /\ ticket'[d] = ticket[d]
    BY <1>1 DEF Core, Types
  <1>3. CASE Decides(ticket[c], outcome)
    <2>1. gate' = After(outcome) /\ woken' = woken \cup {d \in Calls : at[d] = "waiting"}
      BY <1>3 DEF Finish, WakeAll
    <2>2. /\ gate' \in Gates /\ ~gate'.probe /\ ~gate'.probeReady
          /\ gate'.generation = gate.generation + 1
      BY <2>1, AfterIsGate DEF Core, Types
    <2>3. Types'
      BY <2>1, <2>2, <1>2 DEF Core, Types
    <2>4. gate'.failures = 0 => ~gate'.cooling
      <3>1. CASE outcome \in {"failure", "unavailable"}
        <4>1. gate'.failures = gate.failures + 1
          BY <3>1, <2>1, AfterIsGate DEF Core, Types
        <4> QED BY <4>1 DEF Core, Types, Gates
      <3>2. CASE outcome = "success"
        BY <3>2, <2>1, AfterIsGate DEF Core, Types
      <3>3. CASE outcome = "canceled"
        <4>1. ticket[c].probe /\ ticket[c].generation = gate.generation
          BY <1>3, <3>3 DEF Decides, HasAuthority
        <4>2. c \in Probes
          BY <4>1 DEF Probes
        <4>3. gate.failures # 0
          BY <4>2 DEF Core, SingleProbe, Phases, Types, Gates
        <4> QED BY <4>3, <3>3, <2>1, AfterIsGate DEF Core, Types
      <3> QED BY <3>1, <3>2, <3>3 DEF Outcomes
    <2>5. Phases'
      BY <2>2, <2>4 DEF Phases
    <2>6. \A d \in Calls : ticket'[d] # Nil => ticket'[d].generation <= gate.generation
      BY <1>2 DEF Core, NoneAhead
    <2>7. NoneAhead'
      <3> SUFFICES ASSUME NEW d \in Calls, ticket'[d] # Nil
                   PROVE  ticket'[d].generation <= gate'.generation
        BY DEF NoneAhead
      <3>1. ticket'[d] \in Permits
        BY <1>2
      <3> QED BY <3>1, <2>2, <2>6 DEF Core, Types, Gates, Permits
    <2>8. Probes' = {}
      <3> SUFFICES ASSUME NEW d \in Calls, ticket'[d] # Nil, ticket'[d].generation = gate'.generation
                   PROVE  FALSE
        BY DEF Probes
      <3> QED BY <2>2, <2>6 DEF Core, Types, Gates
    <2>9. SingleProbe'
      BY <2>8, <2>2 DEF SingleProbe
    <2> QED BY <1>1, <2>3, <2>5, <2>7, <2>9 DEF Core
  <1>4. CASE ~Decides(ticket[c], outcome)
    <2>1. gate' = gate /\ woken' = woken
      BY <1>4 DEF Finish
    <2>2. c \notin Probes
      BY <1>4 DEF Probes, Decides, HasAuthority
    <2>3. Probes' = Probes
      BY <2>1, <2>2, <1>2, <1>1 DEF Probes, Core, Types
    <2>4. SingleProbe'
      BY <2>1, <2>3 DEF SingleProbe, Core
    <2>5. Types' /\ Phases' /\ NoneAhead'
      BY <2>1, <1>2 DEF Core, Types, Phases, NoneAhead
    <2> QED BY <1>1, <2>4, <2>5 DEF Core
  <1> QED BY <1>3, <1>4

\* A step that leaves gate, permits and wake-ups alone, up to "woken".
LEMMA StillCore ==
    ASSUME Core, UNCHANGED <<gate, ticket>>, woken' \subseteq Calls
    PROVE  Core'
  BY DEF Core, Types, Phases, NoneAhead, SingleProbe, Probes

\* The permit of acquire: a probe is handed out only when there is none.
LEMMA AdmitKeepsCore ==
    ASSUME Core, NEW c \in Calls, ticket[c] = Nil, Admit(c)
    PROVE  Core' /\ ~gate.cooling
  <1> DEFINE t == [generation |-> gate.generation, probe |-> NextProbe]
  <1>1. /\ ticket' = [ticket EXCEPT ![c] = t]
        /\ gate' = [gate EXCEPT !.probe = gate.probe \/ NextProbe]
        /\ woken' = woken /\ Open
    BY DEF Admit
  <1>2. gate \in Gates /\ NextProbe \in BOOLEAN
    BY DEF Core, Types, Gates, NextProbe
  <1>3. t \in Permits
    BY <1>2 DEF Gates, Permits
  <1>4. t # Nil
    BY <1>3, NilAssumption DEF Permits
  <1>5. /\ gate' \in Gates
        /\ gate'.probe = (gate.probe \/ NextProbe)
        /\ gate'.failures = gate.failures /\ gate'.cooling = gate.cooling
        /\ gate'.probeReady = gate.probeReady /\ gate'.generation = gate.generation
    BY <1>1, <1>2 DEF Gates
  <1>6. /\ ticket' \in [Calls -> Permits \cup {Nil}]
        /\ ticket'[c] = t
        /\ \A d \in Calls : d # c => ticket'[d] = ticket[d]
    BY <1>1, <1>3 DEF Core, Types
  <1>7. t.generation = gate.generation /\ t.probe = NextProbe
    OBVIOUS
  <1> HIDE DEF t
  <1>8. ~gate.cooling
    BY <1>1 DEF Open, Core, Phases
  <1>9. Types'
    BY <1>1, <1>5, <1>6 DEF Core, Types
  <1>10. Phases'
    BY <1>5, <1>8, <1>2 DEF Core, Phases, NextProbe, Gates
  <1>11. NoneAhead'
    BY <1>5, <1>6, <1>7, <1>2 DEF Core, NoneAhead, Gates
  <1>12. CASE NextProbe
    <2>1. ~gate.probe
      BY <1>12, <1>1, <1>2 DEF NextProbe, Open, Gates
    <2>2. Probes = {}
      BY <2>1 DEF Core, SingleProbe
    <2>3. \A d \in Calls : d \in Probes' <=> d = c
      BY <2>2, <1>4, <1>5, <1>6, <1>7, <1>12 DEF Probes
    <2>4. SingleProbe'
      BY <2>3, <1>5, <1>12 DEF SingleProbe, Probes
    <2> QED BY <2>4, <1>8, <1>9, <1>10, <1>11 DEF Core
  <1>13. CASE ~NextProbe
    <2>1. \A d \in Calls : d \in Probes' <=> d \in Probes
      BY <1>5, <1>6, <1>7, <1>13 DEF Probes
    <2>2. Probes' = Probes
      BY <2>1 DEF Probes
    <2>3. SingleProbe'
      BY <2>2, <1>5, <1>13 DEF Core, SingleProbe
    <2> QED BY <2>3, <1>8, <1>9, <1>10, <1>11 DEF Core
  <1> QED BY <1>12, <1>13

\* The early readiness of a streaming probe.
LEMMA ProgressKeepsCore ==
    ASSUME Core, NEW c \in Calls, Progress(c)
    PROVE  Core' /\ ticket' = ticket
  <1>1. /\ gate' = [gate EXCEPT !.probeReady = TRUE]
        /\ woken' = woken \cup {d \in Calls : at[d] = "waiting"}
        /\ ticket' = ticket /\ gate.probe
    BY DEF Progress, WakeAll
  <1>2. /\ gate' \in Gates /\ gate'.probe = gate.probe /\ gate'.failures = gate.failures
        /\ gate'.cooling = gate.cooling /\ gate'.generation = gate.generation
    BY <1>1 DEF Core, Types, Gates
  <1>3. Probes' = Probes
    BY <1>1, <1>2 DEF Probes
  <1> QED BY <1>1, <1>2, <1>3 DEF Core, Types, Phases, NoneAhead, SingleProbe

\* The end of a cooldown.
LEMMA ElapseKeepsCore ==
    ASSUME Core, Elapse
    PROVE  Core'
  <1>1. gate' = [gate EXCEPT !.cooling = FALSE] /\ ticket' = ticket /\ woken' = woken
    BY DEF Elapse
  <1>2. /\ gate' \in Gates /\ gate'.probe = gate.probe /\ gate'.failures = gate.failures
        /\ gate'.cooling = FALSE /\ gate'.generation = gate.generation
        /\ gate'.probeReady = gate.probeReady
    BY <1>1 DEF Core, Types, Gates
  <1>3. Probes' = Probes
    BY <1>1, <1>2 DEF Probes
  <1> QED BY <1>1, <1>2, <1>3 DEF Core, Types, Phases, NoneAhead, SingleProbe

-----------------------------------------------------------------------------

\* A call that moves without a permit changing hands keeps the rest.
LEMMA MoveKeepsCall ==
    ASSUME Places, Holding, Budget, NEW c \in Calls,
           NEW place \in {"idle", "acquiring", "waiting", "sending", "streaming", "ended"},
           Move(c, place), at[c] # "ended",
           place \in {"sending", "streaming"} <=> ticket'[c] # Nil,
           \A d \in Calls : d # c => ticket'[d] = ticket[d],
           refusals' = refusals
    PROVE  /\ Holding' /\ Budget'
           /\ at' \in [Calls -> {"idle", "acquiring", "waiting", "sending", "streaming", "ended"}]
  <1>1. /\ at' \in [Calls -> {"idle", "acquiring", "waiting", "sending", "streaming", "ended"}]
        /\ at'[c] = place
        /\ \A d \in Calls : d # c => at'[d] = at[d]
    BY DEF Move, Places
  <1>2. Holding'
    BY <1>1 DEF Holding
  <1>3. Budget'
    BY <1>1 DEF Budget
  <1> QED BY <1>1, <1>2, <1>3

LEMMA Initialised == Init => IInv
  <1> SUFFICES ASSUME Init PROVE IInv
    OBVIOUS
  <1>1. Types /\ Phases /\ NoneAhead
    BY CooldownAssumption DEF Init, Healthy, Types, Gates, Phases, NoneAhead
  <1>2. SingleProbe
    BY DEF Init, Healthy, SingleProbe, Probes
  <1>3. Places /\ Holding /\ Budget
    BY AttemptsAssumption DEF Init, Places, Holding, Budget
  <1> QED BY <1>1, <1>2, <1>3 DEF IInv, Core

LEMMA Inductive == IInv /\ [Next]_vars => IInv'
  <1> SUFFICES ASSUME IInv, [Next]_vars PROVE IInv'
    OBVIOUS
  <1>0. Core /\ Places /\ Holding /\ Budget
    BY DEF IInv
  <1>1. ASSUME NEW c \in Calls, Start(c) PROVE IInv'
    <2>1. Core'
      BY <1>0, <1>1, StillCore DEF Start, Core, Types
    <2>2. /\ at[c] = "idle" /\ Move(c, "acquiring") /\ ticket' = ticket /\ refusals' = refusals
          /\ UNCHANGED <<timed, cancelled, reconnected>>
      BY <1>1 DEF Start
    <2>3. ticket[c] = Nil
      BY <1>0, <2>2 DEF Holding
    <2>4. Holding' /\ Budget' /\ Places'
      BY <1>0, <2>2, <2>3, MoveKeepsCall DEF Places
    <2> QED BY <2>1, <2>4 DEF IInv
  <1>2. ASSUME NEW c \in Calls, Admit(c) PROVE IInv'
    <2>1. at[c] = "acquiring" /\ ticket[c] = Nil
      BY <1>0, <1>2 DEF Admit, Holding
    <2>2. Core'
      BY <1>0, <1>2, <2>1, AdmitKeepsCore
    <2>3. /\ Move(c, "sending") /\ refusals' = refusals
          /\ UNCHANGED <<timed, cancelled, reconnected>>
          /\ ticket' = [ticket EXCEPT ![c] = [generation |-> gate.generation, probe |-> NextProbe]]
      BY <1>2 DEF Admit
    <2>4. [generation |-> gate.generation, probe |-> NextProbe] # Nil
      <3>1. [generation |-> gate.generation, probe |-> NextProbe] \in Permits
        BY <1>0 DEF Core, Types, Gates, NextProbe, Permits
      <3> QED BY <3>1, NilAssumption DEF Permits
    <2>5. ticket'[c] # Nil /\ \A d \in Calls : d # c => ticket'[d] = ticket[d]
      BY <1>0, <2>3, <2>4 DEF Core, Types
    <2>6. Holding' /\ Budget' /\ Places'
      BY <1>0, <2>1, <2>3, <2>5, MoveKeepsCall DEF Places
    <2> QED BY <2>2, <2>6 DEF IInv
  <1>3. ASSUME NEW c \in Calls, Wait(c) PROVE IInv'
    <2>1. Core'
      BY <1>0, <1>3, StillCore DEF Wait, Core, Types
    <2>2. /\ at[c] = "acquiring" /\ Move(c, "waiting") /\ ticket' = ticket /\ refusals' = refusals
          /\ timed' \subseteq Calls /\ UNCHANGED <<cancelled, reconnected>>
      BY <1>0, <1>3 DEF Wait, Places
    <2>3. ticket[c] = Nil
      BY <1>0, <2>2 DEF Holding
    <2>4. Holding' /\ Budget' /\ Places'
      BY <1>0, <2>2, <2>3, MoveKeepsCall DEF Places
    <2> QED BY <2>1, <2>4 DEF IInv
  <1>4. ASSUME NEW c \in Calls, Wake(c) PROVE IInv'
    <2>1. Core'
      BY <1>0, <1>4, StillCore DEF Wake, Core, Types
    <2>2. /\ at[c] = "waiting" /\ Move(c, "acquiring") /\ ticket' = ticket /\ refusals' = refusals
          /\ timed' \subseteq Calls /\ UNCHANGED <<cancelled, reconnected>>
      BY <1>0, <1>4 DEF Wake, Places
    <2>3. ticket[c] = Nil
      BY <1>0, <2>2 DEF Holding
    <2>4. Holding' /\ Budget' /\ Places'
      BY <1>0, <2>2, <2>3, MoveKeepsCall DEF Places
    <2> QED BY <2>1, <2>4 DEF IInv
  <1>5. ASSUME NEW c \in Calls, Cancel(c) PROVE IInv'
    <2>1. Core'
      BY <1>0, <1>5, StillCore DEF Cancel, Core, Types
    <2>2. Places' /\ Holding' /\ Budget'
      BY <1>0, <1>5 DEF Cancel, Places, Holding, Budget
    <2> QED BY <2>1, <2>2 DEF IInv
  <1>6. ASSUME NEW c \in Calls, GiveUp(c) PROVE IInv'
    <2>1. Core'
      BY <1>0, <1>6, StillCore DEF GiveUp, Core, Types
    <2>2. /\ at[c] \in {"acquiring", "waiting"} /\ Move(c, "ended") /\ ticket' = ticket
          /\ refusals' = refusals /\ timed' \subseteq Calls /\ UNCHANGED <<cancelled, reconnected>>
      BY <1>0, <1>6 DEF GiveUp, Places
    <2>3. ticket[c] = Nil
      BY <1>0, <2>2 DEF Holding
    <2>4. Holding' /\ Budget' /\ Places'
      BY <1>0, <2>2, <2>3, MoveKeepsCall DEF Places
    <2> QED BY <2>1, <2>4 DEF IInv
  <1>7. ASSUME NEW c \in Calls, Reconnect(c) PROVE IInv'
    <2>1. /\ at[c] = "sending" /\ Finish(c, "failure") /\ Move(c, "acquiring")
          /\ refusals' = refusals /\ reconnected' = reconnected \cup {c}
          /\ UNCHANGED <<timed, cancelled>>
      BY <1>7 DEF Reconnect
    <2>2. ticket[c] # Nil
      BY <1>0, <2>1 DEF Holding
    <2>3. Core' /\ ticket' = [ticket EXCEPT ![c] = Nil]
      BY <1>0, <2>1, <2>2, FinishKeepsCore DEF Outcomes
    <2>4. ticket'[c] = Nil /\ \A d \in Calls : d # c => ticket'[d] = ticket[d]
      BY <1>0, <2>3 DEF Core, Types
    <2>5. Holding' /\ Budget' /\ Places'
      BY <1>0, <2>1, <2>4, MoveKeepsCall DEF Places
    <2> QED BY <2>3, <2>5 DEF IInv
  <1>8. ASSUME NEW c \in Calls, Refused(c) PROVE IInv'
    <2> DEFINE again == c \in Persistent /\ c \notin cancelled
               place == IF again /\ refusals[c] + 1 < Attempts THEN "acquiring" ELSE "ended"
    <2>1. /\ at[c] = "sending" /\ Finish(c, "unavailable")
          /\ Move(c, place) /\ reconnected' = reconnected \ {c}
          /\ refusals' = IF again THEN [refusals EXCEPT ![c] = @ + 1] ELSE refusals
          /\ UNCHANGED <<timed, cancelled>>
      BY <1>8 DEF Refused
    <2>2. ticket[c] # Nil
      BY <1>0, <2>1 DEF Holding
    <2>3. Core' /\ ticket' = [ticket EXCEPT ![c] = Nil]
      BY <1>0, <2>1, <2>2, FinishKeepsCore DEF Outcomes
    <2>4. ticket'[c] = Nil /\ \A d \in Calls : d # c => ticket'[d] = ticket[d]
      BY <1>0, <2>3 DEF Core, Types
    <2>5. place \in {"acquiring", "ended"}
      OBVIOUS
    <2>6. /\ at' \in [Calls -> {"idle", "acquiring", "waiting", "sending", "streaming", "ended"}]
          /\ at'[c] = place /\ \A d \in Calls : d # c => at'[d] = at[d]
      BY <1>0, <2>1, <2>5 DEF Places, Move
    <2>7. refusals[c] \in Nat /\ refusals[c] < Attempts
      BY <1>0, <2>1 DEF Places, Budget
    <2>8. /\ refusals' \in [Calls -> 0..Attempts]
          /\ \A d \in Calls : d # c => refusals'[d] = refusals[d]
      BY <1>0, <2>1, <2>7, AttemptsAssumption DEF Places
    <2>9. at'[c] # "ended" => refusals'[c] < Attempts
      BY <1>0, <2>1, <2>6, <2>7, AttemptsAssumption DEF Places
    <2> HIDE DEF place, again
    <2>10. Holding'
      BY <1>0, <2>4, <2>5, <2>6 DEF Holding
    <2>11. Budget'
      BY <1>0, <2>6, <2>8, <2>9 DEF Budget
    <2>12. Places'
      BY <1>0, <2>1, <2>6, <2>8 DEF Places
    <2> QED BY <2>3, <2>10, <2>11, <2>12 DEF IInv
  <1>9. ASSUME NEW c \in Calls, Establish(c) PROVE IInv'
    <2>1. Core'
      BY <1>0, <1>9, StillCore DEF Establish, Core, Types
    <2>2. /\ at[c] = "sending" /\ Move(c, "streaming") /\ ticket' = ticket
          /\ refusals' = refusals /\ UNCHANGED <<timed, cancelled, reconnected>>
      BY <1>9 DEF Establish
    <2>3. ticket[c] # Nil
      BY <1>0, <2>2 DEF Holding
    <2>4. Holding' /\ Budget' /\ Places'
      BY <1>0, <2>2, <2>3, MoveKeepsCall DEF Places
    <2> QED BY <2>1, <2>4 DEF IInv
  <1>10. ASSUME NEW c \in Calls, Progress(c) PROVE IInv'
    <2>1. Core' /\ ticket' = ticket
      BY <1>0, <1>10, ProgressKeepsCore
    <2>2. Places' /\ Holding' /\ Budget'
      BY <1>0, <1>10, <2>1 DEF Progress, Places, Holding, Budget
    <2> QED BY <2>1, <2>2 DEF IInv
  <1>11. ASSUME NEW c \in Calls, NEW outcome \in {"failure", "success", "canceled"}, End(c, outcome)
         PROVE  IInv'
    <2>1. /\ at[c] \in {"sending", "streaming"} /\ Finish(c, outcome) /\ Move(c, "ended")
          /\ refusals' = refusals /\ UNCHANGED <<timed, cancelled, reconnected>>
      BY <1>11 DEF End
    <2>2. ticket[c] # Nil
      BY <1>0, <2>1 DEF Holding
    <2>3. Core' /\ ticket' = [ticket EXCEPT ![c] = Nil]
      BY <1>0, <2>1, <2>2, FinishKeepsCore DEF Outcomes
    <2>4. ticket'[c] = Nil /\ \A d \in Calls : d # c => ticket'[d] = ticket[d]
      BY <1>0, <2>3 DEF Core, Types
    <2>5. Holding' /\ Budget' /\ Places'
      BY <1>0, <2>1, <2>4, MoveKeepsCall DEF Places
    <2> QED BY <2>3, <2>5 DEF IInv
  <1>12. CASE Elapse
    <2>1. Core'
      BY <1>0, <1>12, ElapseKeepsCore
    <2>2. Places' /\ Holding' /\ Budget'
      BY <1>0, <1>12 DEF Elapse, Places, Holding, Budget
    <2> QED BY <2>1, <2>2 DEF IInv
  <1>13. CASE UNCHANGED vars
    <2>1. Core'
      BY <1>0, <1>13, StillCore DEF vars, Core, Types
    <2>2. Places' /\ Holding' /\ Budget'
      BY <1>0, <1>13 DEF vars, Places, Holding, Budget
    <2> QED BY <2>1, <2>2 DEF IInv
  <1> QED BY <1>1, <1>2, <1>3, <1>4, <1>5, <1>6, <1>7, <1>8, <1>9, <1>10, <1>11, <1>12, <1>13
          DEF Next, Ends

LEMMA Invariance == Spec => []IInv
  BY Initialised, Inductive, PTL DEF Spec

-----------------------------------------------------------------------------

\* Every variable keeps its type; a permit is held exactly while a send is under way.
THEOREM TypeCorrect == Spec => []TypeOK
  <1>1. IInv => TypeOK
    BY DEF IInv, Core, Types, Gates, Permits, Places, Holding, TypeOK
  <1> QED BY <1>1, Invariance, PTL

\* An outage has one probe at a time, and the gate knows whether it has.
THEOREM OneProbe == Spec => []SingleProbe
  <1>1. IInv => SingleProbe
    BY DEF IInv, Core
  <1> QED BY <1>1, Invariance, PTL

\* Nothing is admitted during a cooldown (acquire).
THEOREM NothingSentInCooldown == Spec => CooldownQuiet
  <1> DEFINE Quiet == \A c \in Calls : ticket[c] = Nil /\ ticket'[c] # Nil => ~gate.cooling
  <1>1. ASSUME IInv, [Next]_vars PROVE Quiet
    <2> SUFFICES ASSUME NEW c \in Calls, ticket[c] = Nil, ticket'[c] # Nil
                 PROVE  ~gate.cooling
      OBVIOUS
    <2>1. ASSUME NEW d \in Calls, Admit(d) PROVE ~gate.cooling
      <3>1. ticket[d] = Nil
        BY <1>1, <2>1 DEF IInv, Holding, Admit
      <3> QED BY <1>1, <2>1, <3>1, AdmitKeepsCore DEF IInv
    <2>2. ASSUME NEW d \in Calls, NEW outcome \in Outcomes, Finish(d, outcome) PROVE FALSE
      BY <1>1, <2>2 DEF Finish, IInv, Core, Types
    <2>3. ASSUME ticket' = ticket PROVE FALSE
      BY <1>1, <2>3
    <2> QED BY <1>1, <2>1, <2>2, <2>3
            DEF Next, Ends, vars, Start, Wait, Wake, Cancel, GiveUp, Reconnect, Refused, Establish,
                Progress, End, Elapse, Outcomes
  <1> QED BY <1>1, Invariance, PTL DEF Spec, CooldownQuiet

\* The streak is moved by the current probe alone, or by the first failure of a healthy
\* generation (finish).
THEOREM StreakHasOneOwner == Spec => StreakOwned
  <1> DEFINE Owned == gate'.failures # gate.failures =>
                        \E c \in Calls : /\ ticket[c] # Nil /\ ticket'[c] = Nil
                                         /\ ticket[c].generation = gate.generation
                                         /\ (gate.failures > 0 => c \in Probes)
  <1>1. ASSUME IInv, [Next]_vars PROVE Owned
    <2>1. ASSUME NEW d \in Calls, NEW outcome \in Outcomes, Finish(d, outcome),
                 at[d] \in {"sending", "streaming"}
          PROVE  Owned
      <3>1. ticket[d] # Nil /\ ticket'[d] = Nil
        BY <1>1, <2>1 DEF IInv, Holding, Finish, Core, Types
      <3>2. CASE Decides(ticket[d], outcome)
        <4>1. ticket[d].generation = gate.generation
          BY <3>2 DEF Decides, HasAuthority
        <4>2. gate.failures > 0 => d \in Probes
          BY <1>1, <3>1, <3>2 DEF Decides, HasAuthority, Probes, IInv, Core, Types, Gates
        <4> QED BY <3>1, <4>1, <4>2
      <3>3. CASE ~Decides(ticket[d], outcome)
        BY <2>1, <3>3 DEF Finish
      <3> QED BY <3>2, <3>3
    <2>2. ASSUME gate'.failures = gate.failures PROVE Owned
      BY <2>2
    <2>3. ASSUME NEW d \in Calls, Admit(d) \/ Progress(d) PROVE gate'.failures = gate.failures
      BY <1>1, <2>3 DEF Admit, Progress, IInv, Core, Types, Gates
    <2>4. ASSUME Elapse PROVE gate'.failures = gate.failures
      BY <1>1, <2>4 DEF Elapse, IInv, Core, Types, Gates
    <2> HIDE DEF Owned
    <2> QED BY <1>1, <2>1, <2>2, <2>3, <2>4
            DEF Next, Ends, vars, Start, Wait, Wake, Cancel, GiveUp, Reconnect, Refused, Establish,
                End, Outcomes
  <1> QED BY <1>1, Invariance, PTL DEF Spec, StreakOwned

-----------------------------------------------------------------------------
\* The gate implements the breaker.

\* A permit that comes back is a decision of the breaker when it has authority, and
\* goes unheard when it has none (finish).
LEMMA BreakerFinish ==
    ASSUME Core, NEW c \in Calls, ticket[c] # Nil, NEW outcome \in Outcomes, Finish(c, outcome)
    PROVE  Breaker!Next
  <1>0. Core' /\ ticket' = [ticket EXCEPT ![c] = Nil]
    BY FinishKeepsCore
  <1>1. /\ ticket'[c] = Nil
        /\ \A d \in Calls : d # c => ticket'[d] = ticket[d]
    BY <1>0 DEF Core, Types
  <1>2. Sent' = Sent \ {c} /\ c \in Sent
    BY <1>1 DEF Sent
  <1>3. CASE Decides(ticket[c], outcome)
    <2>1. gate' = After(outcome) /\ gate \in Gates
      BY <1>3 DEF Finish, Core, Types
    <2>2. /\ gate'.probeReady = FALSE /\ gate'.generation = gate.generation + 1
          /\ gate'.cooling = (outcome # "success")
      BY <2>1, AfterIsGate
    <2>3. Current' = {}
      <3> SUFFICES ASSUME NEW d \in Calls, ticket'[d] # Nil, ticket'[d].generation = gate'.generation
                   PROVE  FALSE
        BY DEF Current, Sent
      <3>1. ticket'[d] = ticket[d] /\ ticket[d] # Nil
        BY <1>1
      <3>2. ticket[d].generation <= gate.generation /\ gate.generation \in Nat
        BY <2>1, <3>1 DEF Core, NoneAhead, Gates
      <3> QED
        BY <2>2, <3>1, <3>2
    <2>4. Probes' = {}
      BY <2>3 DEF Probes, Current, Sent
    <2>5. c \in Current /\ (gate.failures > 0 => c \in Probes)
      BY <1>3, <2>1 DEF Decides, HasAuthority, Current, Sent, Probes, Gates
    <2>6. Breaker!Decide(c)
      BY <1>2, <2>2, <2>3, <2>4, <2>5 DEF Breaker!Decide
    <2>7. CASE outcome \in {"failure", "unavailable"}
      <3>1. gate'.failures = gate.failures + 1 /\ gate'.cooling = TRUE
        BY <2>1, <2>2, <2>7, AfterIsGate
      <3>2. gate'.delay = NextDelay
        BY <2>1, <2>7 DEF After
      <3>3. NextDelay = Breaker!Longer
        BY <2>1, CooldownAssumption DEF NextDelay, Breaker!Longer, Gates
      <3> QED
        BY <2>5, <2>6, <3>1, <3>2, <3>3 DEF Breaker!Fail, Breaker!Next
    <2>8. CASE outcome \in {"success", "canceled"}
      <3>1. c \in Probes
        BY <1>3, <2>8 DEF Decides, HasAuthority, Probes
      <3>2. CASE outcome = "success"
        <4>1. gate'.failures = 0 /\ gate'.delay = 0 /\ gate'.cooling = FALSE
          BY <2>1, <3>2 DEF After
        <4> QED
          BY <2>6, <3>1, <4>1 DEF Breaker!Recover, Breaker!Next
      <3>3. CASE outcome = "canceled"
        <4>1. gate'.failures = gate.failures /\ gate'.delay = gate.delay /\ gate'.cooling = TRUE
          BY <2>1, <3>3 DEF After
        <4> QED
          BY <2>6, <3>1, <4>1 DEF Breaker!Withdraw, Breaker!Next
      <3> QED
        BY <2>8, <3>2, <3>3
    <2> QED
      BY <2>7, <2>8 DEF Outcomes
  <1>4. CASE ~Decides(ticket[c], outcome)
    <2>1. gate' = gate
      BY <1>4 DEF Finish
    <2>2. c \notin Probes
      BY <1>4 DEF Probes, Decides, HasAuthority
    <2>3. Current' = Current \ {c} /\ Probes' = Probes
      BY <1>1, <2>1, <2>2 DEF Current, Sent, Probes
    <2>4. Breaker!Ignore(c)
      BY <1>2, <2>1, <2>2, <2>3 DEF Breaker!Ignore
    <2> QED
      BY <2>4 DEF Breaker!Next
  <1> QED
    BY <1>3, <1>4

\* An admission passes, or is the trial: then no other has been admitted for it (acquire).
LEMMA BreakerAdmit ==
    ASSUME Core, NEW c \in Calls, ticket[c] = Nil, Admit(c)
    PROVE  Breaker!Next
  <1> DEFINE t == [generation |-> gate.generation, probe |-> NextProbe]
  <1>1. /\ ticket' = [ticket EXCEPT ![c] = t]
        /\ gate' = [gate EXCEPT !.probe = gate.probe \/ NextProbe]
        /\ Open /\ gate \in Gates
    BY DEF Admit, Core, Types
  <1>2. t \in Permits /\ t.generation = gate.generation /\ t.probe = NextProbe
    BY <1>1 DEF Gates, Permits, NextProbe
  <1>3. t # Nil
    BY <1>2, NilAssumption DEF Permits
  <1>4. /\ gate'.failures = gate.failures /\ gate'.cooling = gate.cooling
        /\ gate'.probeReady = gate.probeReady /\ gate'.generation = gate.generation
        /\ gate'.delay = gate.delay
    BY <1>1 DEF Gates
  <1> HIDE DEF t
  <1>5. ticket'[c] = t /\ \A d \in Calls : d # c => ticket'[d] = ticket[d]
    BY <1>1 DEF Core, Types
  <1>6. c \notin Sent /\ Sent' = Sent \cup {c}
    BY <1>3, <1>5 DEF Sent
  <1>7. Current' = Current \cup {c}
    BY <1>2, <1>3, <1>4, <1>5 DEF Current, Sent
  <1>8. Probes' = IF NextProbe THEN Probes \cup {c} ELSE Probes
    BY <1>2, <1>3, <1>4, <1>5 DEF Probes
  <1>9. CASE NextProbe
    <2>1. gate.failures > 0 /\ ~gate.cooling /\ Probes = {}
      BY <1>1, <1>9 DEF Open, NextProbe, Core, SingleProbe, Gates
    <2>2. Breaker!Try(c)
      BY <1>4, <1>6, <1>7, <1>8, <1>9, <2>1 DEF Breaker!Try
    <2> QED
      BY <2>2 DEF Breaker!Next
  <1>10. CASE ~NextProbe
    <2>1. gate.failures = 0 \/ gate.probeReady
      BY <1>1, <1>10 DEF NextProbe, Gates
    <2>2. Breaker!Pass(c)
      BY <1>4, <1>6, <1>7, <1>8, <1>10, <2>1 DEF Breaker!Pass
    <2> QED
      BY <2>2 DEF Breaker!Next
  <1> QED
    BY <1>9, <1>10

\* To its callers the gate is the breaker of module CircuitBreaker, for any number of
\* calls and any cooldowns: late, parallel and cancelled requests included, one trial
\* ends an outage, nothing else moves the streak, and the cooldown doubles up to its
\* bound, which the code computes without overflow (acquire, progress, finish).
THEOREM BreakerRefined == Spec => ImplementsBreaker
  <1>1. Init => Breaker!Init
    <2> SUFFICES ASSUME Init PROVE Breaker!Init
      OBVIOUS
    <2>1. Sent = {} /\ Current = {} /\ Probes = {}
      BY DEF Init, Sent, Current, Probes
    <2> QED
      BY <2>1 DEF Init, Healthy, Breaker!Init
  <1>2. IInv /\ [Next]_vars => [Breaker!Next]_(Breaker!vars)
    <2> SUFFICES ASSUME IInv, [Next]_vars
                 PROVE  Breaker!Next \/ UNCHANGED Breaker!vars
      OBVIOUS
    <2>0. Core /\ Holding
      BY DEF IInv
    <2>1. ASSUME UNCHANGED <<gate, ticket>>
          PROVE  UNCHANGED Breaker!vars
      BY <2>1 DEF Breaker!vars, Sent, Current, Probes
    <2>2. ASSUME NEW c \in Calls, Admit(c)
          PROVE  Breaker!Next
      BY <2>0, <2>2, BreakerAdmit DEF Holding, Admit
    <2>3. ASSUME NEW c \in Calls, at[c] \in {"sending", "streaming"},
                 NEW outcome \in Outcomes, Finish(c, outcome)
          PROVE  Breaker!Next
      BY <2>0, <2>3, BreakerFinish DEF Holding
    <2>4. ASSUME NEW c \in Calls, Progress(c)
          PROVE  Breaker!Next
      <3>1. /\ gate' = [gate EXCEPT !.probeReady = TRUE] /\ gate \in Gates
            /\ gate.probe /\ ~gate.probeReady /\ ticket' = ticket
        BY <2>0, <2>4 DEF Progress, Core, Types
      <3>2. /\ gate'.failures = gate.failures /\ gate'.cooling = gate.cooling
            /\ gate'.generation = gate.generation /\ gate'.delay = gate.delay
            /\ gate'.probeReady = TRUE
        BY <3>1 DEF Gates
      <3>3. UNCHANGED <<Sent, Current, Probes>> /\ Probes # {}
        BY <2>0, <3>1, <3>2 DEF Sent, Current, Probes, Core, SingleProbe
      <3>4. Breaker!Relieve
        BY <3>1, <3>2, <3>3 DEF Breaker!Relieve
      <3> QED
        BY <3>4 DEF Breaker!Next
    <2>5. ASSUME Elapse
          PROVE  Breaker!Next
      <3>1. /\ gate' = [gate EXCEPT !.cooling = FALSE] /\ gate \in Gates
            /\ gate.cooling /\ ticket' = ticket
        BY <2>0, <2>5 DEF Elapse, Core, Types
      <3>2. /\ gate'.failures = gate.failures /\ gate'.cooling = FALSE
            /\ gate'.generation = gate.generation /\ gate'.delay = gate.delay
            /\ gate'.probeReady = gate.probeReady
        BY <3>1 DEF Gates
      <3>3. UNCHANGED <<Sent, Current, Probes>>
        BY <3>1, <3>2 DEF Sent, Current, Probes
      <3>4. Breaker!Rested
        BY <3>1, <3>2, <3>3 DEF Breaker!Rested
      <3> QED
        BY <3>4 DEF Breaker!Next
    <2> QED
      BY <2>1, <2>2, <2>3, <2>4, <2>5
         DEF Next, Ends, vars, Start, Wait, Wake, Cancel, GiveUp, Reconnect, Refused, Establish,
             End, Outcomes
  <1> QED
    BY <1>1, <1>2, Invariance, PTL DEF Spec, ImplementsBreaker, Breaker!Spec

=============================================================================
