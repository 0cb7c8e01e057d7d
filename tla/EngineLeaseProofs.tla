------------------------- MODULE EngineLeaseProofs -------------------------
(***************************************************************************)
(* Any number of shells, of any builds, and of engine processes.             *)
(***************************************************************************)
EXTENDS EngineLease, TLAPS

Locked == {"locked", "open", "serve", "ready", "down", "closed", "removed"}

\* A process past Acquire has the lock until it ends.
LockHeld == \A p \in Engines : proc[p] \in Locked => lock = p

\* A shell between the two halves of Busy has the lock.
ProbeHolds == \A s \in Shells : at[s] \in {"free", "freeBoot"} => lock = s

\* A shell that acts on a record, or on a child, has one.
ActsOnOne ==
    \A s \in Shells :
        /\ at[s] \in {"ask", "askBoot", "handoff", "kill", "killing", "reserve", "attach", "depart"}
              => rec[s] \in Engines
        /\ at[s] \in {"boot", "askBoot", "probeBoot"} => child[s] \in Engines

IInv == TypeOK /\ LockHeld /\ ProbeHolds /\ ActsOnOne

LEMMA InitInv == Init => IInv
BY ShellAssumption, BoundAssumption
   DEF Init, IInv, TypeOK, LockHeld, ProbeHolds, ActsOnOne, Owners, Stages, Places, Locked

\* Step, Ended and Go by their effect.
LEMMA StepOne ==
    ASSUME TypeOK, NEW p \in Engines, NEW l \in Stages, Step(p, l)
    PROVE  /\ proc' \in [Engines -> Stages]
           /\ proc'[p] = l
           /\ \A q \in Engines : q # p => proc'[q] = proc[q]
BY DEF TypeOK, Step

LEMMA GoOne ==
    ASSUME TypeOK, NEW s \in Shells, NEW l \in Places, Go(s, l)
    PROVE  /\ at' \in [Shells -> Places]
           /\ at'[s] = l
           /\ \A r \in Shells : r # s => at'[r] = at[r]
BY DEF TypeOK, Go

LEMMA EndedOne ==
    ASSUME TypeOK, NEW p \in Engines, Ended(p)
    PROVE  /\ proc' \in [Engines -> Stages]
           /\ proc'[p] = "dead"
           /\ \A q \in Engines : q # p => proc'[q] = proc[q]
           /\ build' \in [Engines -> {BuildOf[s] : s \in Shells} \cup {Nil}]
           /\ quiet' \subseteq quiet /\ stopping' \subseteq stopping /\ term' \subseteq term
<1>1. "dead" \in Stages
  BY DEF Stages
<1>2. build' \in [Engines -> {BuildOf[s] : s \in Shells} \cup {Nil}]
  BY DEF TypeOK, Ended
<1> QED
  BY <1>1, <1>2, StepOne DEF Ended

\* The kernel's part in the end of a process.
LEMMA DieOne ==
    ASSUME IInv, NEW p \in Engines, Die(p)
    PROVE  /\ Alive(p)
           /\ proc' \in [Engines -> Stages]
           /\ proc'[p] = "dead"
           /\ \A q \in Engines : q # p => proc'[q] = proc[q]
           /\ build' \in [Engines -> {BuildOf[s] : s \in Shells} \cup {Nil}]
           /\ quiet' \subseteq quiet /\ stopping' \subseteq stopping /\ term' \subseteq term
           /\ held' \in [Shells -> Engines \cup {Nil}]
           /\ \A s \in Shells : held'[s] \in {held[s], Nil}
           /\ file' = file
           /\ lock' \in {lock, Nil}
           /\ LockHeld'
           /\ \A s \in Shells : lock = s => lock' = s
<1>1. Ended(p) /\ Alive(p) /\ file' = file /\ lock' = (IF lock = p THEN Nil ELSE lock)
  BY DEF Die
<1>2. held' \in [Shells -> Engines \cup {Nil}] /\ \A s \in Shells : held'[s] \in {held[s], Nil}
  BY DEF Die, Dropped, IInv, TypeOK
<1>3. LockHeld'
  BY <1>1, EndedOne DEF IInv, LockHeld, Locked
<1>4. \A s \in Shells : lock = s => lock' = s
  BY <1>1, ShellAssumption DEF Engines
<1> QED
  BY <1>1, <1>2, <1>3, <1>4, EndedOne DEF IInv

-----------------------------------------------------------------------------
\* The inductive step.

\* A shell goes on, alone: what it acts on at the new place is known.
LEMMA ShellMoves ==
    ASSUME IInv, NEW s \in Shells, NEW l \in Places, Go(s, l),
           UNCHANGED <<lock, file, EngineVars>>,
           l \in {"free", "freeBoot"} => lock = s,
           held' \in [Shells -> Engines \cup {Nil}],
           faults' \in 0..MaxFault,
           rec' \in [Shells -> Engines \cup {Nil}], \A r \in Shells : r # s => rec'[r] = rec[r],
           child' \in [Shells -> Engines \cup {Nil}], \A r \in Shells : r # s => child'[r] = child[r],
           l \in {"ask", "askBoot", "handoff", "kill", "killing", "reserve", "attach", "depart"}
               => rec'[s] \in Engines,
           l \in {"boot", "askBoot", "probeBoot"} => child'[s] \in Engines
    PROVE  IInv'
<1>1. /\ at' \in [Shells -> Places] /\ at'[s] = l
      /\ \A r \in Shells : r # s => at'[r] = at[r]
  BY GoOne DEF IInv
<1>2. TypeOK'
  BY <1>1 DEF IInv, TypeOK, EngineVars
<1>3. LockHeld'
  BY DEF IInv, LockHeld, EngineVars
<1>4. ProbeHolds'
  BY <1>1 DEF IInv, ProbeHolds
<1>5. ActsOnOne'
  BY <1>1 DEF IInv, ActsOnOne
<1> QED
  BY <1>2, <1>3, <1>4, <1>5 DEF IInv

\* An engine process goes on, alone.
LEMMA EngineMoves ==
    ASSUME IInv, NEW p \in Engines,
           proc' \in [Engines -> Stages], \A q \in Engines : q # p => proc'[q] = proc[q],
           build' \in [Engines -> {BuildOf[s] : s \in Shells} \cup {Nil}],
           quiet' \subseteq Engines, stopping' \subseteq Engines, term' \subseteq Engines,
           file' \in Engines \cup {Nil},
           held' \in [Shells -> Engines \cup {Nil}],
           faults' \in 0..MaxFault,
           UNCHANGED <<at, rec, child>>,
           proc'[p] \in Locked => lock' = p,
           lock' = lock \/ (lock = Nil /\ lock' = p) \/ (lock = p /\ lock' = Nil)
    PROVE  IInv'
<1>1. TypeOK'
  BY DEF IInv, TypeOK, Owners
<1>2. LockHeld'
  BY ShellAssumption DEF IInv, LockHeld, Engines
<1>3. ProbeHolds'
  BY ShellAssumption DEF IInv, ProbeHolds, Engines
<1>4. ActsOnOne'
  BY DEF IInv, ActsOnOne
<1> QED
  BY <1>1, <1>2, <1>3, <1>4 DEF IInv

LEMMA EngineSteps ==
    ASSUME IInv, NEW p \in Engines, Engine(p) \/ Watcher(p) \/ Crash(p) \/ Interrupt(p)
    PROVE  IInv'
<1> USE DEF IInv
<1>0. /\ file \in Engines \cup {Nil} /\ quiet \subseteq Engines /\ stopping \subseteq Engines
      /\ term \subseteq Engines /\ held \in [Shells -> Engines \cup {Nil}] /\ faults \in 0..MaxFault
      /\ build \in [Engines -> {BuildOf[s] : s \in Shells} \cup {Nil}]
      /\ proc \in [Engines -> Stages]
      /\ proc[p] \in Locked => lock = p
      /\ faults < MaxFault => faults + 1 \in 0..MaxFault
  BY BoundAssumption DEF TypeOK, LockHeld
<1>1. CASE Acquire(p)
  <2>1. CASE lock = Nil /\ Step(p, "locked")
    BY <1>0, <1>1, <2>1, StepOne, EngineMoves DEF Acquire, ShellVars, Stages
  <2>2. CASE Ended(p) /\ lock' = lock
    BY <1>0, <1>1, <2>2, EndedOne, EngineMoves DEF Acquire, ShellVars, Locked
  <2> QED
    BY <1>1, <2>1, <2>2 DEF Acquire
<1>2. CASE OpenDatabase(p)
  <2>1. PICK l \in {"open", "closed"} : Step(p, l)
    BY <1>2 DEF OpenDatabase
  <2> QED
    BY <1>0, <1>2, <2>1, StepOne, EngineMoves DEF OpenDatabase, ShellVars, Stages, Locked
<1>3. CASE Publish(p)
  <2>1. PICK l \in {"serve", "ready"} : Step(p, l)
    BY <1>3 DEF Publish
  <2> QED
    BY <1>0, <1>3, <2>1, StepOne, EngineMoves DEF Publish, ShellVars, Stages, Locked
<1>4. CASE Down(p)
  <2>1. held' \in [Shells -> Engines \cup {Nil}]
    BY <1>0, <1>4 DEF Down, Dropped
  <2> QED
    BY <1>0, <1>4, <2>1, StepOne, EngineMoves DEF Down, Answers, Stages, Locked
<1>5. CASE CloseDatabase(p)
  BY <1>0, <1>5, StepOne, EngineMoves DEF CloseDatabase, ShellVars, Stages, Locked
<1>6. CASE Release(p)
  <2>1. CASE proc[p] = "closed"
    BY <1>0, <1>6, <2>1, StepOne, EngineMoves DEF Release, ShellVars, Stages, Locked
  <2>2. CASE proc[p] = "removed"
    BY <1>0, <1>6, <2>2, EndedOne, EngineMoves DEF Release, ShellVars, Locked
  <2> QED
    BY <1>6, <2>1, <2>2 DEF Release
<1>7. CASE Watcher(p)
  BY <1>0, <1>7, EngineMoves DEF Watcher, Sample, TryIdleShutdown, ShellVars
<1>8. CASE Crash(p)
  <2>1. Die(p) /\ UNCHANGED <<at, rec, child>> /\ faults' \in 0..MaxFault
    BY <1>0, <1>8 DEF Crash
  <2>2. lock' = (IF lock = p THEN Nil ELSE lock)
    BY <2>1 DEF Die
  <2> QED
    BY <1>0, <2>1, <2>2, DieOne, EngineMoves DEF Locked
<1>9. CASE Interrupt(p)
  BY <1>0, <1>9, EngineMoves DEF Interrupt, ShellVars
<1> QED
  BY <1>1, <1>2, <1>3, <1>4, <1>5, <1>6, <1>7, <1>8, <1>9 DEF Engine, Watcher

\* A shell goes on and an engine process ends with it.
LEMMA ShellKills ==
    ASSUME IInv, NEW s \in Shells, NEW p \in Engines, Die(p),
           NEW l \in Places, Go(s, l), l \in {"look", "error", "killing"},
           UNCHANGED rec, l = "killing" => rec[s] \in Engines,
           child' \in [Shells -> Engines \cup {Nil}], \A r \in Shells : r # s => child'[r] = child[r],
           faults' \in 0..MaxFault
    PROVE  IInv'
<1>1. /\ at' \in [Shells -> Places] /\ at'[s] = l
      /\ \A r \in Shells : r # s => at'[r] = at[r]
  BY GoOne DEF IInv
<1>2. TypeOK'
  BY <1>1, DieOne DEF IInv, TypeOK, Owners
<1>3. LockHeld'
  BY DieOne
<1>4. ProbeHolds'
  BY <1>1, DieOne DEF IInv, ProbeHolds
<1>5. ActsOnOne'
  BY <1>1 DEF IInv, ActsOnOne
<1> QED
  BY <1>2, <1>3, <1>4, <1>5 DEF IInv

\* The lock a probe takes for an instant is nobody's before and after.
LEMMA ShellLocks ==
    ASSUME IInv, NEW s \in Shells, NEW l \in Places, Go(s, l),
           UNCHANGED <<file, EngineVars, rec, held, faults>>,
           child' = child,
           \/ lock = Nil /\ lock' = s /\ l \in {"free", "freeBoot"}
           \/ lock = s /\ lock' = Nil /\ l \in {"launch", "error"}
    PROVE  IInv'
<1>1. /\ at' \in [Shells -> Places] /\ at'[s] = l
      /\ \A r \in Shells : r # s => at'[r] = at[r]
  BY GoOne DEF IInv
<1>2. TypeOK'
  BY <1>1 DEF IInv, TypeOK, EngineVars, Owners
<1>3. LockHeld'
  BY ShellAssumption DEF IInv, LockHeld, EngineVars, Engines
<1>4. ProbeHolds'
  BY <1>1, ShellAssumption DEF IInv, ProbeHolds
<1>5. ActsOnOne'
  BY <1>1 DEF IInv, ActsOnOne
<1> QED
  BY <1>2, <1>3, <1>4, <1>5 DEF IInv

LEMMA ShellSteps ==
    ASSUME IInv, NEW s \in Shells, Shell(s) \/ Open(s) \/ Leave(s) \/ GiveUp(s)
    PROVE  IInv'
<1> USE DEF IInv
<1>0. /\ file \in Engines \cup {Nil} /\ lock \in Owners \cup {Nil} /\ faults \in 0..MaxFault
      /\ rec \in [Shells -> Engines \cup {Nil}] /\ child \in [Shells -> Engines \cup {Nil}]
      /\ held \in [Shells -> Engines \cup {Nil}]
      /\ faults < MaxFault => faults + 1 \in 0..MaxFault
      /\ at[s] \in {"ask", "askBoot", "handoff", "kill", "killing", "reserve", "attach", "depart"}
              => rec[s] \in Engines
      /\ at[s] \in {"boot", "askBoot", "probeBoot"} => child[s] \in Engines
      /\ at[s] \in {"free", "freeBoot"} => lock = s
      /\ Nil \notin Engines
  BY BoundAssumption, ShellAssumption DEF TypeOK, ActsOnOne, ProbeHolds, Engines
<1>1. CASE Open(s)
  BY <1>0, <1>1, ShellMoves DEF Open, Places
<1>2. CASE Look(s)
  <2>1. PICK l \in Places : /\ Go(s, l)
                            /\ l \in {"ask", "askBoot"} => file \in Engines /\ rec'[s] = file
                            /\ l \in {"boot", "askBoot", "probeBoot"} => child[s] \in Engines
                            /\ l \in {"ask", "probe", "askBoot", "boot", "probeBoot"}
    BY <1>0, <1>2 DEF Look, Places
  <2>2. rec' \in [Shells -> Engines \cup {Nil}] /\ \A r \in Shells : r # s => rec'[r] = rec[r]
    BY <1>0, <1>2 DEF Look
  <2> QED
    BY <1>0, <1>2, <2>1, <2>2, ShellMoves DEF Look
<1>3. CASE Ask(s)
  <2>1. PICK l \in {"error", "reserve", "handoff"} : Go(s, l)
    BY <1>3 DEF Ask
  <2> QED
    BY <1>0, <1>3, <2>1, ShellMoves DEF Ask, Places
<1>4. CASE Probe(s)
  <2>1. CASE lock = Nil
    <3>1. PICK l \in {"free", "freeBoot"} : Go(s, l) /\ lock' = s
      BY <1>4, <2>1 DEF Probe
    <3> QED
      BY <1>4, <2>1, <3>1, ShellLocks DEF Probe, Places
  <2>2. CASE lock # Nil
    <3>1. PICK l \in {"look", "boot"} : Go(s, l) /\ lock' = lock /\ (l = "boot" => at[s] = "probeBoot")
      BY <1>4, <2>2 DEF Probe
    <3> QED
      BY <1>0, <1>4, <3>1, ShellMoves DEF Probe, Places
  <2> QED
    BY <2>1, <2>2
<1>5. CASE ProbeEnd(s)
  <2>1. PICK l \in {"launch", "error"} : Go(s, l)
    BY <1>5 DEF ProbeEnd
  <2> QED
    BY <1>0, <1>5, <2>1, ShellLocks DEF ProbeEnd, Places
<1>6. CASE Launch(s)
  <2>1. CASE Go(s, "error") /\ UNCHANGED <<proc, build, child>>
    BY <1>0, <1>6, <2>1, ShellMoves DEF Launch, Places, EngineVars
  <2>2. ASSUME NEW p \in Engines, proc[p] = "unborn", Step(p, "born"),
               build' = [build EXCEPT ![p] = BuildOf[s]], child' = [child EXCEPT ![s] = p], Go(s, "boot")
        PROVE  IInv'
    <3>1. /\ proc' \in [Engines -> Stages] /\ proc'[p] = "born"
          /\ \A q \in Engines : q # p => proc'[q] = proc[q]
      BY <2>2, StepOne DEF Stages
    <3>2. at' \in [Shells -> Places] /\ at'[s] = "boot" /\ \A r \in Shells : r # s => at'[r] = at[r]
      BY <2>2, GoOne DEF Places
    <3>3. build' \in [Engines -> {BuildOf[r] : r \in Shells} \cup {Nil}]
      BY <2>2 DEF TypeOK
    <3>4. TypeOK'
      BY <1>0, <1>6, <2>2, <3>1, <3>2, <3>3 DEF Launch, TypeOK
    <3>5. LockHeld'
      BY <1>6, <3>1 DEF Launch, LockHeld, Locked
    <3>6. ProbeHolds'
      BY <1>6, <3>2 DEF Launch, ProbeHolds
    <3>7. ActsOnOne'
      BY <1>0, <1>6, <2>2, <3>2 DEF Launch, ActsOnOne
    <3> QED
      BY <3>4, <3>5, <3>6, <3>7
  <2> QED
    BY <1>6, <2>1, <2>2 DEF Launch
<1>7. CASE AskBoot(s)
  <2>1. child' \in [Shells -> Engines \cup {Nil}] /\ \A r \in Shells : r # s => child'[r] = child[r]
    BY <1>0, <1>7 DEF AskBoot
  <2>2. PICK l \in {"look", "boot", "error"} :
             /\ Go(s, l)
             /\ l = "boot" => child'[s] = child[s]
             /\ \/ l # "boot" /\ Die(child[s])
                \/ UNCHANGED <<lock, file, EngineVars, held>>
    BY <1>0, <1>7 DEF AskBoot
  <2> QED
    BY <1>0, <1>7, <2>1, <2>2, ShellMoves, ShellKills DEF AskBoot, Places
<1>8. CASE Handoff(s)
  <2>1. PICK l \in {"kill", "error", "look"} : Go(s, l)
    BY <1>8 DEF Handoff
  <2> QED
    BY <1>0, <1>8, <2>1, ShellMoves DEF Handoff, Places
<1>9. CASE Kill(s)
  <2>1. CASE at[s] = "kill"
    <3>1. /\ Go(s, "killing") /\ UNCHANGED <<lock, file, proc, build, quiet, stopping, rec, child, held, faults>>
          /\ term' = term \cup {rec[s]} /\ rec[s] \in Engines
      BY <1>0, <1>9, <2>1 DEF Kill
    <3>2. at' \in [Shells -> Places] /\ at'[s] = "killing" /\ \A r \in Shells : r # s => at'[r] = at[r]
      BY <3>1, GoOne DEF Places
    <3> QED
      BY <3>1, <3>2 DEF TypeOK, LockHeld, ProbeHolds, ActsOnOne
  <2>2. CASE at[s] = "killing" /\ Alive(rec[s])
    <3>1. Die(rec[s]) /\ rec[s] \in Engines /\ UNCHANGED <<at, rec, child, faults>>
      BY <1>0, <1>9, <2>2 DEF Kill
    <3>2. Go(s, "killing")
      BY <2>2, <3>1 DEF Go, TypeOK
    <3> QED
      BY <1>0, <3>1, <3>2, ShellKills DEF Places
  <2>3. CASE at[s] = "killing" /\ ~Alive(rec[s])
    BY <1>0, <1>9, <2>3, ShellMoves DEF Kill, Places
  <2> QED
    BY <1>9, <2>1, <2>2, <2>3 DEF Kill
<1>10. CASE Reserve(s)
  <2>1. PICK l \in {"attach", "depart"} : Go(s, l)
    BY <1>10 DEF Reserve
  <2> QED
    BY <1>0, <1>10, <2>1, ShellMoves DEF Reserve, Places
<1>11. CASE Attach(s)
  <2>1. PICK l \in {"attached", "depart"} : Go(s, l)
    BY <1>11 DEF Attach
  <2>2. held' \in [Shells -> Engines \cup {Nil}]
    BY <1>0, <1>11 DEF Attach
  <2> QED
    BY <1>0, <1>11, <2>1, <2>2, ShellMoves DEF Attach, Places
<1>12. CASE Depart(s)
  BY <1>0, <1>12, ShellMoves DEF Depart, Places
<1>13. CASE LoseHold(s)
  BY <1>0, <1>13, ShellMoves DEF LoseHold, Places
<1>14. CASE Leave(s)
  <2>1. at' \in [Shells -> Places] /\ at'[s] = "gone" /\ \A r \in Shells : r # s => at'[r] = at[r]
    BY <1>14, GoOne DEF Leave, Places
  <2>2. TypeOK'
    BY <1>0, <1>14, <2>1 DEF Leave, TypeOK, EngineVars
  <2>3. LockHeld'
    BY <1>14, ShellAssumption DEF Leave, LockHeld, EngineVars, Engines
  <2>4. ProbeHolds'
    BY <1>14, <2>1 DEF Leave, ProbeHolds
  <2>5. ActsOnOne'
    BY <1>14, <2>1 DEF Leave, ActsOnOne, TypeOK
  <2> QED
    BY <2>2, <2>3, <2>4, <2>5
<1>15. CASE GiveUp(s)
  <2>1. child' \in [Shells -> Engines \cup {Nil}] /\ \A r \in Shells : r # s => child'[r] = child[r]
    BY <1>0, <1>15 DEF GiveUp
  <2>2. \/ child[s] \in Engines /\ Die(child[s])
        \/ UNCHANGED <<lock, file, EngineVars, held>>
    BY <1>0, <1>15 DEF GiveUp
  <2> QED
    BY <1>0, <1>15, <2>1, <2>2, ShellMoves, ShellKills DEF GiveUp, Places
<1> QED
  BY <1>1, <1>2, <1>3, <1>4, <1>5, <1>6, <1>7, <1>8, <1>9, <1>10, <1>11, <1>12, <1>13, <1>14, <1>15 DEF Shell

LEMMA StepInv == IInv /\ [Next]_vars => IInv'
<1> SUFFICES ASSUME IInv, [Next]_vars PROVE IInv'
  OBVIOUS
<1>1. ASSUME NEW p \in Engines, Engine(p) \/ Watcher(p) \/ Crash(p) \/ Interrupt(p) PROVE IInv'
  BY <1>1, EngineSteps
<1>2. ASSUME NEW s \in Shells, Shell(s) \/ Open(s) \/ Leave(s) \/ GiveUp(s) PROVE IInv'
  BY <1>2, ShellSteps
<1>3. CASE UNCHANGED vars
  BY <1>3 DEF vars, IInv, TypeOK, LockHeld, ProbeHolds, ActsOnOne
<1> QED
  BY <1>1, <1>2, <1>3 DEF Next

THEOREM Invariance == Spec => []IInv
<1> QED
  BY InitInv, StepInv, PTL DEF Spec

\* The state keeps its shape, whatever processes do.
THEOREM TypeCorrect == Spec => []TypeOK
BY Invariance, PTL DEF IInv

\* The lock keeps the database to one process: what it opens lies between its
\* Acquire and its Release (engine.go:68-98).
THEOREM AtMostOneDatabase == Spec => []OneDatabase
<1>1. IInv => OneDatabase
  BY DEF IInv, OneDatabase, LockHeld, HasDatabase, Locked
<1> QED
  BY <1>1, Invariance, PTL

-----------------------------------------------------------------------------
\* The record names the engine that serves.

\* No process begins to serve, and the record stays.
LEMMA RecordKept ==
    ASSUME ServingIsPublished, file' = file,
           \A p \in Engines : Answers(p)' => Answers(p)
    PROVE  ServingIsPublished'
BY DEF ServingIsPublished

LEMMA DieQuiet ==
    ASSUME IInv, NEW p \in Engines, Die(p)
    PROVE  file' = file /\ \A q \in Engines : Answers(q)' => Answers(q)
BY DieOne DEF Answers

LEMMA RecordStep ==
    ASSUME IInv, ServingIsPublished, [Next]_vars
    PROVE  ServingIsPublished'
<1>1. ASSUME NEW p \in Engines, Engine(p) \/ Watcher(p) \/ Crash(p) \/ Interrupt(p)
      PROVE  ServingIsPublished'
  <2> USE DEF IInv
  <2>0. /\ proc \in [Engines -> Stages]
        /\ \A q \in Engines : proc[q] \in Locked => lock = q
    BY DEF TypeOK, LockHeld
  <2>1. CASE Acquire(p)
    <3>1. proc' = [proc EXCEPT ![p] = proc'[p]] /\ proc'[p] \in {"locked", "dead"}
      BY <2>0, <2>1 DEF Acquire, Ended, Step
    <3> QED
      BY <2>0, <2>1, <3>1, RecordKept DEF Acquire, Answers
  <2>2. CASE OpenDatabase(p)
    <3>1. PICK l \in {"open", "closed"} : Step(p, l)
      BY <2>2 DEF OpenDatabase
    <3> QED
      BY <2>0, <2>2, <3>1, RecordKept DEF OpenDatabase, Answers, Step
  <2>3. CASE Publish(p)
    <3>1. PICK l \in {"serve", "ready"} : Step(p, l)
      BY <2>3 DEF Publish
    <3>2. proc[p] \in Locked /\ file' = p /\ \A q \in Engines : q # p => proc'[q] = proc[q]
      BY <2>0, <2>3, <3>1 DEF Publish, Locked, Step
    <3>3. \A q \in Engines : Answers(q)' => q = p
      BY <2>0, <3>2 DEF Answers, Locked
    <3> QED
      BY <3>2, <3>3 DEF ServingIsPublished
  <2>4. CASE Down(p)
    BY <2>0, <2>4, RecordKept DEF Down, Answers, Step
  <2>5. CASE CloseDatabase(p)
    BY <2>0, <2>5, RecordKept DEF CloseDatabase, Answers, Step
  <2>6. CASE Release(p)
    <3>1. CASE proc[p] = "closed"
      <4>1. proc[p] \in Locked /\ proc' = [proc EXCEPT ![p] = "removed"]
        BY <2>0, <2>6, <3>1 DEF Release, Step, Locked
      <4>2. \A q \in Engines : ~Answers(q)'
        BY <2>0, <3>1, <4>1 DEF Answers, Locked
      <4> QED
        BY <4>2 DEF ServingIsPublished
    <3>2. CASE proc[p] = "removed"
      BY <2>0, <2>6, <3>2, RecordKept DEF Release, Ended, Step, Answers
    <3> QED
      BY <2>6, <3>1, <3>2 DEF Release
  <2>7. CASE Watcher(p)
    BY <2>7, RecordKept DEF Watcher, Sample, TryIdleShutdown, Answers
  <2>8. CASE Crash(p)
    BY <2>8, DieQuiet, RecordKept DEF Crash
  <2>9. CASE Interrupt(p)
    BY <2>9, RecordKept DEF Interrupt, Answers
  <2> QED
    BY <1>1, <2>1, <2>2, <2>3, <2>4, <2>5, <2>6, <2>7, <2>8, <2>9 DEF Engine
<1>2. ASSUME NEW s \in Shells, Shell(s) \/ Open(s) \/ Leave(s) \/ GiveUp(s)
      PROVE  ServingIsPublished'
  <2>1. CASE Launch(s)
    <3>1. proc' = proc \/ \E p \in Engines : proc' = [proc EXCEPT ![p] = "born"]
      BY <2>1 DEF Launch, Step
    <3> QED
      BY <2>1, <3>1, RecordKept DEF Launch, Answers, IInv, TypeOK
  <2>2. CASE AskBoot(s)
    <3>1. (child[s] \in Engines /\ Die(child[s])) \/ UNCHANGED <<file, proc>>
      BY <2>2 DEF AskBoot, EngineVars, IInv, ActsOnOne
    <3> QED
      BY <3>1, DieQuiet, RecordKept DEF Answers
  <2>3. CASE Kill(s)
    <3>1. (rec[s] \in Engines /\ Die(rec[s])) \/ UNCHANGED <<file, proc>>
      BY <2>3 DEF Kill, EngineVars, IInv, ActsOnOne
    <3> QED
      BY <3>1, DieQuiet, RecordKept DEF Answers
  <2>4. CASE GiveUp(s)
    <3>1. (child[s] \in Engines /\ Die(child[s])) \/ UNCHANGED <<file, proc>>
      BY <2>4 DEF GiveUp, EngineVars, IInv, TypeOK
    <3> QED
      BY <3>1, DieQuiet, RecordKept DEF Answers
  <2>5. CASE Look(s) \/ Ask(s) \/ Probe(s) \/ ProbeEnd(s) \/ Handoff(s) \/ Reserve(s) \/ Attach(s)
             \/ Depart(s) \/ LoseHold(s) \/ Open(s) \/ Leave(s)
    <3>1. UNCHANGED <<file, proc>>
      BY <2>5 DEF Look, Ask, Probe, ProbeEnd, Handoff, Reserve, Attach, Depart, LoseHold, Open, Leave, EngineVars
    <3> QED
      BY <3>1, RecordKept DEF Answers
  <2> QED
    BY <1>2, <2>1, <2>2, <2>3, <2>4, <2>5 DEF Shell
<1>3. CASE UNCHANGED vars
  BY <1>3, RecordKept DEF vars, Answers
<1> QED
  BY <1>1, <1>2, <1>3 DEF Next

\* An engine that answers is the one the record names, so a shell that looks
\* finds it (Publish, Hold.Release).
THEOREM ServingFound == Spec => []ServingIsPublished
<1>1. Init => ServingIsPublished
  BY DEF Init, ServingIsPublished, Answers
<1>2. IInv /\ ServingIsPublished /\ [Next]_vars => ServingIsPublished'
  BY RecordStep
<1> QED
  BY <1>1, <1>2, Invariance, PTL DEF Spec

-----------------------------------------------------------------------------
\* A hold and the idle exit exclude each other.

LEMMA HoldStep ==
    ASSUME IInv, HoldStopsIdleExit, [Next]_vars
    PROVE  HoldStopsIdleExit'
<1> USE DEF HoldStopsIdleExit
<1>0. ASSUME stopping' \subseteq stopping, \A s \in Shells : held'[s] \in {held[s], Nil}
      PROVE  HoldStopsIdleExit'
  BY <1>0
<1>1. ASSUME NEW p \in Engines, Engine(p) \/ Watcher(p) \/ Crash(p) \/ Interrupt(p)
      PROVE  HoldStopsIdleExit'
  <2>1. CASE TryIdleShutdown(p)
    <3>1. CASE Idle(p)
      BY <2>1, <3>1 DEF TryIdleShutdown, Idle, ShellVars
    <3>2. CASE ~Idle(p)
      BY <2>1, <3>2, <1>0 DEF TryIdleShutdown, ShellVars
    <3> QED
      BY <3>1, <3>2
  <2>2. CASE Crash(p)
    BY <1>0, <2>2, DieOne DEF Crash
  <2>3. CASE Engine(p) \/ Sample(p)
    <3>1. stopping' \subseteq stopping /\ \A s \in Shells : held'[s] \in {held[s], Nil}
      BY <2>3 DEF Engine, Acquire, OpenDatabase, Publish, Down, CloseDatabase, Release, Sample, Ended,
                  Dropped, ShellVars, IInv, TypeOK
    <3> QED
      BY <1>0, <3>1
  <2>4. CASE Interrupt(p)
    BY <1>0, <2>4 DEF Interrupt, ShellVars, IInv, TypeOK
  <2> QED
    BY <1>1, <2>1, <2>2, <2>3, <2>4 DEF Watcher
<1>2. ASSUME NEW s \in Shells, Shell(s) \/ Open(s) \/ Leave(s) \/ GiveUp(s)
      PROVE  HoldStopsIdleExit'
  <2>1. CASE Attach(s)
    <3>1. CASE rec[s] \notin stopping /\ held' = [held EXCEPT ![s] = rec[s]]
      BY <2>1, <3>1 DEF Attach, EngineVars, IInv, TypeOK
    <3>2. CASE held' = held
      BY <1>0, <2>1, <3>2 DEF Attach, EngineVars
    <3> QED
      BY <2>1, <3>1, <3>2 DEF Attach
  <2>2. CASE AskBoot(s)
    <3>1. (child[s] \in Engines /\ Die(child[s])) \/ UNCHANGED <<stopping, held>>
      BY <2>2 DEF AskBoot, EngineVars, IInv, ActsOnOne
    <3> QED
      BY <1>0, <3>1, DieOne
  <2>3. CASE Kill(s)
    <3>1. (rec[s] \in Engines /\ Die(rec[s])) \/ UNCHANGED <<stopping, held>>
      BY <2>3 DEF Kill, EngineVars, IInv, ActsOnOne
    <3> QED
      BY <1>0, <3>1, DieOne
  <2>4. CASE GiveUp(s)
    <3>1. (child[s] \in Engines /\ Die(child[s])) \/ UNCHANGED <<stopping, held>>
      BY <2>4 DEF GiveUp, EngineVars, IInv, TypeOK
    <3> QED
      BY <1>0, <3>1, DieOne
  <2>5. CASE Leave(s)
    BY <1>0, <2>5 DEF Leave, EngineVars, IInv, TypeOK
  <2>6. CASE Look(s) \/ Ask(s) \/ Probe(s) \/ ProbeEnd(s) \/ Launch(s) \/ Handoff(s) \/ Reserve(s)
             \/ Depart(s) \/ LoseHold(s) \/ Open(s)
    <3>1. UNCHANGED <<stopping, held>>
      BY <2>6 DEF Look, Ask, Probe, ProbeEnd, Launch, Handoff, Reserve, Depart, LoseHold, Open, EngineVars
    <3> QED
      BY <1>0, <3>1
  <2> QED
    BY <1>2, <2>1, <2>2, <2>3, <2>4, <2>5, <2>6 DEF Shell
<1>3. CASE UNCHANGED vars
  BY <1>0, <1>3 DEF vars
<1> QED
  BY <1>1, <1>2, <1>3 DEF Next

\* An engine that acknowledged a shell has not begun its idle exit, and one
\* that has begun it acknowledges none (TryIdleShutdown, presence.attach).
THEOREM HoldExcludesIdleExit == Spec => []HoldStopsIdleExit
<1>1. Init => HoldStopsIdleExit
  BY DEF Init, HoldStopsIdleExit
<1>2. IInv /\ HoldStopsIdleExit /\ [Next]_vars => HoldStopsIdleExit'
  BY HoldStep
<1> QED
  BY <1>1, <1>2, Invariance, PTL DEF Spec

-----------------------------------------------------------------------------
\* The processes of a data directory implement the service.

\* A shell is counted only by an engine that answers: what goes down lets go first.
HeldServes == \A s \in Shells : held[s] # Nil => held[s] \in Serving

\* The service keeps that by itself.
LEMMA ServiceKeeps ==
    ASSUME HeldServes, held \in [Shells -> Engines \cup {Nil}], Service!Next
    PROVE  HeldServes'
<1>1. ASSUME NEW p \in Engines, Service!Withdraw(p) \/ Service!End(p) PROVE HeldServes'
  BY <1>1 DEF HeldServes, Service!Withdraw, Service!End, Service!Dismissed
<1>2. ASSUME NEW p \in Engines, Service!Take(p) \/ Service!Serve(p) \/ Service!Resign(p) \/ Service!GiveBack(p)
      PROVE  HeldServes'
  BY <1>2 DEF HeldServes, Service!Take, Service!Serve, Service!Resign, Service!GiveBack
<1>3. ASSUME NEW s \in Shells, NEW p \in Engines, Service!Hold(s, p) PROVE HeldServes'
  BY <1>3 DEF HeldServes, Service!Hold
<1>4. ASSUME NEW s \in Shells, Service!LetGo(s) PROVE HeldServes'
  BY <1>4 DEF HeldServes, Service!LetGo
<1> QED
  BY <1>1, <1>2, <1>3, <1>4 DEF Service!Next

\* Whose stage changes, and how, is what shells see of the processes.
LEMMA SeenOfStage ==
    ASSUME IInv, NEW p \in Engines, NEW l \in Stages, proc'[p] = l,
           \A q \in Engines : q # p => proc'[q] = proc[q]
    PROVE  /\ Using' = IF l \in {"open", "serve", "ready", "down"} THEN Using \cup {p} ELSE Using \ {p}
           /\ Serving' = IF l \in {"serve", "ready"} THEN Serving \cup {p} ELSE Serving \ {p}
           /\ p \in Using <=> proc[p] \in {"open", "serve", "ready", "down"}
           /\ p \in Serving <=> proc[p] \in {"serve", "ready"}
<1>1. p \in Using <=> proc[p] \in {"open", "serve", "ready", "down"}
  BY DEF Using, HasDatabase
<1>2. p \in Serving <=> proc[p] \in {"serve", "ready"}
  BY DEF Serving, Answers
<1>3. Using' = IF l \in {"open", "serve", "ready", "down"} THEN Using \cup {p} ELSE Using \ {p}
  BY DEF Using, HasDatabase
<1>4. Serving' = IF l \in {"serve", "ready"} THEN Serving \cup {p} ELSE Serving \ {p}
  BY DEF Serving, Answers
<1> QED
  BY <1>1, <1>2, <1>3, <1>4

\* The holder of the lock is the only one that can use the data.
LEMMA OthersIdle ==
    ASSUME IInv, NEW p \in Engines, proc[p] \in Locked
    PROVE  Using \subseteq {p} /\ Serving \subseteq Using
<1>1. \A q \in Engines : proc[q] \in Locked => q = p
  BY DEF IInv, LockHeld
<1> QED
  BY <1>1 DEF Using, Serving, HasDatabase, Answers, Locked

\* A process that ends on its own had let go of its shells.
LEMMA EndSeen ==
    ASSUME IInv, HeldServes, NEW p \in Engines, Ended(p),
           \/ held' = held /\ ~Answers(p)
           \/ held' = Service!Dismissed(p)
    PROVE  Service!End(p)
<1>1. /\ proc' \in [Engines -> Stages] /\ proc'[p] = "dead"
      /\ \A q \in Engines : q # p => proc'[q] = proc[q]
  BY EndedOne DEF IInv
<1>2. Using' = Using \ {p} /\ Serving' = Serving \ {p}
  BY <1>1, SeenOfStage DEF Stages
<1>3. stopping' = stopping \ {p}
  BY DEF Ended
<1>4. held' = Service!Dismissed(p)
  <2>1. CASE held' = held /\ ~Answers(p)
    <3>1. \A s \in Shells : held[s] # p
      BY <2>1, ShellAssumption DEF HeldServes, Serving, Engines
    <3>2. held \in [Shells -> Engines \cup {Nil}]
      BY DEF IInv, TypeOK
    <3> QED
      BY <2>1, <3>1, <3>2 DEF Service!Dismissed
  <2> QED
    BY <2>1
<1> QED
  BY <1>2, <1>3, <1>4 DEF Service!End

LEMMA DieSeen ==
    ASSUME IInv, HeldServes, NEW p \in Engines, Die(p)
    PROVE  Service!End(p)
<1>1. Ended(p) /\ held' = Service!Dismissed(p)
  BY DEF Die, Dropped, Service!Dismissed
<1> QED
  BY <1>1, EndSeen

\* The steps of a process: what shells see of each is a step of the service.
LEMMA ProcessSeen ==
    ASSUME IInv, HeldServes, NEW p \in Engines, Engine(p) \/ Watcher(p) \/ Crash(p) \/ Interrupt(p)
    PROVE  Service!Next \/ UNCHANGED Service!vars
<1>0. TypeOK /\ proc \in [Engines -> Stages]
  BY DEF IInv, TypeOK
<1>a. ASSUME NEW l \in Stages, Step(p, l)
      PROVE  proc'[p] = l /\ \A q \in Engines : q # p => proc'[q] = proc[q]
  BY <1>0, <1>a, StepOne
<1>1. CASE Acquire(p)
  <2>1. CASE Step(p, "locked") /\ stopping' = stopping
    BY <1>1, <2>1, <1>a, SeenOfStage DEF Acquire, ShellVars, Service!vars, Stages
  <2>2. CASE Ended(p)
    <3>1. Service!End(p)
      BY <1>1, <2>2, EndSeen DEF Acquire, ShellVars, Answers
    <3> QED
      BY <3>1 DEF Service!Next
  <2> QED
    BY <1>1, <2>1, <2>2 DEF Acquire
<1>2. CASE OpenDatabase(p)
  <2>0. proc[p] = "locked" /\ UNCHANGED <<stopping, held>>
    BY <1>2 DEF OpenDatabase, ShellVars
  <2>1. CASE Step(p, "open")
    <3>1. Using = {} /\ Using' = {p} /\ Serving' = Serving
      BY <2>0, <2>1, <1>a, SeenOfStage, OthersIdle DEF Stages, Locked
    <3>2. Service!Take(p)
      BY <2>0, <3>1 DEF Service!Take
    <3> QED
      BY <3>2 DEF Service!Next
  <2>2. CASE Step(p, "closed")
    BY <2>0, <2>2, <1>a, SeenOfStage DEF Stages, Service!vars
  <2> QED
    BY <1>2, <2>1, <2>2 DEF OpenDatabase
<1>3. CASE Publish(p)
  <2>0. UNCHANGED <<stopping, held>> /\ proc[p] \in {"open", "serve"}
    BY <1>3 DEF Publish, ShellVars
  <2>1. CASE proc[p] = "open"
    <3>1. Using = {p} /\ Serving = {} /\ Using' = {p} /\ Serving' = {p}
      BY <1>3, <2>1, <1>a, SeenOfStage, OthersIdle DEF Publish, Stages, Locked
    <3>2. Service!Serve(p)
      BY <2>0, <3>1 DEF Service!Serve
    <3> QED
      BY <3>2 DEF Service!Next
  <2>2. CASE proc[p] = "serve"
    BY <1>3, <2>0, <2>2, <1>a, SeenOfStage DEF Publish, Stages, Service!vars
  <2> QED
    BY <2>0, <2>1, <2>2
<1>4. CASE Down(p)
  <2>1. p \in Serving /\ Using' = Using /\ Serving' = Serving \ {p}
    BY <1>4, <1>a, SeenOfStage DEF Down, Answers, Stages
  <2>2. held' = Service!Dismissed(p) /\ stopping' = stopping
    BY <1>4 DEF Down, Dropped, Service!Dismissed
  <2>3. Service!Withdraw(p)
    BY <2>1, <2>2 DEF Service!Withdraw
  <2> QED
    BY <2>3 DEF Service!Next
<1>5. CASE CloseDatabase(p)
  <2>1. p \in Using \ Serving /\ Using' = Using \ {p} /\ Serving' = Serving /\ UNCHANGED <<stopping, held>>
    BY <1>5, <1>a, SeenOfStage DEF CloseDatabase, ShellVars, Stages
  <2>2. Service!GiveBack(p)
    BY <2>1 DEF Service!GiveBack
  <2> QED
    BY <2>2 DEF Service!Next
<1>6. CASE Release(p)
  <2>1. CASE Step(p, "removed") /\ proc[p] = "closed" /\ stopping' = stopping
    BY <1>6, <2>1, <1>a, SeenOfStage DEF Release, ShellVars, Stages, Service!vars
  <2>2. CASE Ended(p) /\ proc[p] = "removed"
    <3>1. Service!End(p)
      BY <1>6, <2>2, EndSeen DEF Release, ShellVars, Answers
    <3> QED
      BY <3>1 DEF Service!Next
  <2> QED
    BY <1>6, <2>1, <2>2 DEF Release
<1>7. CASE Watcher(p)
  <2>1. UNCHANGED <<Using, Serving, held>>
    BY <1>7 DEF Watcher, Sample, TryIdleShutdown, ShellVars, Using, Serving, HasDatabase, Answers
  <2>2. CASE stopping' = stopping
    BY <2>1, <2>2 DEF Service!vars
  <2>3. CASE stopping' = stopping \cup {p} /\ Idle(p) /\ Answers(p)
    <3>1. Service!Resign(p)
      BY <2>1, <2>3 DEF Service!Resign, Idle, Serving
    <3> QED
      BY <3>1 DEF Service!Next
  <2> QED
    BY <1>7, <2>2, <2>3 DEF Watcher, Sample, TryIdleShutdown
<1>8. CASE Crash(p)
  <2>1. Service!End(p)
    BY <1>8, DieSeen DEF Crash
  <2> QED
    BY <2>1 DEF Service!Next
<1>9. CASE Interrupt(p)
  BY <1>9 DEF Interrupt, ShellVars, Service!vars, Using, Serving, HasDatabase, Answers
<1> QED
  BY <1>1, <1>2, <1>3, <1>4, <1>5, <1>6, <1>7, <1>8, <1>9 DEF Engine

\* Those of a shell: it takes and gives up its hold, and it may end a process.
LEMMA ShellSeen ==
    ASSUME IInv, HeldServes, NEW s \in Shells, Shell(s) \/ Open(s) \/ Leave(s) \/ GiveUp(s)
    PROVE  Service!Next \/ UNCHANGED Service!vars
<1>0. TypeOK /\ ActsOnOne
  BY DEF IInv
<1>1. ASSUME UNCHANGED <<proc, stopping, held>> PROVE UNCHANGED Service!vars
  BY <1>1 DEF Service!vars, Using, Serving, HasDatabase, Answers
<1>2. ASSUME NEW p \in Engines, Die(p) PROVE Service!Next
  BY <1>2, DieSeen DEF Service!Next
<1>3. CASE Launch(s)
  <2>1. CASE UNCHANGED proc
    BY <1>1, <1>3, <2>1 DEF Launch
  <2>2. ASSUME NEW p \in Engines, proc[p] = "unborn", Step(p, "born")
        PROVE  UNCHANGED Service!vars
    <3>1. UNCHANGED <<Using, Serving>>
      BY <1>0, <2>2, StepOne, SeenOfStage DEF Stages
    <3> QED
      BY <1>3, <3>1 DEF Launch, Service!vars
  <2> QED
    BY <1>3, <2>1, <2>2 DEF Launch
<1>4. CASE AskBoot(s)
  <2>1. (child[s] \in Engines /\ Die(child[s])) \/ UNCHANGED <<proc, stopping, held>>
    BY <1>0, <1>4 DEF AskBoot, EngineVars, ActsOnOne
  <2> QED
    BY <1>1, <1>2, <2>1
<1>5. CASE Kill(s)
  <2>1. (rec[s] \in Engines /\ Die(rec[s])) \/ UNCHANGED <<proc, stopping, held>>
    BY <1>0, <1>5 DEF Kill, EngineVars, ActsOnOne
  <2> QED
    BY <1>1, <1>2, <2>1
<1>6. CASE GiveUp(s)
  <2>1. (child[s] \in Engines /\ Die(child[s])) \/ UNCHANGED <<proc, stopping, held>>
    BY <1>0, <1>6 DEF GiveUp, EngineVars, TypeOK
  <2> QED
    BY <1>1, <1>2, <2>1
<1>7. CASE Attach(s)
  <2>1. CASE Answers(rec[s]) /\ rec[s] \notin stopping
    <3>1. rec[s] \in Engines
      BY <1>0, <1>7 DEF Attach, ActsOnOne
    <3>2. held' = [held EXCEPT ![s] = rec[s]] /\ UNCHANGED <<proc, stopping>>
      BY <1>7, <2>1 DEF Attach, EngineVars
    <3>3. Service!Hold(s, rec[s])
      BY <2>1, <3>1, <3>2 DEF Service!Hold, Using, Serving, HasDatabase, Answers
    <3> QED
      BY <3>1, <3>3 DEF Service!Next
  <2>2. CASE ~(Answers(rec[s]) /\ rec[s] \notin stopping)
    BY <1>1, <1>7, <2>2 DEF Attach, EngineVars
  <2> QED
    BY <2>1, <2>2
<1>8. CASE Leave(s)
  <2>1. held' = [held EXCEPT ![s] = Nil] /\ UNCHANGED <<proc, stopping>>
    BY <1>8 DEF Leave, EngineVars
  <2>2. Service!LetGo(s)
    BY <2>1 DEF Service!LetGo, Using, Serving, HasDatabase, Answers
  <2> QED
    BY <2>2 DEF Service!Next
<1>9. CASE Look(s) \/ Ask(s) \/ Probe(s) \/ ProbeEnd(s) \/ Handoff(s) \/ Reserve(s) \/ Depart(s)
           \/ LoseHold(s) \/ Open(s)
  <2>1. UNCHANGED <<proc, stopping, held>>
    BY <1>9 DEF Look, Ask, Probe, ProbeEnd, Handoff, Reserve, Depart, LoseHold, Open, EngineVars
  <2> QED
    BY <1>1, <2>1
<1> QED
  BY <1>3, <1>4, <1>5, <1>6, <1>7, <1>8, <1>9 DEF Shell

\* To its shells the data directory is the service of module EngineService, for any
\* number of shells, builds, launches, kills and deaths: one engine at a time uses the
\* data, a hold and the decision to leave exclude each other, and an engine that goes
\* has let go of its shells before the next one has the data.
THEOREM ServiceRefined == Spec => ImplementsService
<1>1. Init => Service!Init /\ HeldServes
  BY DEF Init, Service!Init, HeldServes, Using, Serving, HasDatabase, Answers
<1>2. IInv /\ HeldServes /\ [Next]_vars => [Service!Next]_(Service!vars)
  <2> SUFFICES ASSUME IInv, HeldServes, [Next]_vars
               PROVE  Service!Next \/ UNCHANGED Service!vars
    OBVIOUS
  <2>1. CASE UNCHANGED vars
    BY <2>1 DEF vars, Service!vars, Using, Serving, HasDatabase, Answers
  <2> QED
    BY <2>1, ProcessSeen, ShellSeen DEF Next
<1>3. IInv /\ HeldServes /\ [Service!Next]_(Service!vars) => HeldServes'
  <2> SUFFICES ASSUME IInv, HeldServes, [Service!Next]_(Service!vars) PROVE HeldServes'
    OBVIOUS
  <2>1. CASE Service!Next
    BY <2>1, ServiceKeeps DEF IInv, TypeOK
  <2>2. CASE UNCHANGED Service!vars
    BY <2>2 DEF Service!vars, HeldServes
  <2> QED
    BY <2>1, <2>2
<1> QED
  BY <1>1, <1>2, <1>3, Invariance, PTL DEF Spec, ImplementsService, Service!Spec
=============================================================================
