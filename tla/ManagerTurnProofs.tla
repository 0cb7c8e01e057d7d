--------------------------- MODULE ManagerTurnProofs ---------------------------
(***************************************************************************)
(* A conversation of any length, with any clients and messages.             *)
(***************************************************************************)
EXTENDS ManagerTurn, TLAPS

RtType == [running : BOOLEAN, turn : Turns \cup {NoTurn}, parked : Turns \cup {NoTurn},
           waiting : {"no", "open", "yes", "stop"}, stopped : BOOLEAN]

LEMMA InitInv == Init => IInv
<1> SUFFICES ASSUME Init PROVE IInv
  OBVIOUS
<1> USE DEF Init
<1>1. NotStarted \in Runs /\ NotStarted.pc = "none"
  BY DEF NotStarted, Runs, Places, Errors, NoTurn
<1>2. Idle \in Requests /\ Idle.op = "idle" /\ Idle.turn = NoTurn
  BY DEF Idle, Requests
<1>3. TypeOK
  BY <1>1, <1>2 DEF TypeOK, Registries, Fates
<1>4. Numbered
  BY <1>1, TurnAssumption DEF Numbered, Turns, NoTurn
<1>5. CallsSound
  <2>1. \A c \in Clients : call[c] = Idle
    OBVIOUS
  <2>2. rt.turn = NoTurn /\ NoTurn <= NoTurn
    BY DEF NoTurn
  <2>3. Idle.op \notin TurnOps /\ Idle.op \notin SteerOps
    BY <1>2 DEF TurnOps, SteerOps
  <2> QED
    BY <1>2, <2>1, <2>2, <2>3 DEF CallsSound, RequestSound
<1>6. OneOwner
  BY <1>1 DEF OneOwner, Owning, Loop, Replied
<1> QED
  BY <1>3, <1>4, <1>5, <1>6 DEF IInv

-----------------------------------------------------------------------------
\* Steps that neither start nor end a turn.

\* A step of a turn's goroutine that keeps the runtime with its owner.
LEMMA TurnStep ==
    ASSUME IInv, NEW t \in Turns, NEW r \in Runs,
           run[t].pc # "none", r.pc # "none", r.reg = run[t].reg,
           r.pc \in Owning <=> run[t].pc \in Owning,
           run' = [run EXCEPT ![t] = r],
           rt' \in RtType, rt'.running = rt.running, rt'.turn = rt.turn,
           rt'.parked <= rt.turn,
           regs' \in [Turns -> Registries],
           (seen \cup folded)' \subseteq Steers,
           UNCHANGED <<call, fate, home>>
    PROVE  IInv'
<1> USE DEF IInv
<1>1. \A u \in Turns : run'[u] = IF u = t THEN r ELSE run[u]
  BY DEF TypeOK
<1>2. TypeOK'
  BY <1>1 DEF TypeOK, RtType
<1>3. Numbered'
  BY <1>1 DEF Numbered
<1>4. CallsSound'
  BY DEF CallsSound, RequestSound
<1>5. OneOwner'
  BY <1>1 DEF OneOwner
<1> QED
  BY <1>2, <1>3, <1>4, <1>5

\* The registry of a turn that was started.
LEMMA OwnRegistry ==
    ASSUME IInv, NEW t \in Turns, run[t].pc # "none"
    PROVE  /\ run[t] \in Runs
           /\ run[t].reg \in Turns
           /\ run[t].reg <= t /\ t <= rt.turn
           /\ regs[run[t].reg] \in Registries
           /\ Inbox(t) \subseteq Steers
<1>1. run[t] \in Runs /\ run[t].reg \in 1 .. t /\ rt.turn \in Turns \cup {NoTurn}
  BY DEF IInv, TypeOK
<1>2. t <= rt.turn
  BY <1>1 DEF IInv, Numbered, Turns, NoTurn
<1>3. run[t].reg \in Turns /\ run[t].reg <= t
  BY <1>1, TurnAssumption DEF Turns
<1>4. regs[run[t].reg] \in Registries
  BY <1>3 DEF IInv, TypeOK
<1>5. Inbox(t) \subseteq Steers
  BY <1>4 DEF Inbox, Registries
<1> QED
  BY <1>1, <1>2, <1>3, <1>4, <1>5

\* drainManagerInbox leaves a registry.
LEMMA EmptyTyped ==
    ASSUME IInv, NEW t \in Turns, run[t].pc # "none", Empty(t)
    PROVE  regs' \in [Turns -> Registries]
<1>1. run[t].reg \in Turns /\ regs[run[t].reg] \in Registries
  BY OwnRegistry
<1>2. regs \in [Turns -> Registries]
  BY DEF IInv, TypeOK
<1> DEFINE e == [regs[run[t].reg] EXCEPT !.inbox = {}, !.due = {}]
<1>3. e \in Registries
  BY <1>1 DEF Registries
<1>4. regs' = [regs EXCEPT ![run[t].reg] = e]
  BY <1>1, <1>2 DEF Empty
<1> HIDE DEF e
<1> QED
  BY <1>1, <1>2, <1>3, <1>4

\* Goto, Ended and Running make records of Runs.
LEMMA EndedRun ==
    ASSUME NEW r \in Runs, NEW err \in Errors
    PROVE  Ended(r, err) \in Runs /\ Ended(r, err).pc = "ended" /\ Ended(r, err).reg = r.reg
BY DEF Ended, Runs, Places, Owning

LEMMA RunningRun ==
    ASSUME NEW r \in Runs, NEW messages \in SUBSET Steers
    PROVE  /\ Running(r, messages) \in Runs
           /\ Running(r, messages).pc = "asked"
           /\ Running(r, messages).reg = r.reg
BY DEF Running, Runs, Places, Owning, Loop, Errors

LEMMA MovedRun ==
    ASSUME NEW r \in Runs, NEW place \in Places
    PROVE  /\ [r EXCEPT !.pc = place] \in Runs
           /\ [r EXCEPT !.pc = place].pc = place
           /\ [r EXCEPT !.pc = place].reg = r.reg
BY DEF Runs

\* A step that moves the goroutine and nothing else of it.
LEMMA GotoStep ==
    ASSUME IInv, NEW t \in Turns, NEW place \in Places,
           run[t].pc # "none", place # "none",
           place \in Owning <=> run[t].pc \in Owning,
           Goto(t, place),
           rt' \in RtType, rt'.running = rt.running, rt'.turn = rt.turn,
           rt'.parked <= rt.turn,
           regs' \in [Turns -> Registries],
           (seen \cup folded)' \subseteq Steers,
           UNCHANGED outside
    PROVE  IInv'
<1>1. run[t] \in Runs
  BY DEF IInv, TypeOK
<1> DEFINE r == [run[t] EXCEPT !.pc = place]
<1>2. r \in Runs /\ r.pc = place /\ r.reg = run[t].reg
  BY <1>1, MovedRun
<1>3. run' = [run EXCEPT ![t] = r]
  BY DEF Goto, IInv, TypeOK
<1> HIDE DEF r
<1> QED
  BY <1>2, <1>3, TurnStep DEF outside

LEMMA EndsStep ==
    ASSUME IInv, NEW t \in Turns, NEW err \in Errors,
           run[t].pc \in Owning, Ends(t, err),
           rt' \in RtType, rt'.running = rt.running, rt'.turn = rt.turn,
           rt'.parked = rt.parked,
           UNCHANGED <<outside, regs, seen, folded>>
    PROVE  IInv'
<1>1. run[t].pc # "none"
  BY DEF Owning, Loop, Replied
<1>2. run[t] \in Runs /\ rt.parked <= rt.turn
  BY DEF IInv, TypeOK, Numbered
<1> DEFINE r == Ended(run[t], err)
<1>3. r \in Runs /\ r.pc = "ended" /\ r.reg = run[t].reg
  BY <1>2, EndedRun
<1>4. run' = [run EXCEPT ![t] = r]
  BY DEF Ends
<1>5. "ended" \in Owning
  BY DEF Owning
<1>6. regs' \in [Turns -> Registries] /\ (seen \cup folded)' \subseteq Steers
  BY DEF IInv, TypeOK
<1> HIDE DEF r
<1> QED
  BY <1>1, <1>2, <1>3, <1>4, <1>5, <1>6, TurnStep DEF outside

LEMMA RejoinStep ==
    ASSUME IInv, NEW t \in Turns, run[t].pc \in Owning, Rejoin(t),
           rt' \in RtType, rt'.running = rt.running, rt'.turn = rt.turn,
           rt'.parked = rt.parked,
           UNCHANGED <<outside, seen, folded>>
    PROVE  IInv'
<1>1. run[t].pc # "none"
  BY DEF Owning, Loop, Replied
<1>2. run[t] \in Runs /\ rt.parked <= rt.turn /\ Inbox(t) \subseteq Steers
  BY <1>1, OwnRegistry DEF IInv, TypeOK, Numbered
<1> DEFINE r == Running(run[t], run[t].history \cup Inbox(t))
<1>3. run[t].history \cup Inbox(t) \in SUBSET Steers
  BY <1>2 DEF Runs
<1>4. r \in Runs /\ r.pc = "asked" /\ r.reg = run[t].reg
  BY <1>2, <1>3, RunningRun
<1>5. run' = [run EXCEPT ![t] = r]
  BY DEF Rejoin
<1>6. "asked" \in Owning
  BY DEF Owning, Loop
<1>7. regs' \in [Turns -> Registries]
  BY <1>1, EmptyTyped DEF Rejoin
<1>8. (seen \cup folded)' \subseteq Steers
  BY DEF IInv, TypeOK
<1> HIDE DEF r
<1> QED
  BY <1>1, <1>2, <1>4, <1>5, <1>6, <1>7, <1>8, TurnStep DEF outside

\* Bind, Unbind, Close and Preempt leave registries.
LEMMA BindTyped ==
    ASSUME IInv, NEW t \in Turns, run[t].pc # "none"
    PROVE  /\ Bind(t) => regs' \in [Turns -> Registries]
           /\ Unbind(t) => regs' \in [Turns -> Registries]
<1>1. run[t].reg \in Turns /\ regs[run[t].reg] \in Registries
  BY OwnRegistry
<1>2. regs \in [Turns -> Registries]
  BY DEF IInv, TypeOK
<1>3. Bound(regs[run[t].reg]) \in Registries
  BY <1>1 DEF Bound, Registries
<1>4. [regs[run[t].reg] EXCEPT !.epoch = "none"] \in Registries
  BY <1>1 DEF Registries
<1>5. Bind(t) => regs' \in [Turns -> Registries]
  BY <1>1, <1>2, <1>3 DEF Bind
<1>6. Unbind(t) => regs' \in [Turns -> Registries]
  BY <1>1, <1>2, <1>4 DEF Unbind
<1> QED
  BY <1>5, <1>6

LEMMA ClosedTyped ==
    ASSUME NEW reg \in Registries
    PROVE  Closed(reg) \in Registries
BY DEF Closed, Registries

LEMMA PreemptedTyped ==
    ASSUME NEW reg \in Registries, NEW promised
    PROVE  Preempted(reg, promised) \in Registries
BY DEF Preempted, Registries

\* What the invariant says of the state as it is.
LEMMA Typed ==
    ASSUME IInv
    PROVE  /\ rt \in RtType
           /\ rt.parked <= rt.turn
           /\ regs \in [Turns -> Registries]
           /\ seen \cup folded \subseteq Steers
           /\ \A t \in Turns : run[t] \in Runs
BY DEF IInv, TypeOK, Numbered, RtType

\* Which places own the runtime.
LEMMA PlacesOfOwner ==
    /\ Owning \subseteq Places
    /\ "none" \notin Owning
    /\ {"asked", "next", "drained", "calling", "answered", "toolcall", "tool", "tooling",
        "returned", "verify", "verifying", "taking", "taken", "admit", "pausing", "paused",
        "ended", "left", "decided", "closed"} \subseteq Owning
    /\ {"released", "finished", "leaving", "gone"} \subseteq Places \ Owning
BY DEF Places, Owning, Loop, Replied

-----------------------------------------------------------------------------
\* The model calls and the tools of a run.

LEMMA DrainStep ==
    ASSUME IInv, NEW t \in Turns, Drain(t)
    PROVE  IInv'
<1> USE DEF Drain, At
<1>1. run[t].pc \in Owning /\ run[t].pc # "none"
  BY PlacesOfOwner
<1>2. run[t] \in Runs /\ Inbox(t) \subseteq Steers
  BY <1>1, OwnRegistry
<1> DEFINE r == [run[t] EXCEPT !.pc = "drained", !.history = @ \cup Inbox(t)]
<1>3. r \in Runs /\ r.pc = "drained" /\ r.reg = run[t].reg
  BY <1>2, PlacesOfOwner DEF Runs
<1>4. run' = [run EXCEPT ![t] = r]
  BY DEF IInv, TypeOK
<1>5. regs' \in [Turns -> Registries]
  BY <1>1, EmptyTyped
<1> HIDE DEF r
<1> QED
  BY <1>1, <1>3, <1>4, <1>5, Typed, PlacesOfOwner, TurnStep DEF outside

LEMMA CallSteps ==
    ASSUME IInv, NEW t \in Turns,
           Generate(t) \/ Generated(t) \/ Drop(t) \/ Tool(t) \/ ToolEnds(t)
    PROVE  IInv'
<1> USE DEF At
<1>1. CASE Generate(t)
  BY <1>1, BindTyped, Typed, PlacesOfOwner, GotoStep DEF Generate
<1>2. CASE Generated(t)
  <2>1. PICK reply \in Replied : Goto(t, reply)
    BY <1>2 DEF Generated
  <2>2. (seen \cup folded)' \subseteq Steers
    BY <1>2, Typed DEF Generated, Runs
  <2> QED
    BY <1>2, <2>1, <2>2, Typed, PlacesOfOwner, GotoStep DEF Generated, Replied
<1>3. CASE Drop(t)
  <2>1. PICK place \in {"returned", "tool"} : Goto(t, place)
    BY <1>3 DEF Drop
  <2> QED
    BY <1>3, <2>1, BindTyped, Typed, PlacesOfOwner, GotoStep DEF Drop, Replied
<1>4. CASE Tool(t)
  BY <1>4, BindTyped, Typed, PlacesOfOwner, GotoStep DEF Tool
<1>5. CASE ToolEnds(t)
  BY <1>5, BindTyped, Typed, PlacesOfOwner, GotoStep DEF ToolEnds
<1> QED
  BY <1>1, <1>2, <1>3, <1>4, <1>5

\* A run that ends on an error, and the verification of one that does not.
LEMMA RunEndSteps ==
    ASSUME IInv, NEW t \in Turns, Cap(t) \/ GenerateFails(t) \/ Returned(t)
    PROVE  IInv'
<1> USE DEF At
<1>1. ASSUME NEW err \in Errors, NEW place \in {"returned"},
             run[t].pc \in Owning, regs' \in [Turns -> Registries],
             run' = [run EXCEPT ![t].pc = place, ![t].err = err],
             UNCHANGED <<outside, rt, seen, folded>>
      PROVE  IInv'
  <2> DEFINE r == [run[t] EXCEPT !.pc = place, !.err = err]
  <2>1. r \in Runs /\ r.pc = place /\ r.reg = run[t].reg
    BY <1>1, Typed, PlacesOfOwner DEF Runs
  <2>2. run' = [run EXCEPT ![t] = r]
    BY <1>1 DEF IInv, TypeOK
  <2> HIDE DEF r
  <2> QED
    BY <1>1, <2>1, <2>2, Typed, PlacesOfOwner, TurnStep DEF outside
<1>2. CASE Cap(t)
  BY <1>1, <1>2, Typed, PlacesOfOwner DEF Cap, Errors
<1>3. CASE GenerateFails(t)
  <2>1. PICK err \in Errors : run' = [run EXCEPT ![t].pc = "returned", ![t].err = err]
    BY <1>3 DEF GenerateFails, Errors
  <2> QED
    BY <1>1, <1>3, <2>1, BindTyped, PlacesOfOwner DEF GenerateFails
<1>4. CASE Returned(t)
  <2>1. CASE Ends(t, "canceled")
    BY <1>4, <2>1, Typed, PlacesOfOwner, EndsStep DEF Returned, Errors
  <2>2. CASE Goto(t, IF run[t].err \in {"none", "limit"} THEN "verify" ELSE "taking")
    <3>1. PICK place \in {"verify", "taking"} : Goto(t, place)
      BY <2>2
    <3> QED
      BY <1>4, <3>1, Typed, PlacesOfOwner, GotoStep DEF Returned
  <2> QED
    BY <1>4, <2>1, <2>2 DEF Returned
<1> QED
  BY <1>2, <1>3, <1>4

LEMMA VerifySteps ==
    ASSUME IInv, NEW t \in Turns, Verify(t) \/ Verified(t) \/ TakePreempt(t)
    PROVE  IInv'
<1> USE DEF At
<1>1. ASSUME NEW r \in Runs, run[t].pc \in Owning, r.pc \in Owning, r.reg = run[t].reg,
             run' = [run EXCEPT ![t] = r], regs' \in [Turns -> Registries],
             UNCHANGED <<outside, rt, seen, folded>>
      PROVE  IInv'
  BY <1>1, Typed, PlacesOfOwner, TurnStep DEF outside
<1>2. ASSUME NEW place \in {"verifying", "taking"},
             NEW failure \in {"none", "superseded", "interrupted"}
      PROVE  LET r == [run[t] EXCEPT !.pc = place, !.failure = failure]
             IN r \in Runs /\ r.pc = place /\ r.reg = run[t].reg
  BY Typed, PlacesOfOwner DEF Runs
<1>3. CASE Verify(t)
  <2> DEFINE failure == IF regs[run[t].reg].armed THEN "interrupted"
                        ELSE IF Inbox(t) # {} THEN "superseded" ELSE "none"
             r == [run[t] EXCEPT !.pc = "verifying", !.failure = failure]
  <2>1. r \in Runs /\ r.pc = "verifying" /\ r.reg = run[t].reg
    BY <1>2
  <2>2. run' = [run EXCEPT ![t] = r]
    BY <1>3 DEF Verify, IInv, TypeOK
  <2> HIDE DEF r
  <2> QED
    BY <1>1, <1>3, <2>1, <2>2, BindTyped, PlacesOfOwner DEF Verify
<1>4. CASE Verified(t)
  <2>1. PICK failure \in {"none", "superseded", "interrupted"} :
            run' = [run EXCEPT ![t].pc = "taking", ![t].failure = failure]
    <3>1. run[t].failure \in {"none", "superseded", "interrupted"}
      BY Typed DEF Runs
    <3>2. PICK failure \in {"none", run[t].failure}
                           \cup (IF run[t].cancelled THEN {"interrupted"} ELSE {}) :
              run' = [run EXCEPT ![t].pc = "taking", ![t].failure = failure]
      BY <1>4 DEF Verified
    <3>3. failure \in {"none", run[t].failure} \/ failure = "interrupted"
      BY <3>2
    <3>4. failure \in {"none", "superseded", "interrupted"}
      BY <3>1, <3>3
    <3> QED
      BY <3>2, <3>4
  <2> DEFINE r == [run[t] EXCEPT !.pc = "taking", !.failure = failure]
  <2>2. r \in Runs /\ r.pc = "taking" /\ r.reg = run[t].reg
    BY <1>2
  <2>3. run' = [run EXCEPT ![t] = r]
    BY <2>1 DEF IInv, TypeOK
  <2> HIDE DEF r
  <2> QED
    BY <1>1, <1>4, <2>2, <2>3, BindTyped, PlacesOfOwner DEF Verified
<1>5. CASE TakePreempt(t)
  <2>1. run[t].reg \in Turns /\ regs[run[t].reg] \in Registries
    BY <1>5, PlacesOfOwner, OwnRegistry DEF TakePreempt
  <2> DEFINE r == [run[t] EXCEPT !.pc = "taken", !.taken = regs[run[t].reg].preempted]
             e == [regs[run[t].reg] EXCEPT !.preempted = FALSE, !.armed = FALSE]
  <2>2. r \in Runs /\ r.pc = "taken" /\ r.reg = run[t].reg
    <3>1. regs[run[t].reg].preempted \in BOOLEAN
      BY <2>1 DEF Registries
    <3>2. run[t] \in Runs /\ "taken" \in Places
      BY Typed, PlacesOfOwner
    <3> QED
      BY <3>1, <3>2 DEF Runs
  <2>3. run' = [run EXCEPT ![t] = r]
    BY <1>5 DEF TakePreempt, IInv, TypeOK
  <2>4. e \in Registries
    BY <2>1 DEF Registries
  <2>5. regs' = [regs EXCEPT ![run[t].reg] = e]
    BY <1>5, <2>1, Typed DEF TakePreempt
  <2>6. regs' \in [Turns -> Registries]
    BY <2>1, <2>4, <2>5, Typed
  <2> HIDE DEF r, e
  <2> QED
    BY <1>1, <1>5, <2>2, <2>3, <2>6, PlacesOfOwner DEF TakePreempt
<1> QED
  BY <1>3, <1>4, <1>5

\* What the loop does with a run that has ended.
LEMMA DecisionSteps ==
    ASSUME IInv, NEW t \in Turns,
           Preempts(t) \/ Unverified(t) \/ RetryFailure(t) \/ RetryFolded(t) \/ Fails(t)
    PROVE  IInv'
<1>0. run[t].pc \in Owning
  BY PlacesOfOwner DEF Preempts, Unverified, RetryFailure, RetryFolded, Fails, At
<1>1. CASE Preempts(t)
  BY <1>0, <1>1, Typed, RejoinStep DEF Preempts
<1>2. CASE Unverified(t)
  <2>1. CASE Goto(t, "admit") /\ UNCHANGED regs
    BY <1>0, <1>2, <2>1, Typed, PlacesOfOwner, GotoStep DEF Unverified
  <2>2. CASE Rejoin(t)
    BY <1>0, <1>2, <2>2, Typed, RejoinStep DEF Unverified
  <2>3. CASE Ends(t, "failed") /\ UNCHANGED regs
    BY <1>0, <1>2, <2>3, Typed, EndsStep DEF Unverified, Errors
  <2> QED
    BY <1>2, <2>1, <2>2, <2>3 DEF Unverified
<1>3. CASE RetryFailure(t)
  BY <1>0, <1>3, Typed, RejoinStep DEF RetryFailure
<1>4. CASE RetryFolded(t)
  <2> DEFINE r == Running(run[t], run[t].base)
  <2>1. run[t].base \in SUBSET Steers /\ run[t].history \in SUBSET Steers
    BY Typed DEF Runs
  <2>2. r \in Runs /\ r.pc = "asked" /\ r.reg = run[t].reg
    BY <2>1, Typed, RunningRun
  <2>3. run' = [run EXCEPT ![t] = r] /\ (seen \cup folded)' \subseteq Steers
    BY <1>4, <2>1, Typed DEF RetryFolded
  <2> HIDE DEF r
  <2> QED
    BY <1>0, <1>4, <2>2, <2>3, Typed, PlacesOfOwner, TurnStep DEF RetryFolded, outside
<1>5. CASE Fails(t)
  BY <1>0, <1>5, Typed, EndsStep DEF Fails, Errors
<1> QED
  BY <1>1, <1>2, <1>3, <1>4, <1>5

LEMMA AdmitSteps ==
    ASSUME IInv, NEW t \in Turns,
           Admit(t) \/ Pause(t) \/ Extended(t) \/ NotExtended(t)
    PROVE  IInv'
<1>0. run[t].pc \in Owning
  BY PlacesOfOwner DEF Admit, Pause, Extended, NotExtended, At
<1>1. CASE Admit(t)
  <2>1. CASE Rejoin(t)
    BY <1>0, <1>1, <2>1, Typed, RejoinStep DEF Admit
  <2>2. CASE Ends(t, "failed") /\ UNCHANGED regs
    BY <1>0, <1>1, <2>2, Typed, EndsStep DEF Admit, Errors
  <2>3. CASE Ends(t, "none") /\ UNCHANGED regs
    BY <1>0, <1>1, <2>3, Typed, EndsStep DEF Admit, Errors
  <2>4. CASE Goto(t, "pausing") /\ UNCHANGED regs
    BY <1>0, <1>1, <2>4, Typed, PlacesOfOwner, GotoStep DEF Admit
  <2> QED
    BY <1>1, <2>1, <2>2, <2>3, <2>4 DEF Admit
<1>2. \A waiting \in {"no", "open"} :
          LET r == [rt EXCEPT !.waiting = waiting]
          IN r \in RtType /\ r.running = rt.running /\ r.turn = rt.turn /\ r.parked = rt.parked
  BY Typed DEF RtType
<1>3. CASE Pause(t)
  <2>1. rt' \in RtType /\ rt'.running = rt.running /\ rt'.turn = rt.turn
        /\ rt'.parked = rt.parked
    BY <1>2, <1>3 DEF Pause
  <2> QED
    BY <1>0, <1>3, <2>1, Typed, PlacesOfOwner, GotoStep DEF Pause
<1>4. CASE Extended(t)
  <2>1. rt' \in RtType /\ rt'.running = rt.running /\ rt'.turn = rt.turn
        /\ rt'.parked = rt.parked
    BY <1>2, <1>4 DEF Extended
  <2> QED
    BY <1>0, <1>4, <2>1, RejoinStep DEF Extended
<1>5. CASE NotExtended(t)
  <2>1. rt' \in RtType /\ rt'.running = rt.running /\ rt'.turn = rt.turn
        /\ rt'.parked = rt.parked
    BY <1>2, <1>5 DEF NotExtended
  <2> QED
    BY <1>0, <1>5, <2>1, EndsStep DEF NotExtended, Errors
<1> QED
  BY <1>1, <1>3, <1>4, <1>5

-----------------------------------------------------------------------------
\* The rest of run.

LEMMA LeftoverSteps ==
    ASSUME IInv, NEW t \in Turns,
           TakeLeftover(t) \/ Outcome(t) \/ Park(t) \/ Close(t)
    PROVE  IInv'
<1> USE DEF At
<1>0. run[t].pc \in Owning /\ run[t].pc # "none" /\ run[t] \in Runs
  BY PlacesOfOwner, Typed DEF TakeLeftover, Outcome, Park, Close
<1>1. CASE TakeLeftover(t)
  <2> DEFINE r == [run[t] EXCEPT !.pc = "left", !.left = Inbox(t)]
  <2>1. r \in Runs /\ r.pc = "left" /\ r.reg = run[t].reg
    BY <1>0, OwnRegistry, PlacesOfOwner DEF Runs
  <2>2. run' = [run EXCEPT ![t] = r]
    BY <1>1 DEF TakeLeftover, IInv, TypeOK
  <2>3. regs' \in [Turns -> Registries]
    BY <1>0, <1>1, EmptyTyped DEF TakeLeftover
  <2> HIDE DEF r
  <2> QED
    BY <1>0, <1>1, <2>1, <2>2, <2>3, Typed, PlacesOfOwner, TurnStep DEF TakeLeftover, outside
<1>2. CASE Outcome(t)
  <2>1. PICK status \in {"cancelled", "done", "error"}, err \in Errors :
            run' = [run EXCEPT ![t].pc = "decided", ![t].status = status, ![t].err = err]
    BY <1>2 DEF Outcome, Errors
  <2> DEFINE r == [run[t] EXCEPT !.pc = "decided", !.status = status, !.err = err]
  <2>2. r \in Runs /\ r.pc = "decided" /\ r.reg = run[t].reg
    BY <1>0, PlacesOfOwner DEF Runs, Errors
  <2>3. run' = [run EXCEPT ![t] = r]
    BY <2>1 DEF IInv, TypeOK
  <2> HIDE DEF r
  <2> QED
    BY <1>0, <1>2, <2>2, <2>3, Typed, PlacesOfOwner, TurnStep DEF Outcome, outside
<1>3. CASE Park(t)
  <2>1. run[t].reg \in Turns /\ run[t].reg <= t /\ t <= rt.turn
    BY <1>0, OwnRegistry
  <2>2. rt' = [rt EXCEPT !.parked = run[t].reg] /\ rt \in RtType
    BY <1>3, Typed DEF Park
  <2>3. rt' \in RtType /\ rt'.running = rt.running /\ rt'.turn = rt.turn
        /\ rt'.parked = run[t].reg
    BY <2>1, <2>2 DEF RtType
  <2>4. rt'.parked <= rt.turn
    BY <2>1, <2>2, <2>3, TurnAssumption DEF Turns, NoTurn, RtType
  <2> QED
    BY <1>0, <1>3, <2>3, <2>4, Typed, PlacesOfOwner, GotoStep DEF Park
<1>4. CASE Close(t)
  <2>1. regs' \in [Turns -> Registries]
    BY <1>0, <1>4, OwnRegistry, ClosedTyped, Typed DEF Close
  <2> QED
    BY <1>0, <1>4, <2>1, Typed, PlacesOfOwner, GotoStep DEF Close
<1> QED
  BY <1>1, <1>2, <1>3, <1>4

\* The runtime is given back by its owner and by nobody else.
LEMMA ReleaseStep ==
    ASSUME IInv, NEW t \in Turns, Release(t)
    PROVE  IInv'
<1>1. run[t].pc = "closed" /\ rt.running /\ rt.turn = t
  BY PlacesOfOwner DEF Release, At, IInv, OneOwner
<1>2. rt' = [rt EXCEPT !.running = FALSE] /\ rt \in RtType
  BY <1>1, Typed DEF Release, Releases
<1>3. /\ rt' \in RtType /\ ~rt'.running /\ rt'.turn = rt.turn /\ rt'.parked = rt.parked
  BY <1>2 DEF RtType
<1> DEFINE r == [run[t] EXCEPT !.pc = "released", !.cancelled = TRUE]
<1>4. r \in Runs /\ r.pc = "released" /\ r.reg = run[t].reg
  BY Typed, PlacesOfOwner DEF Runs
<1>5. run' = [run EXCEPT ![t] = r]
  BY DEF Release, IInv, TypeOK
<1>6. \A u \in Turns : run'[u] = IF u = t THEN r ELSE run[u]
  BY <1>5 DEF IInv, TypeOK
<1> HIDE DEF r
<1>7. TypeOK'
  BY <1>1, <1>3, <1>4, <1>6, <1>5 DEF Release, IInv, TypeOK, RtType, outside
<1>8. Numbered'
  BY <1>1, <1>3, <1>4, <1>6 DEF IInv, Numbered
<1>9. CallsSound'
  BY <1>3 DEF Release, IInv, CallsSound, RequestSound, outside
<1>10. OneOwner'
  BY <1>1, <1>3, <1>4, <1>6, PlacesOfOwner DEF IInv, OneOwner
<1> QED
  BY <1>7, <1>8, <1>9, <1>10 DEF IInv

\* After its release a turn reaps the parked registry or leaves it, and goes.
LEMMA DepartureSteps ==
    ASSUME IInv, NEW t \in Turns, Reap(t) \/ NoReap(t) \/ StartNone(t) \/ Leave(t)
    PROVE  IInv'
<1> USE DEF At
<1>0. run[t].pc \in {"released", "finished", "leaving"} /\ run[t].pc # "none"
  BY DEF Reap, NoReap, StartNone, Leave
<1>1. CASE Reap(t)
  <2>1. rt.parked \in Turns
    BY <1>1, Typed DEF Reap, RtType
  <2>2. regs' \in [Turns -> Registries]
    BY <1>1, <2>1, ClosedTyped, Typed DEF Reap
  <2>3. rt' = [rt EXCEPT !.parked = NoTurn] /\ rt \in RtType
    BY <1>1, Typed DEF Reap
  <2>4. rt' \in RtType /\ rt'.running = rt.running /\ rt'.turn = rt.turn /\ rt'.parked = NoTurn
    BY <2>3 DEF RtType
  <2>5. NoTurn <= rt.turn
    BY <2>3, TurnAssumption DEF RtType, Turns, NoTurn
  <2> QED
    BY <1>0, <1>1, <2>2, <2>4, <2>5, Typed, PlacesOfOwner, GotoStep DEF Reap
<1>2. CASE NoReap(t)
  BY <1>0, <1>2, Typed, PlacesOfOwner, GotoStep DEF NoReap
<1>3. CASE StartNone(t)
  <2> DEFINE r == [run[t] EXCEPT !.pc = "leaving", !.err = "none"]
  <2>1. r \in Runs /\ r.pc = "leaving" /\ r.reg = run[t].reg
    BY Typed, PlacesOfOwner DEF Runs, Errors
  <2>2. run' = [run EXCEPT ![t] = r]
    BY <1>3 DEF StartNone, IInv, TypeOK
  <2> HIDE DEF r
  <2> QED
    BY <1>0, <1>3, <2>1, <2>2, Typed, PlacesOfOwner, TurnStep DEF StartNone, outside
<1>4. CASE Leave(t)
  <2>1. ~(rt.running /\ rt.turn = t)
    BY <1>4, PlacesOfOwner DEF Leave, IInv, OneOwner
  <2>2. rt' = rt
    BY <1>4, <2>1, Typed DEF Leave, Releases, RtType
  <2> QED
    BY <1>0, <1>4, <2>2, Typed, PlacesOfOwner, GotoStep DEF Leave
<1> QED
  BY <1>1, <1>2, <1>3, <1>4

-----------------------------------------------------------------------------
\* Starting a turn.

Departs(before, after) ==
    before.pc = "finished" /\ after.pc = "leaving" /\ after.reg = before.reg

\* A claim by a client, or by the goroutine of an earlier turn on its way out.
LEMMA ClaimStep ==
    ASSUME IInv, Starts,
           NEW runs \in [Turns -> Runs], NEW messages \in SUBSET Steers,
           \A u \in Turns : runs[u] = run[u] \/ Departs(run[u], runs[u]),
           run' = WithTurn(runs, messages),
           call' \in [Clients -> Requests],
           \A c \in Clients : call'[c] = call[c] \/ call'[c] = Idle,
           fate' \in [Steers -> Fates],
           UNCHANGED <<regs, home, seen, folded>>
    PROVE  IInv'
<1>1. rt \in RtType /\ rt.turn \in Nat /\ rt.parked \in Nat /\ rt.parked <= rt.turn
  BY Typed, TurnAssumption DEF RtType, Turns, NoTurn
<1>2. NextTurn = rt.turn + 1 /\ NextTurn \in Turns /\ ~rt.running
  BY <1>1, TurnAssumption DEF Starts, NextTurn, Turns
<1>3. /\ rt' \in RtType /\ rt'.running /\ rt'.turn = NextTurn /\ rt'.parked = NoTurn
  BY <1>1, <1>2 DEF Starts, Occupy, RtType
<1> DEFINE n == [NotStarted EXCEPT !.reg = IF rt.parked = NoTurn THEN NextTurn ELSE rt.parked]
           r == Running(n, messages)
<1>4. n \in Runs /\ n.reg \in 1 .. NextTurn
  <2>1. (IF rt.parked = NoTurn THEN NextTurn ELSE rt.parked) \in 1 .. NextTurn
    BY <1>1, <1>2 DEF NoTurn
  <2>2. 1 .. NextTurn \subseteq Turns
    BY <1>1, <1>2, TurnAssumption DEF Turns
  <2>3. NotStarted \in Runs
    BY DEF NotStarted, Runs, Places, Errors, NoTurn
  <2> QED
    BY <2>1, <2>2, <2>3 DEF Runs
<1> HIDE DEF n
<1>5. r \in Runs /\ r.pc = "asked" /\ r.reg \in 1 .. NextTurn
  BY <1>4, RunningRun
<1>6. \A u \in Turns : run'[u] = IF u = NextTurn THEN r ELSE runs[u]
  BY DEF WithTurn, n
<1>7. run' \in [Turns -> Runs]
  BY <1>2, <1>5, <1>6 DEF WithTurn, n
<1> HIDE DEF r
<1>a. run'[NextTurn] = r
  BY <1>2, <1>6
<1>b. ASSUME NEW u \in Turns, u # NextTurn
      PROVE  /\ run'[u].reg = run[u].reg
             /\ run'[u].pc = "none" <=> run[u].pc = "none"
             /\ run'[u].pc \in Owning <=> run[u].pc \in Owning
  <2>1. run'[u] = runs[u]
    BY <1>6, <1>b
  <2>2. CASE runs[u] = run[u]
    BY <2>1, <2>2
  <2>3. CASE Departs(run[u], runs[u])
    BY <2>1, <2>3, PlacesOfOwner DEF Departs
  <2> QED
    BY <2>2, <2>3
<1>8. TypeOK'
  <2>1. ASSUME NEW t \in Turns, run'[t].pc # "none" PROVE run'[t].reg \in 1 .. t
    <3>1. CASE t = NextTurn
      BY <1>5, <1>a, <3>1
    <3>2. CASE t # NextTurn
      BY <1>b, <2>1, <3>2 DEF IInv, TypeOK
    <3> QED
      BY <3>1, <3>2
  <2> QED
    BY <1>3, <1>7, <2>1 DEF IInv, TypeOK, RtType
<1>9. Numbered'
  <2>1. ASSUME NEW t \in Turns PROVE run'[t].pc = "none" <=> t > NextTurn
    <3>1. t \in Nat
      BY TurnAssumption DEF Turns
    <3>2. CASE t = NextTurn
      BY <1>5, <1>a, <3>1, <3>2
    <3>3. CASE t # NextTurn
      <4>1. run'[t].pc = "none" <=> t > rt.turn
        BY <1>b, <3>3 DEF IInv, Numbered
      <4> QED
        BY <1>1, <1>2, <3>1, <3>3, <4>1
    <3> QED
      BY <3>2, <3>3
  <2>2. NoTurn <= NextTurn /\ NextTurn # NoTurn
    BY <1>1, <1>2 DEF NoTurn
  <2> QED
    BY <1>3, <2>1, <2>2 DEF Numbered
<1>10. CallsSound'
  <2> SUFFICES ASSUME NEW c \in Clients PROVE RequestSound(call[c])'
    BY DEF CallsSound
  <2>1. call[c].turn \in Nat /\ call[c].turn <= rt.turn
    BY TurnAssumption DEF IInv, TypeOK, CallsSound, RequestSound, Requests, Turns, NoTurn
  <2>2. CASE call'[c] = call[c]
    BY <1>1, <1>2, <1>3, <2>1, <2>2 DEF IInv, CallsSound, RequestSound
  <2>3. CASE call'[c] = Idle
    BY <1>1, <1>2, <1>3, <2>3 DEF RequestSound, Idle, TurnOps, SteerOps, NoTurn
  <2> QED
    BY <2>2, <2>3
<1>11. OneOwner'
  <2>1. \A t \in Turns : run[t].pc \notin Owning
    BY <1>2 DEF IInv, OneOwner
  <2> QED
    BY <1>2, <1>3, <1>5, <1>a, <1>b, <2>1, PlacesOfOwner DEF OneOwner
<1> QED
  BY <1>8, <1>9, <1>10, <1>11 DEF IInv

LEMMA IdleRequest == Idle \in Requests
BY DEF Idle, Requests

\* The reply to a client ends its request.
LEMMA ReplyTyped ==
    ASSUME IInv, NEW c \in Clients, NEW told \in Fates, Reply(c, told)
    PROVE  /\ call' = [call EXCEPT ![c] = Idle]
           /\ call' \in [Clients -> Requests]
           /\ \A d \in Clients : call'[d] = call[d] \/ call'[d] = Idle
           /\ fate' \in [Steers -> Fates]
BY IdleRequest DEF Reply, IInv, TypeOK

LEMMA TextTyped ==
    ASSUME IInv, NEW c \in Clients
    PROVE  Text(c) \in SUBSET Steers
BY DEF IInv, TypeOK, Requests, Text

LEMMA StartSteps ==
    ASSUME IInv,
           \/ \E c \in Clients : Start(c) \/ StartInstead(c)
           \/ \E t \in Turns : StartLate(t)
    PROVE  IInv'
<1>1. run \in [Turns -> Runs] /\ call \in [Clients -> Requests] /\ fate \in [Steers -> Fates]
  BY DEF IInv, TypeOK
<1>2. ASSUME NEW c \in Clients, Start(c) PROVE IInv'
  <2>1. Starts /\ run' = WithTurn(run, {}) /\ UNCHANGED <<regs, call, fate, home, seen, folded>>
    BY <1>2 DEF Start
  <2>2. call' \in [Clients -> Requests] /\ fate' \in [Steers -> Fates]
        /\ \A d \in Clients : call'[d] = call[d] \/ call'[d] = Idle
    BY <1>1, <2>1
  <2> QED
    BY <1>1, <2>1, <2>2, ClaimStep
<1>3. ASSUME NEW c \in Clients, StartInstead(c) PROVE IInv'
  <2>1. "started" \in Fates
    BY DEF Fates
  <2>2. /\ Starts /\ run' = WithTurn(run, Text(c)) /\ Reply(c, "started")
        /\ UNCHANGED <<regs, home, seen, folded>>
    BY <1>3 DEF StartInstead
  <2>3. /\ call' \in [Clients -> Requests] /\ fate' \in [Steers -> Fates]
        /\ \A d \in Clients : call'[d] = call[d] \/ call'[d] = Idle
    BY <2>1, <2>2, ReplyTyped
  <2>4. Text(c) \in SUBSET Steers
    BY TextTyped
  <2> QED
    BY <1>1, <2>2, <2>3, <2>4, ClaimStep
<1>4. ASSUME NEW t \in Turns, StartLate(t) PROVE IInv'
  <2> DEFINE runs == [run EXCEPT ![t].pc = "leaving", ![t].err = "none"]
             after == [run[t] EXCEPT !.pc = "leaving", !.err = "none"]
  <2>1. run[t].pc = "finished" /\ run[t].left \in SUBSET Steers
    BY <1>1, <1>4 DEF StartLate, At, Runs
  <2>2. after \in Runs /\ after.pc = "leaving" /\ after.reg = run[t].reg
    BY <1>1, PlacesOfOwner DEF Runs, Errors
  <2>3. runs \in [Turns -> Runs]
    BY <1>1, <2>2
  <2>4. ASSUME NEW u \in Turns PROVE runs[u] = run[u] \/ Departs(run[u], runs[u])
    <3>1. CASE u = t
      BY <1>1, <2>1, <2>2, <3>1 DEF Departs
    <3>2. CASE u # t
      BY <1>1, <3>2
    <3> QED
      BY <3>1, <3>2
  <2>5. run' = WithTurn(runs, run[t].left)
    BY <1>4 DEF StartLate
  <2> HIDE DEF runs
  <2> QED
    BY <1>1, <1>4, <2>1, <2>3, <2>4, <2>5, ClaimStep DEF StartLate, outside
<1> QED
  BY <1>2, <1>3, <1>4

-----------------------------------------------------------------------------
\* Clients.

\* A step of a client that leaves the runtime with its owner.
LEMMA ClientStepSound ==
    ASSUME IInv, NEW c \in Clients, NEW request \in Requests, RequestSound(request),
           call' = [call EXCEPT ![c] = request],
           rt' \in RtType, rt'.running = rt.running, rt'.turn = rt.turn,
           rt'.parked <= rt.turn,
           regs' \in [Turns -> Registries], run' \in [Turns -> Runs],
           \A t \in Turns : run'[t].pc = run[t].pc /\ run'[t].reg = run[t].reg,
           fate' \in [Steers -> Fates], home' \in [Steers -> Turns \cup {NoTurn}],
           UNCHANGED <<seen, folded>>
    PROVE  IInv'
<1> USE DEF IInv
<1>1. TypeOK'
  BY DEF TypeOK, RtType
<1>2. Numbered'
  BY DEF Numbered
<1>3. CallsSound'
  <2> SUFFICES ASSUME NEW d \in Clients PROVE RequestSound(call[d])'
    BY DEF CallsSound
  <2>1. RequestSound(call'[d])
    BY DEF CallsSound, TypeOK
  <2> QED
    BY <2>1 DEF RequestSound
<1>4. OneOwner'
  BY DEF OneOwner
<1> QED
  BY <1>1, <1>2, <1>3, <1>4

\* One that touches nothing but its request.
LEMMA QuietStep ==
    ASSUME IInv, NEW c \in Clients, NEW request \in Requests, RequestSound(request),
           call' = [call EXCEPT ![c] = request],
           fate' \in [Steers -> Fates],
           UNCHANGED <<rt, regs, run, home, seen, folded>>
    PROVE  IInv'
<1>1. run \in [Turns -> Runs] /\ home \in [Steers -> Turns \cup {NoTurn}]
  BY DEF IInv, TypeOK
<1> QED
  BY <1>1, Typed, ClientStepSound

LEMMA IdleSound ==
    ASSUME IInv
    PROVE  Idle \in Requests /\ RequestSound(Idle)
<1>1. NoTurn <= rt.turn
  BY Typed, TurnAssumption DEF RtType, Turns, NoTurn
<1> QED
  BY <1>1, IdleRequest DEF RequestSound, Idle, TurnOps, SteerOps

LEMMA CallTyped ==
    ASSUME IInv, NEW c \in Clients
    PROVE  /\ call[c] \in Requests /\ RequestSound(call[c])
           /\ call = [call EXCEPT ![c] = call[c]]
BY DEF IInv, TypeOK, CallsSound

\* The registry a request works on.
LEMMA CalledRegistry ==
    ASSUME IInv, NEW c \in Clients, call[c].op \in TurnOps
    PROVE  /\ call[c].turn \in Turns
           /\ CalledReg(c) \in Turns
           /\ regs[CalledReg(c)] \in Registries
<1>1. call[c].turn \in Turns /\ call[c].turn <= rt.turn
  BY CallTyped DEF RequestSound, Requests
<1>2. run[call[c].turn].pc # "none"
  BY <1>1, Typed, TurnAssumption DEF IInv, Numbered, RtType, Turns, NoTurn
<1> QED
  BY <1>1, <1>2, OwnRegistry DEF CalledReg

LEMMA RequestSteps ==
    ASSUME IInv, NEW c \in Clients,
           \/ StartRefused(c) \/ SteerMissed(c) \/ RetractMissed(c) \/ PreemptCheck(c)
           \/ PreemptCall(c) \/ StopCall(c)
           \/ \E m \in Steers : SteerCall(c, m) \/ RetractCall(c, m)
    PROVE  IInv'
<1>0. fate \in [Steers -> Fates] /\ rt.turn \in Turns \cup {NoTurn}
  BY DEF IInv, TypeOK
<1>1. CASE StartRefused(c)
  <2>1. "refused" \in Fates /\ Reply(c, "refused")
    BY <1>1 DEF StartRefused, Fates
  <2> QED
    BY <1>1, <2>1, ReplyTyped, IdleSound, QuietStep DEF StartRefused
<1>2. CASE SteerMissed(c)
  <2> DEFINE q == [call[c] EXCEPT !.op = "start"]
  <2>1. q \in Requests /\ RequestSound(q)
    BY CallTyped DEF Requests, RequestSound, TurnOps, SteerOps
  <2>2. call' = [call EXCEPT ![c] = q]
    BY <1>2 DEF SteerMissed, IInv, TypeOK
  <2> HIDE DEF q
  <2> QED
    BY <1>0, <1>2, <2>1, <2>2, QuietStep DEF SteerMissed
<1>3. CASE RetractMissed(c)
  BY <1>0, <1>3, IdleSound, QuietStep DEF RetractMissed
<1>4. CASE PreemptCheck(c)
  <2> DEFINE q == [call[c] EXCEPT !.op = "fire"]
  <2>1. call[c].op = "preempt"
    BY <1>4 DEF PreemptCheck
  <2>2. q \in Requests /\ RequestSound(q)
    BY <2>1, CallTyped DEF Requests, RequestSound, TurnOps, SteerOps
  <2>3. call' = [call EXCEPT ![c] = q] \/ call' = [call EXCEPT ![c] = Idle]
    BY <1>4 DEF PreemptCheck, IInv, TypeOK
  <2> HIDE DEF q
  <2> QED
    BY <1>0, <1>4, <2>2, <2>3, IdleSound, QuietStep DEF PreemptCheck
<1>5. ASSUME NEW op \in TurnOps, NEW m \in Steers \cup {Nil}, op \in SteerOps => m \in Steers,
             Reads(c, op, m)
      PROVE  IInv'
  <2> DEFINE q == [op |-> op, steer |-> m, turn |-> rt.turn]
  <2>1. rt.turn \in Turns
    BY <1>0, <1>5 DEF Reads, IInv, Numbered
  <2>2. q \in Requests
    BY <1>5, <2>1 DEF Requests
  <2>3. RequestSound(q)
    BY <1>5, <2>1, TurnAssumption DEF RequestSound, Turns, NoTurn
  <2>4. call' = [call EXCEPT ![c] = q]
    BY <1>5 DEF Reads
  <2> HIDE DEF q
  <2> QED
    BY <1>0, <1>5, <2>2, <2>3, <2>4, QuietStep DEF Reads
<1>6. CASE PreemptCall(c) \/ StopCall(c)
  BY <1>5, <1>6 DEF PreemptCall, StopCall, TurnOps, SteerOps
<1>7. ASSUME NEW m \in Steers, RetractCall(c, m) PROVE IInv'
  BY <1>5, <1>7 DEF RetractCall, TurnOps
<1>8. ASSUME NEW m \in Steers, SteerCall(c, m) PROVE IInv'
  <2> DEFINE q == [op |-> IF rt.running THEN "steer" ELSE "start", steer |-> m,
                   turn |-> IF rt.running THEN rt.turn ELSE NoTurn]
  <2>1. rt.running => rt.turn \in Turns
    BY <1>0 DEF IInv, Numbered
  <2>2. q \in Requests
    BY <2>1 DEF Requests, TurnOps
  <2>3. RequestSound(q)
    <3>1. CASE rt.running
      BY <2>1, <3>1, TurnAssumption DEF RequestSound, Turns, NoTurn
    <3>2. CASE ~rt.running
      BY <1>0, <3>2, TurnAssumption DEF RequestSound, TurnOps, SteerOps, Turns, NoTurn
    <3> QED
      BY <3>1, <3>2
  <2>4. call' = [call EXCEPT ![c] = q]
    BY <1>8 DEF SteerCall
  <2>5. fate' \in [Steers -> Fates]
    BY <1>0, <1>8 DEF SteerCall, Fates
  <2> HIDE DEF q
  <2> QED
    BY <1>8, <2>2, <2>3, <2>4, <2>5, QuietStep DEF SteerCall
<1> QED
  BY <1>1, <1>2, <1>3, <1>4, <1>6, <1>7, <1>8

\* The answer to a pause.
LEMMA SignalTyped ==
    ASSUME IInv, NEW decision \in {"yes", "stop"}
    PROVE  LET s == Signal(decision)
           IN s \in RtType /\ s.running = rt.running /\ s.turn = rt.turn /\ s.parked = rt.parked
BY Typed DEF Signal, RtType

LEMMA SteerSteps ==
    ASSUME IInv, NEW c \in Clients, SteerLand(c) \/ RetractTake(c) \/ PreemptFire(c)
    PROVE  IInv'
<1>1. call[c].op \in TurnOps
  BY DEF SteerLand, RetractTake, PreemptFire, TurnOps
<1>2. /\ call[c].turn \in Turns /\ CalledReg(c) \in Turns
      /\ regs[CalledReg(c)] \in Registries /\ Text(c) \in SUBSET Steers
  BY <1>1, CalledRegistry, TextTyped
<1>3. /\ run \in [Turns -> Runs] /\ home \in [Steers -> Turns \cup {NoTurn}]
      /\ fate \in [Steers -> Fates]
  BY DEF IInv, TypeOK
<1>4. CASE SteerLand(c)
  <2>1. rt.turn = call[c].turn /\ Current = CalledReg(c)
    BY <1>4 DEF SteerLand, StillOwner, Current, CalledReg
  <2>2. call[c].steer \in Steers
    BY <1>4, CallTyped DEF SteerLand, Requests, RequestSound, SteerOps
  <2>3. home' \in [Steers -> Turns \cup {NoTurn}]
    BY <1>2, <1>3, <1>4, <2>1, <2>2 DEF SteerLand
  <2>4. [regs[CalledReg(c)] EXCEPT !.inbox = @ \cup Text(c)] \in Registries
    BY <1>2 DEF Registries
  <2>5. regs' \in [Turns -> Registries]
    BY <1>2, <1>4, <2>1, <2>4, Typed DEF SteerLand
  <2>6. run' \in [Turns -> Runs] /\ \A t \in Turns : run'[t].pc = run[t].pc /\ run'[t].reg = run[t].reg
    <3> DEFINE r == [run[rt.turn] EXCEPT !.failure = "superseded"]
    <3>1. r \in Runs /\ r.pc = run[rt.turn].pc /\ r.reg = run[rt.turn].reg
      BY <1>2, <1>3, <2>1 DEF Runs
    <3>2. run' = run \/ run' = [run EXCEPT ![rt.turn] = r]
      BY <1>2, <1>3, <1>4, <2>1 DEF SteerLand, Supersede
    <3> HIDE DEF r
    <3> QED
      BY <1>2, <1>3, <2>1, <3>1, <3>2
  <2>7. "accepted" \in Fates /\ Reply(c, "accepted")
    BY <1>4 DEF SteerLand, Fates
  <2>8. rt' = Signal("yes") /\ UNCHANGED <<seen, folded>>
    BY <1>4 DEF SteerLand
  <2> QED
    BY <2>3, <2>5, <2>6, <2>7, <2>8, ReplyTyped, SignalTyped, IdleSound, Typed, ClientStepSound
<1>5. CASE RetractTake(c)
  <2> DEFINE e == [regs[CalledReg(c)] EXCEPT !.inbox = @ \ Text(c), !.due = @ \ Text(c)]
  <2>1. e \in Registries
    BY <1>2 DEF Registries
  <2>2. regs' = [regs EXCEPT ![CalledReg(c)] = e]
    BY <1>2, <1>5, Typed DEF RetractTake
  <2>3. regs' \in [Turns -> Registries]
    BY <1>2, <2>1, <2>2, Typed
  <2>4. "retracted" \in Fates /\ Reply(c, "retracted")
    BY <1>5 DEF RetractTake, Fates
  <2>5. UNCHANGED <<rt, run, home, seen, folded>>
    BY <1>5 DEF RetractTake
  <2> HIDE DEF e
  <2> QED
    BY <1>3, <2>3, <2>4, <2>5, ReplyTyped, IdleSound, Typed, ClientStepSound
<1>6. CASE PreemptFire(c)
  <2>1. UNCHANGED <<rt, fate, home, seen, folded>> /\ call' = [call EXCEPT ![c] = Idle]
    BY <1>6 DEF PreemptFire
  <2>2. regs' \in [Turns -> Registries]
    <3>1. regs' = regs \/ \E promised \in BOOLEAN :
              regs' = [regs EXCEPT ![CalledReg(c)] = Preempted(regs[CalledReg(c)], promised)]
      BY <1>6 DEF PreemptFire
    <3> QED
      BY <1>2, <3>1, PreemptedTyped, Typed
  <2>3. run' \in [Turns -> Runs] /\ \A t \in Turns : run'[t].pc = run[t].pc /\ run'[t].reg = run[t].reg
    <3>1. CASE run' = run
      BY <1>3, <3>1
    <3>2. CASE Interrupt(CalledReg(c))
      <4>1. \A r \in Runs : LET q == [r EXCEPT !.failure = "interrupted"]
                             IN q \in Runs /\ q.pc = r.pc /\ q.reg = r.reg
        BY DEF Runs
      <4> QED
        BY <1>3, <3>2, <4>1 DEF Interrupt
    <3> QED
      BY <1>6, <3>1, <3>2 DEF PreemptFire
  <2> QED
    BY <1>3, <2>1, <2>2, <2>3, IdleSound, Typed, ClientStepSound
<1> QED
  BY <1>4, <1>5, <1>6

LEMMA StopSteps ==
    ASSUME IInv, NEW c \in Clients,
           \/ StopLand(c) \/ StopDeny(c) \/ StopCancel(c) \/ StopParked(c)
           \/ \E decision \in {"yes", "stop"} : Continue(c, decision)
    PROVE  IInv'
<1>1. /\ run \in [Turns -> Runs] /\ home \in [Steers -> Turns \cup {NoTurn}]
      /\ fate \in [Steers -> Fates]
  BY DEF IInv, TypeOK
<1>2. call[c].op \in TurnOps => \A op \in {"deny", "cancel"} :
          LET q == [call[c] EXCEPT !.op = op] IN q \in Requests /\ RequestSound(q)
  BY CallTyped DEF Requests, RequestSound, TurnOps, SteerOps
<1>3. CASE StopLand(c)
  <2> DEFINE s == [rt EXCEPT !.stopped = TRUE]
  <2>1. call[c].op \in TurnOps
    BY <1>3 DEF StopLand, TurnOps
  <2>2. s \in RtType /\ s.running = rt.running /\ s.turn = rt.turn /\ s.parked = rt.parked
    BY Typed DEF RtType
  <2>3. rt' = rt \/ rt' = s
    BY <1>3 DEF StopLand
  <2>4. PICK request \in Requests : call' = [call EXCEPT ![c] = request] /\ RequestSound(request)
    <3>1. \/ call' = [call EXCEPT ![c] = Idle]
          \/ \E op \in {"deny", "cancel"} : call' = [call EXCEPT ![c] = [call[c] EXCEPT !.op = op]]
      BY <1>3 DEF StopLand
    <3> QED
      BY <1>2, <2>1, <3>1, IdleSound
  <2>5. UNCHANGED <<regs, run, fate, home, seen, folded>>
    BY <1>3 DEF StopLand
  <2> HIDE DEF s
  <2> QED
    BY <1>1, <2>2, <2>3, <2>4, <2>5, Typed, ClientStepSound
<1>4. CASE StopDeny(c)
  <2>1. call[c].op \in TurnOps
    BY <1>4 DEF StopDeny, TurnOps
  <2> DEFINE q == [call[c] EXCEPT !.op = "cancel"]
  <2>2. q \in Requests /\ RequestSound(q)
    BY <1>2, <2>1
  <2>3. call' = [call EXCEPT ![c] = q]
    BY <1>4, CallTyped DEF StopDeny, IInv, TypeOK
  <2>4. rt' = rt \/ rt' = Signal("stop")
    BY <1>4 DEF StopDeny
  <2>5. UNCHANGED <<regs, run, fate, home, seen, folded>>
    BY <1>4 DEF StopDeny
  <2> HIDE DEF q
  <2> QED
    BY <1>1, <2>2, <2>3, <2>4, <2>5, SignalTyped, Typed, ClientStepSound
<1>5. CASE StopCancel(c)
  <2>1. PICK t \in Turns : t = call[c].turn
    BY <1>5, CalledRegistry DEF StopCancel, TurnOps
  <2> DEFINE r == [run[t] EXCEPT !.cancelled = TRUE]
  <2>2. r \in Runs /\ r.pc = run[t].pc /\ r.reg = run[t].reg
    BY <1>1 DEF Runs
  <2>3. run' = [run EXCEPT ![t].cancelled = TRUE]
    BY <1>5, <2>1 DEF StopCancel
  <2>4. run' = [run EXCEPT ![t] = r]
    BY <1>1, <2>3
  <2> HIDE DEF r
  <2>5. run' \in [Turns -> Runs] /\ \A u \in Turns : run'[u].pc = run[u].pc /\ run'[u].reg = run[u].reg
    BY <1>1, <2>2, <2>4
  <2> QED
    BY <1>1, <1>5, <2>5, IdleSound, Typed, ClientStepSound DEF StopCancel
<1>6. CASE StopParked(c)
  <2>1. rt.parked \in Turns
    BY <1>6, Typed DEF StopParked, RtType
  <2>2. regs' \in [Turns -> Registries]
    BY <1>6, <2>1, ClosedTyped, Typed DEF StopParked
  <2>3. rt' = [rt EXCEPT !.parked = NoTurn, !.stopped = TRUE] /\ rt \in RtType
    BY <1>6, Typed DEF StopParked
  <2>4. rt' \in RtType /\ rt'.running = rt.running /\ rt'.turn = rt.turn /\ rt'.parked = NoTurn
    BY <2>3 DEF RtType
  <2>5. NoTurn <= rt.turn
    BY <2>3, TurnAssumption DEF RtType, Turns, NoTurn
  <2> QED
    BY <1>1, <1>6, <2>2, <2>4, <2>5, CallTyped, Typed, ClientStepSound DEF StopParked
<1>7. ASSUME NEW decision \in {"yes", "stop"}, Continue(c, decision) PROVE IInv'
  BY <1>1, <1>7, SignalTyped, CallTyped, Typed, ClientStepSound DEF Continue
<1> QED
  BY <1>3, <1>4, <1>5, <1>6, <1>7

-----------------------------------------------------------------------------

LEMMA NextInv == IInv /\ [Next]_vars => IInv'
<1> SUFFICES ASSUME IInv, [Next]_vars PROVE IInv'
  OBVIOUS
<1>1. ASSUME NEW c \in Clients, ClientStep(c) PROVE IInv'
  BY <1>1, StartSteps, RequestSteps, SteerSteps, StopSteps DEF ClientStep
<1>2. ASSUME NEW t \in Turns, OwnStep(t) PROVE IInv'
  <2>1. CASE \/ Drain(t) \/ Generate(t) \/ Drop(t) \/ Tool(t) \/ Returned(t)
             \/ Verify(t) \/ Verified(t) \/ TakePreempt(t)
    BY <2>1, DrainStep, CallSteps, RunEndSteps, VerifySteps
  <2>2. CASE \/ Preempts(t) \/ Unverified(t) \/ RetryFailure(t) \/ RetryFolded(t) \/ Fails(t)
             \/ Admit(t) \/ Pause(t) \/ Extended(t) \/ NotExtended(t)
    BY <2>2, DecisionSteps, AdmitSteps
  <2>3. CASE \/ TakeLeftover(t) \/ Outcome(t) \/ Park(t) \/ Close(t) \/ Release(t)
             \/ Reap(t) \/ NoReap(t) \/ StartLate(t) \/ StartNone(t) \/ Leave(t)
    BY <2>3, LeftoverSteps, ReleaseStep, DepartureSteps, StartSteps
  <2> QED
    BY <1>2, <2>1, <2>2, <2>3 DEF OwnStep
<1>3. ASSUME NEW t \in Turns, ServiceStep(t) PROVE IInv'
  BY <1>3, CallSteps, RunEndSteps DEF ServiceStep
<1>4. CASE UNCHANGED vars
  BY <1>4 DEF vars, IInv, TypeOK, Numbered, CallsSound, RequestSound, OneOwner
<1> QED
  BY <1>1, <1>2, <1>3, <1>4 DEF Next

\* Every field keeps its domain: no turn, request or registry points at what was never
\* started (claimRegistry, and the handlers that read the running turn first).
THEOREM TypeCorrect == Spec => []TypeOK
<1>1. IInv => TypeOK
  BY DEF IInv
<1> QED
  BY InitInv, NextInv, <1>1, PTL DEF Spec

\* One turn at a time owns the runtime, for any clients, messages and number of turns:
\* the second release of a turn that has gone does not free the runtime of the next.
THEOREM RuntimeHasOneOwner == Spec => []OneOwner
<1>1. IInv => OneOwner
  BY DEF IInv
<1> QED
  BY InitInv, NextInv, <1>1, PTL DEF Spec

-----------------------------------------------------------------------------
\* Where messages are: with a sender whose request is under way, in one inbox, or among
\* the words of a turn.

Words(t) == run[t].base \cup run[t].history \cup run[t].left

Unread(m) == \A t \in Turns : m \notin Words(t)

Waits(m) == {r \in Turns : m \in regs[r].inbox}

\* A message that was not delivered, or was taken back, is nowhere; one that waits is in
\* one inbox and has not been read.
MessageSound(m) ==
    /\ fate[m] \in {"unsent", "sent", "refused", "retracted"} => Waits(m) = {} /\ Unread(m)
    /\ Waits(m) # {} => Unread(m)
    /\ \A r, s \in Waits(m) : r = s
    /\ (Waits(m) # {} \/ fate[m] = "retracted") => home[m] \in Turns

Sending(c) == call[c].op \in {"steer", "start"}

\* No two requests deliver the same message.
SendersSound ==
    \A c \in Clients : Sending(c) =>
        /\ call[c].steer \in Steers
        /\ fate[call[c].steer] = "sent"
        /\ \A d \in Clients : (Sending(d) /\ call[d].steer = call[c].steer) => d = c

MessagesInv ==
    /\ \A m \in Steers : MessageSound(m)
    /\ SendersSound

InboxesShrink == \A r \in Turns : regs'[r].inbox \subseteq regs[r].inbox

InboxesSame == \A r \in Turns : regs'[r].inbox = regs[r].inbox

WordsShrink == \A t \in Turns : Words(t)' \subseteq Words(t)

\* Messages are read only as they leave the inbox they wait in.
LEMMA MessageFlow ==
    ASSUME \A m \in Steers : MessageSound(m), UNCHANGED <<fate, home>>, InboxesShrink,
           \A m \in Steers : Unread(m) => Unread(m)' \/ (Waits(m) # {} /\ Waits(m)' = {})
    PROVE  (\A m \in Steers : MessageSound(m))'
<1> SUFFICES ASSUME NEW m \in Steers PROVE MessageSound(m)'
  OBVIOUS
<1>1. Waits(m)' \subseteq Waits(m)
  BY DEF Waits, InboxesShrink
<1>2. MessageSound(m)
  OBVIOUS
<1>3. (fate[m] \in {"unsent", "sent", "refused", "retracted"} => Waits(m) = {} /\ Unread(m))'
  BY <1>1, <1>2 DEF MessageSound
<1>4. (Waits(m) # {} => Unread(m))'
  BY <1>1, <1>2 DEF MessageSound
<1>5. (\A r, s \in Waits(m) : r = s)'
  BY <1>1, <1>2 DEF MessageSound
<1>6. ((Waits(m) # {} \/ fate[m] = "retracted") => home[m] \in Turns)'
  BY <1>1, <1>2 DEF MessageSound
<1> QED
  BY <1>3, <1>4, <1>5, <1>6 DEF MessageSound

LEMMA QuietFlow ==
    ASSUME \A m \in Steers : MessageSound(m), UNCHANGED <<fate, home>>, InboxesShrink,
           WordsShrink
    PROVE  (\A m \in Steers : MessageSound(m))'
<1>1. \A m \in Steers : Unread(m) => Unread(m)'
  BY DEF WordsShrink, Unread
<1> QED
  BY <1>1, MessageFlow

\* A step of one request, which keeps its message, or gives it up as its fate is told.
LEMMA SendersFlow ==
    ASSUME IInv, SendersSound, NEW c \in Clients, NEW q,
           call' = [call EXCEPT ![c] = q],
           q.op \in {"steer", "start"} => Sending(c) /\ q.steer = call[c].steer,
           \A m \in Steers : \/ fate'[m] = fate[m]
                             \/ fate[m] # "sent"
                             \/ /\ Sending(c) /\ call[c].steer = m
                                /\ q.op \notin {"steer", "start"}
    PROVE  SendersSound'
<1>1. \A d \in Clients : call'[d] = IF d = c THEN q ELSE call[d]
  BY DEF IInv, TypeOK
<1>2. ASSUME NEW d \in Clients, Sending(d)'
      PROVE  Sending(d) /\ call'[d].steer = call[d].steer
  BY <1>1, <1>2 DEF Sending
<1>3. ASSUME NEW d \in Clients, Sending(d)'
      PROVE  fate'[call[d].steer] = "sent"
  <2>1. call[d].steer \in Steers /\ fate[call[d].steer] = "sent"
    BY <1>2, <1>3 DEF SendersSound
  <2>2. CASE d = c
    BY <1>1, <1>3, <2>1, <2>2 DEF Sending
  <2>3. CASE d # c
    BY <1>2, <1>3, <2>1, <2>3 DEF SendersSound
  <2> QED
    BY <2>2, <2>3
<1> QED
  BY <1>2, <1>3 DEF SendersSound

LEMMA MessagesInit == Init => MessagesInv
<1> SUFFICES ASSUME Init PROVE MessagesInv
  OBVIOUS
<1>1. \A t \in Turns : Words(t) = {}
  BY DEF Init, NotStarted, Words
<1>2. \A m \in Steers : Waits(m) = {}
  BY DEF Init, Waits
<1>3. \A m \in Steers : fate[m] = "unsent"
  BY DEF Init
<1>4. \A c \in Clients : ~Sending(c)
  BY DEF Init, Idle, Sending
<1> QED
  BY <1>1, <1>2, <1>3, <1>4 DEF MessagesInv, MessageSound, SendersSound, Unread

-----------------------------------------------------------------------------
\* The turn's goroutine.

\* A step of a turn whose words come from its own and, as it empties it, its inbox.
LEMMA TurnFlow ==
    ASSUME IInv, MessagesInv, NEW t \in Turns, run[t].pc # "none", UNCHANGED outside,
           \A u \in Turns \ {t} : run'[u] = run[u],
           Words(t)' \subseteq Words(t) \cup Inbox(t),
           Empty(t)
    PROVE  MessagesInv'
<1>1. run[t].reg \in Turns /\ regs \in [Turns -> Registries]
  BY OwnRegistry, Typed
<1>2. \A r \in Turns : regs'[r].inbox = IF r = run[t].reg THEN {} ELSE regs[r].inbox
  BY <1>1 DEF Empty, Registries
<1>3. InboxesShrink
  BY <1>2 DEF InboxesShrink
<1>4. ASSUME NEW m \in Steers, Unread(m), ~Unread(m)'
      PROVE  Waits(m) # {} /\ Waits(m)' = {}
  <2>1. m \in Inbox(t)
    <3>1. PICK u \in Turns : m \in Words(u)'
      BY <1>4 DEF Unread
    <3>2. u = t
      BY <1>4, <3>1 DEF Unread, Words
    <3> QED
      BY <1>4, <3>1, <3>2 DEF Unread
  <2>2. run[t].reg \in Waits(m)
    BY <1>1, <2>1 DEF Waits, Inbox
  <2>3. \A r \in Waits(m) : r = run[t].reg
    BY <2>2 DEF MessagesInv, MessageSound
  <2> QED
    BY <1>2, <2>2, <2>3 DEF Waits
<1>5. (\A m \in Steers : MessageSound(m))'
  BY <1>3, <1>4, MessageFlow DEF MessagesInv, outside
<1>6. SendersSound'
  BY DEF MessagesInv, SendersSound, Sending, outside
<1> QED
  BY <1>5, <1>6 DEF MessagesInv

\* One that reads nothing.
LEMMA TurnQuiet ==
    ASSUME MessagesInv, UNCHANGED outside, InboxesShrink, WordsShrink
    PROVE  MessagesInv'
<1>1. (\A m \in Steers : MessageSound(m))'
  BY QuietFlow DEF MessagesInv, outside
<1>2. SendersSound'
  BY DEF MessagesInv, SendersSound, Sending, outside
<1> QED
  BY <1>1, <1>2 DEF MessagesInv

\* A step that replaces one registry, or one turn's variables.
LEMMA InboxOfOne ==
    ASSUME IInv, NEW x \in Turns, NEW e, regs' = [regs EXCEPT ![x] = e],
           e.inbox = regs[x].inbox
    PROVE  InboxesShrink /\ InboxesSame
BY Typed DEF InboxesShrink, InboxesSame

LEMMA WordsOfOne ==
    ASSUME IInv, NEW t \in Turns, NEW r, run' = [run EXCEPT ![t] = r],
           r.base \cup r.history \cup r.left \subseteq Words(t)
    PROVE  WordsShrink
BY DEF IInv, TypeOK, Words, WordsShrink

LEMMA Reading ==
    ASSUME IInv, MessagesInv, NEW t \in Turns, Drain(t) \/ TakeLeftover(t) \/ Rejoin(t),
           run[t].pc # "none", UNCHANGED outside
    PROVE  MessagesInv'
<1>1. run \in [Turns -> Runs] /\ run[t] \in Runs
  BY DEF IInv, TypeOK
<1>2. Empty(t) /\ \A u \in Turns \ {t} : run'[u] = run[u]
  BY <1>1 DEF Drain, TakeLeftover, Rejoin
<1>3. Words(t)' \subseteq Words(t) \cup Inbox(t)
  <2>1. CASE Drain(t)
    <3> DEFINE r == [run[t] EXCEPT !.pc = "drained", !.history = @ \cup Inbox(t)]
    <3>1. run'[t] = r
      BY <1>1, <2>1 DEF Drain
    <3>2. r.base = run[t].base /\ r.history = run[t].history \cup Inbox(t)
          /\ r.left = run[t].left
      BY <1>1 DEF Runs
    <3> QED
      BY <3>1, <3>2 DEF Words
  <2>2. CASE TakeLeftover(t)
    <3> DEFINE r == [run[t] EXCEPT !.pc = "left", !.left = Inbox(t)]
    <3>1. run'[t] = r
      BY <1>1, <2>2 DEF TakeLeftover
    <3>2. r.base = run[t].base /\ r.history = run[t].history /\ r.left = Inbox(t)
      BY <1>1 DEF Runs
    <3> QED
      BY <3>1, <3>2 DEF Words
  <2>3. CASE Rejoin(t)
    <3> DEFINE messages == run[t].history \cup Inbox(t)
               r == Running(run[t], messages)
    <3>1. run'[t] = r
      BY <1>1, <2>3 DEF Rejoin
    <3>2. r.base = messages /\ r.history = messages /\ r.left = run[t].left
      BY <1>1 DEF Runs, Running
    <3> QED
      BY <3>1, <3>2 DEF Words
  <2> QED
    BY <2>1, <2>2, <2>3
<1> QED
  BY <1>2, <1>3, TurnFlow

\* What else a turn does to the registries empties no inbox and fills none.
LEMMA InboxKept ==
    ASSUME IInv, NEW t \in Turns, run[t].pc # "none",
           \/ UNCHANGED regs \/ Bind(t) \/ Unbind(t) \/ TakePreempt(t) \/ Close(t)
           \/ Reap(t)
    PROVE  InboxesShrink /\ InboxesSame
<1>1. /\ run[t].reg \in Turns /\ regs \in [Turns -> Registries]
      /\ regs[run[t].reg] \in Registries
  BY OwnRegistry, Typed
<1>0. \A reg \in Registries : /\ Closed(reg).inbox = reg.inbox
                              /\ Bound(reg).inbox = reg.inbox
                              /\ [reg EXCEPT !.epoch = "none"].inbox = reg.inbox
                              /\ [reg EXCEPT !.preempted = FALSE, !.armed = FALSE].inbox
                                    = reg.inbox
  BY DEF Closed, Bound, Registries
<1>2. CASE UNCHANGED regs
  BY <1>2 DEF InboxesShrink, InboxesSame
<1>3. CASE Bind(t)
  BY <1>0, <1>1, <1>3, InboxOfOne DEF Bind
<1>4. CASE Unbind(t)
  <2>1. regs' = [regs EXCEPT ![run[t].reg] = [regs[run[t].reg] EXCEPT !.epoch = "none"]]
    BY <1>1, <1>4 DEF Unbind
  <2> QED
    BY <1>0, <1>1, <2>1, InboxOfOne
<1>5. CASE TakePreempt(t)
  <2>1. regs' = [regs EXCEPT ![run[t].reg] =
                    [regs[run[t].reg] EXCEPT !.preempted = FALSE, !.armed = FALSE]]
    BY <1>1, <1>5 DEF TakePreempt
  <2> QED
    BY <1>0, <1>1, <2>1, InboxOfOne
<1>6. CASE Close(t)
  BY <1>0, <1>1, <1>6, InboxOfOne DEF Close
<1>7. CASE Reap(t)
  <2>1. rt.parked \in Turns
    BY <1>7, Typed DEF Reap, RtType
  <2> QED
    BY <1>0, <1>1, <1>7, <2>1, InboxOfOne DEF Reap
<1> QED
  BY <1>2, <1>3, <1>4, <1>5, <1>6, <1>7

LEMMA MovesQuietly ==
    ASSUME IInv, NEW t \in Turns,
           (\E place \in Places : Goto(t, place)) \/ (\E err \in Errors : Ends(t, err))
    PROVE  WordsShrink
<1>1. run \in [Turns -> Runs] /\ run[t] \in Runs
  BY DEF IInv, TypeOK
<1>2. ASSUME NEW place \in Places, Goto(t, place) PROVE WordsShrink
  <2> DEFINE r == [run[t] EXCEPT !.pc = place]
  <2>1. run' = [run EXCEPT ![t] = r]
    BY <1>1, <1>2 DEF Goto
  <2>2. r.base = run[t].base /\ r.history = run[t].history /\ r.left = run[t].left
    BY <1>1 DEF Runs
  <2> HIDE DEF r
  <2> QED
    BY <2>1, <2>2, WordsOfOne DEF Words
<1>3. ASSUME NEW err \in Errors, Ends(t, err) PROVE WordsShrink
  <2> DEFINE r == Ended(run[t], err)
  <2>1. run' = [run EXCEPT ![t] = r]
    BY <1>3 DEF Ends
  <2>2. r.base = {} /\ r.history = run[t].history /\ r.left = run[t].left
    BY <1>1 DEF Ended, Runs
  <2> HIDE DEF r
  <2> QED
    BY <2>1, <2>2, WordsOfOne DEF Words
<1> QED
  BY <1>2, <1>3
\* Steps that write other variables of the turn.
LEMMA WritesQuietly ==
    ASSUME IInv, NEW t \in Turns,
           \/ Cap(t) \/ GenerateFails(t) \/ Verify(t) \/ Verified(t) \/ TakePreempt(t)
           \/ RetryFolded(t) \/ Outcome(t) \/ Release(t) \/ StartNone(t)
    PROVE  WordsShrink
<1>1. run \in [Turns -> Runs] /\ run[t] \in Runs
  BY DEF IInv, TypeOK
<1>2. ASSUME NEW r, run' = [run EXCEPT ![t] = r], r.base = run[t].base,
             r.history = run[t].history, r.left = run[t].left
      PROVE  WordsShrink
  BY <1>2, WordsOfOne DEF Words
<1>3. ASSUME NEW place, NEW err, run' = [run EXCEPT ![t].pc = place, ![t].err = err]
      PROVE  WordsShrink
  <2> DEFINE r == [run[t] EXCEPT !.pc = place, !.err = err]
  <2>1. run' = [run EXCEPT ![t] = r]
    BY <1>1, <1>3
  <2>2. r.base = run[t].base /\ r.history = run[t].history /\ r.left = run[t].left
    BY <1>1 DEF Runs
  <2> HIDE DEF r
  <2> QED
    BY <1>2, <2>1, <2>2
<1>4. ASSUME NEW place, NEW failure,
             run' = [run EXCEPT ![t].pc = place, ![t].failure = failure]
      PROVE  WordsShrink
  <2> DEFINE r == [run[t] EXCEPT !.pc = place, !.failure = failure]
  <2>1. run' = [run EXCEPT ![t] = r]
    BY <1>1, <1>4
  <2>2. r.base = run[t].base /\ r.history = run[t].history /\ r.left = run[t].left
    BY <1>1 DEF Runs
  <2> HIDE DEF r
  <2> QED
    BY <1>2, <2>1, <2>2
<1>5. CASE Cap(t) \/ StartNone(t)
  BY <1>3, <1>5 DEF Cap, StartNone
<1>6. CASE GenerateFails(t)
  <2>1. PICK err : run' = [run EXCEPT ![t].pc = "returned", ![t].err = err]
    BY <1>6 DEF GenerateFails
  <2> QED
    BY <1>3, <2>1
<1>7. CASE Verify(t)
  BY <1>4, <1>7 DEF Verify
<1>8. CASE Verified(t)
  <2>1. PICK failure : run' = [run EXCEPT ![t].pc = "taking", ![t].failure = failure]
    BY <1>8 DEF Verified
  <2> QED
    BY <1>4, <2>1
<1>9. CASE TakePreempt(t)
  <2> DEFINE r == [run[t] EXCEPT !.pc = "taken", !.taken = regs[run[t].reg].preempted]
  <2>1. run' = [run EXCEPT ![t] = r]
    BY <1>1, <1>9 DEF TakePreempt
  <2>2. r.base = run[t].base /\ r.history = run[t].history /\ r.left = run[t].left
    BY <1>1 DEF Runs
  <2> HIDE DEF r
  <2> QED
    BY <1>2, <2>1, <2>2
<1>10. CASE RetryFolded(t)
  <2> DEFINE r == Running(run[t], run[t].base)
  <2>1. run' = [run EXCEPT ![t] = r]
    BY <1>10 DEF RetryFolded
  <2>2. r.base = run[t].base /\ r.history = run[t].base /\ r.left = run[t].left
    BY <1>1 DEF Running, Runs
  <2> HIDE DEF r
  <2> QED
    BY <2>1, <2>2, WordsOfOne DEF Words
<1>11. CASE Outcome(t)
  <2>1. PICK status, err :
            run' = [run EXCEPT ![t].pc = "decided", ![t].status = status, ![t].err = err]
    BY <1>11 DEF Outcome
  <2> DEFINE r == [run[t] EXCEPT !.pc = "decided", !.status = status, !.err = err]
  <2>2. run' = [run EXCEPT ![t] = r]
    BY <1>1, <2>1
  <2>3. r.base = run[t].base /\ r.history = run[t].history /\ r.left = run[t].left
    BY <1>1 DEF Runs
  <2> HIDE DEF r
  <2> QED
    BY <1>2, <2>2, <2>3
<1>12. CASE Release(t)
  <2> DEFINE r == [run[t] EXCEPT !.pc = "released", !.cancelled = TRUE]
  <2>1. run' = [run EXCEPT ![t] = r]
    BY <1>1, <1>12 DEF Release
  <2>2. r.base = run[t].base /\ r.history = run[t].history /\ r.left = run[t].left
    BY <1>1 DEF Runs
  <2> HIDE DEF r
  <2> QED
    BY <1>2, <2>1, <2>2
<1> QED
  BY <1>5, <1>6, <1>7, <1>8, <1>9, <1>10, <1>11, <1>12

\* The turn that starts has the words it is given and no others.
LEMMA ClaimQuiet ==
    ASSUME IInv, NEW runs \in [Turns -> Runs], NEW messages \in SUBSET Steers,
           run' = WithTurn(runs, messages),
           \A u \in Turns : /\ runs[u].base = run[u].base /\ runs[u].left = run[u].left
                            /\ runs[u].history = run[u].history
    PROVE  \A u \in Turns : Words(u)' \subseteq Words(u) \cup messages
<1> DEFINE n == [NotStarted EXCEPT !.reg = IF rt.parked = NoTurn THEN NextTurn ELSE rt.parked]
           r == Running(n, messages)
<1>1. r.base = messages /\ r.history = messages /\ r.left = {}
  BY DEF Running, NotStarted
<1>2. \A u \in Turns : run'[u] = IF u = NextTurn THEN r ELSE runs[u]
  BY DEF WithTurn
<1> HIDE DEF r
<1> QED
  BY <1>1, <1>2 DEF Words

LEMMA LateFlow ==
    ASSUME IInv, MessagesInv, NEW t \in Turns, StartLate(t)
    PROVE  MessagesInv'
<1>1. run \in [Turns -> Runs]
  BY DEF IInv, TypeOK
<1> DEFINE runs == [run EXCEPT ![t].pc = "leaving", ![t].err = "none"]
<1>2. runs \in [Turns -> Runs]
  <2> DEFINE after == [run[t] EXCEPT !.pc = "leaving", !.err = "none"]
  <2>1. after \in Runs
    BY <1>1, PlacesOfOwner DEF Runs, Errors
  <2>2. runs = [run EXCEPT ![t] = after]
    BY <1>1
  <2> HIDE DEF runs, after
  <2> QED
    BY <1>1, <2>1, <2>2
<1>3. \A u \in Turns : /\ runs[u].base = run[u].base /\ runs[u].left = run[u].left
                       /\ runs[u].history = run[u].history
  BY <1>1 DEF Runs
<1>4. run' = WithTurn(runs, run[t].left) /\ run[t].left \in SUBSET Steers
  BY <1>1 DEF StartLate, Runs
<1> HIDE DEF runs
<1>5. \A u \in Turns : Words(u)' \subseteq Words(u) \cup run[t].left
  BY <1>2, <1>3, <1>4, ClaimQuiet
<1>6. \A m \in Steers : Unread(m) => Unread(m)'
  BY <1>5 DEF Unread, Words
<1>7. UNCHANGED <<regs, call, fate, home>>
  BY DEF StartLate, outside
<1>8. (\A m \in Steers : MessageSound(m))'
  BY <1>6, <1>7, MessageFlow DEF MessagesInv, InboxesShrink
<1>9. SendersSound'
  BY <1>7 DEF MessagesInv, SendersSound, Sending
<1> QED
  BY <1>8, <1>9 DEF MessagesInv

LEMMA TurnKeepsMessages ==
    ASSUME IInv, MessagesInv, NEW t \in Turns, OwnStep(t) \/ ServiceStep(t)
    PROVE  MessagesInv'
<1>1. CASE StartLate(t)
  BY <1>1, LateFlow
<1>2. CASE ~StartLate(t)
  <2>1. run[t].pc # "none" /\ UNCHANGED outside
    BY <1>2 DEF OwnStep, ServiceStep, Drain, Generate, Drop, Tool, Returned, Verify,
          Verified, TakePreempt, Preempts, Unverified, RetryFailure, RetryFolded, Fails,
          Admit, Pause, Extended, NotExtended, TakeLeftover, Outcome, Park, Close, Release,
          Reap, NoReap, StartNone, Leave, Cap, Generated, GenerateFails, ToolEnds, At, Replied
  <2>2. CASE Drain(t) \/ TakeLeftover(t) \/ Rejoin(t)
    BY <2>1, <2>2, Reading
  <2>3. ASSUME ~(Drain(t) \/ TakeLeftover(t) \/ Rejoin(t)) PROVE InboxesShrink
    <3>1. \/ UNCHANGED regs \/ Bind(t) \/ Unbind(t) \/ TakePreempt(t) \/ Close(t)
          \/ Reap(t)
      BY <1>2, <2>3 DEF OwnStep, ServiceStep, Generate, Drop, Tool, Returned, Verify,
          Verified, Preempts, Unverified, RetryFailure, RetryFolded, Fails,
          Admit, Pause, Extended, NotExtended, Outcome, Park, Release,
          NoReap, StartNone, Leave, Cap, Generated, GenerateFails, ToolEnds
    <3> QED
      BY <2>1, <3>1, InboxKept
  <2>4. ASSUME ~(Drain(t) \/ TakeLeftover(t) \/ Rejoin(t)) PROVE WordsShrink
    <3>1. CASE \/ Cap(t) \/ GenerateFails(t) \/ Verify(t) \/ Verified(t) \/ TakePreempt(t)
               \/ RetryFolded(t) \/ Outcome(t) \/ Release(t) \/ StartNone(t)
      BY <3>1, WritesQuietly
    <3>2. CASE \/ Generate(t) \/ Drop(t) \/ Tool(t) \/ Pause(t) \/ Park(t) \/ Close(t)
               \/ Reap(t) \/ NoReap(t) \/ Leave(t) \/ Generated(t) \/ ToolEnds(t)
      <4>1. \E place \in Places : Goto(t, place)
        BY <3>2, PlacesOfOwner DEF Generate, Drop, Tool, Pause, Park, Close, Reap, NoReap,
              Leave, Generated, ToolEnds, Replied
      <4> QED
        BY <4>1, MovesQuietly
    <3>3. CASE Returned(t) \/ Unverified(t) \/ Fails(t) \/ Admit(t) \/ NotExtended(t)
      <4>1. (\E place \in Places : Goto(t, place)) \/ (\E err \in Errors : Ends(t, err))
        BY <2>4, <3>3, PlacesOfOwner DEF Returned, Unverified, Fails, Admit, NotExtended, Errors
      <4> QED
        BY <4>1, MovesQuietly
    <3> QED
      BY <1>2, <2>4, <3>1, <3>2, <3>3 DEF OwnStep, ServiceStep, Preempts, RetryFailure, Extended
  <2> QED
    BY <2>1, <2>2, <2>3, <2>4, TurnQuiet
<1> QED
  BY <1>1, <1>2
-----------------------------------------------------------------------------
\* Clients and messages.

\* A request that moves on without touching a message.
LEMMA ClientQuiet ==
    ASSUME IInv, MessagesInv, NEW c \in Clients, NEW q,
           call' = [call EXCEPT ![c] = q],
           q.op \in {"steer", "start"} => Sending(c) /\ q.steer = call[c].steer,
           UNCHANGED <<fate, home>>, InboxesShrink, WordsShrink
    PROVE  MessagesInv'
<1>1. (\A m \in Steers : MessageSound(m))'
  BY QuietFlow DEF MessagesInv
<1>2. SendersSound'
  BY SendersFlow DEF MessagesInv
<1> QED
  BY <1>1, <1>2 DEF MessagesInv

LEMMA StartFlow ==
    ASSUME IInv, MessagesInv, NEW c \in Clients, Start(c)
    PROVE  MessagesInv'
<1>1. run \in [Turns -> Runs] /\ call = [call EXCEPT ![c] = call[c]]
  BY CallTyped DEF IInv, TypeOK
<1>2. run' = WithTurn(run, {}) /\ UNCHANGED <<regs, call, fate, home>>
  BY DEF Start
<1>3. \A u \in Turns : Words(u)' \subseteq Words(u) \cup {}
  BY <1>1, <1>2, ClaimQuiet
<1>4. WordsShrink /\ InboxesShrink
  BY <1>2, <1>3 DEF WordsShrink, InboxesShrink
<1>5. call[c].op \in {"steer", "start"} => Sending(c)
  BY DEF Sending
<1>6. call' = [call EXCEPT ![c] = call[c]]
  BY <1>1, <1>2
<1> QED
  BY <1>2, <1>4, <1>5, <1>6, ClientQuiet

\* Requests that deliver nothing and take nothing.
LEMMA QuietRequests ==
    ASSUME IInv, MessagesInv, NEW c \in Clients,
           \/ \E m \in Steers : RetractCall(c, m)
           \/ SteerMissed(c) \/ RetractMissed(c)
           \/ PreemptCall(c) \/ PreemptCheck(c) \/ StopCall(c) \/ StopLand(c) \/ StopDeny(c)
           \/ \E decision \in {"yes", "stop"} : Continue(c, decision)
    PROVE  MessagesInv'
<1>1. UNCHANGED <<regs, run, fate, home>>
  BY DEF RetractCall, SteerMissed, RetractMissed, PreemptCall, PreemptCheck, StopCall,
         StopLand, StopDeny, Continue, Reads
<1>2. InboxesShrink /\ WordsShrink
  BY <1>1 DEF InboxesShrink, WordsShrink, Words
<1>3. call[c] \in Requests /\ call = [call EXCEPT ![c] = call[c]]
  BY CallTyped
<1>4. \A op \in {"start", "fire", "deny", "cancel"} :
          /\ [call[c] EXCEPT !.op = op].op = op
          /\ [call[c] EXCEPT !.op = op].steer = call[c].steer
  BY <1>3 DEF Requests
<1>5. PICK q : /\ call' = [call EXCEPT ![c] = q]
               /\ q.op \in {"steer", "start"} => Sending(c) /\ q.steer = call[c].steer
  <2>1. CASE SteerMissed(c)
    <3>1. call' = [call EXCEPT ![c] = [call[c] EXCEPT !.op = "start"]]
      BY <1>3, <2>1 DEF SteerMissed
    <3>2. Sending(c)
      BY <2>1 DEF SteerMissed, Sending
    <3> QED
      BY <1>4, <3>1, <3>2
  <2>2. CASE StopDeny(c)
    <3>1. call' = [call EXCEPT ![c] = [call[c] EXCEPT !.op = "cancel"]]
      BY <1>3, <2>2 DEF StopDeny
    <3> QED
      BY <1>4, <3>1
  <2>3. CASE RetractMissed(c) \/ PreemptCheck(c) \/ StopLand(c)
    <3>1. \/ call' = [call EXCEPT ![c] = Idle]
          \/ \E op \in {"fire", "deny", "cancel"} :
                call' = [call EXCEPT ![c] = [call[c] EXCEPT !.op = op]]
      BY <2>3 DEF RetractMissed, PreemptCheck, StopLand
    <3>2. Idle.op = "idle"
      BY DEF Idle
    <3> QED
      BY <1>4, <3>1, <3>2
  <2>4. CASE (\E m \in Steers : RetractCall(c, m)) \/ PreemptCall(c) \/ StopCall(c)
    <3>1. PICK op \in {"retract", "preempt", "stop"}, m \in Steers \cup {Nil} :
              call' = [call EXCEPT ![c] = [op |-> op, steer |-> m, turn |-> rt.turn]]
      BY <2>4 DEF RetractCall, PreemptCall, StopCall, Reads
    <3> DEFINE q == [op |-> op, steer |-> m, turn |-> rt.turn]
    <3>2. q.op \notin {"steer", "start"} /\ call' = [call EXCEPT ![c] = q]
      BY <3>1
    <3> HIDE DEF q
    <3> QED
      BY <3>2
  <2>5. CASE \E decision \in {"yes", "stop"} : Continue(c, decision)
    <3>1. call' = [call EXCEPT ![c] = call[c]]
      BY <1>3, <2>5 DEF Continue
    <3>2. call[c].op \in {"steer", "start"} => Sending(c)
      BY DEF Sending
    <3> QED
      BY <3>1, <3>2
  <2> QED
    BY <2>1, <2>2, <2>3, <2>4, <2>5
<1> QED
  BY <1>1, <1>2, <1>5, ClientQuiet

LEMMA InterruptFlow ==
    ASSUME IInv, MessagesInv, NEW c \in Clients, PreemptFire(c) \/ StopCancel(c) \/ StopParked(c)
    PROVE  MessagesInv'
<1>1. run \in [Turns -> Runs] /\ regs \in [Turns -> Registries]
  BY DEF IInv, TypeOK
<1>2. Idle.op = "idle" /\ call = [call EXCEPT ![c] = call[c]]
  BY CallTyped DEF Idle
<1>3. CASE PreemptFire(c)
  <2>1. CalledReg(c) \in Turns /\ regs[CalledReg(c)] \in Registries
    BY <1>3, CalledRegistry DEF PreemptFire, TurnOps
  <2>2. InboxesShrink
    <3>1. \A promised : Preempted(regs[CalledReg(c)], promised).inbox
                          = regs[CalledReg(c)].inbox
      BY <2>1 DEF Preempted, Registries
    <3>2. UNCHANGED regs \/ \E promised :
              regs' = [regs EXCEPT ![CalledReg(c)] = Preempted(regs[CalledReg(c)], promised)]
      BY <1>3 DEF PreemptFire
    <3> QED
      BY <2>1, <3>1, <3>2, InboxOfOne DEF InboxesShrink
  <2>3. WordsShrink
    <3>1. CASE Interrupt(CalledReg(c))
      <4>1. \A r \in Runs : LET q == [r EXCEPT !.failure = "interrupted"]
                            IN q.base = r.base /\ q.history = r.history /\ q.left = r.left
        BY DEF Runs
      <4>2. \A t \in Turns : \/ run'[t] = run[t]
                             \/ run'[t] = [run[t] EXCEPT !.failure = "interrupted"]
        BY <3>1 DEF Interrupt
      <4> QED
        BY <1>1, <4>1, <4>2 DEF WordsShrink, Words
    <3>2. CASE UNCHANGED run
      BY <3>2 DEF WordsShrink, Words
    <3> QED
      BY <1>3, <3>1, <3>2 DEF PreemptFire
  <2>4. call' = [call EXCEPT ![c] = Idle] /\ UNCHANGED <<fate, home>>
    BY <1>3 DEF PreemptFire
  <2> QED
    BY <1>2, <2>2, <2>3, <2>4, ClientQuiet
<1>4. CASE StopCancel(c)
  <2>1. PICK t \in Turns : t = call[c].turn
    BY <1>4, CalledRegistry DEF StopCancel, TurnOps
  <2> DEFINE r == [run[t] EXCEPT !.cancelled = TRUE]
  <2>2. run' = [run EXCEPT ![t].cancelled = TRUE]
    BY <1>4, <2>1 DEF StopCancel
  <2>3. run' = [run EXCEPT ![t] = r]
    BY <1>1, <2>2
  <2>4. r.base = run[t].base /\ r.history = run[t].history /\ r.left = run[t].left
    BY <1>1 DEF Runs
  <2> HIDE DEF r
  <2>5. WordsShrink
    BY <2>3, <2>4, WordsOfOne DEF Words
  <2>6. InboxesShrink /\ call' = [call EXCEPT ![c] = Idle] /\ UNCHANGED <<fate, home>>
    BY <1>4 DEF StopCancel, InboxesShrink
  <2> QED
    BY <1>2, <2>5, <2>6, ClientQuiet
<1>5. CASE StopParked(c)
  <2>1. rt.parked \in Turns
    BY <1>5, Typed DEF StopParked, RtType
  <2>2. Closed(regs[rt.parked]).inbox = regs[rt.parked].inbox
    BY <1>1, <2>1 DEF Closed, Registries
  <2>3. InboxesShrink
    BY <1>5, <2>1, <2>2, InboxOfOne DEF StopParked
  <2>4. WordsShrink
    BY <1>5 DEF StopParked, WordsShrink, Words
  <2>5. call' = [call EXCEPT ![c] = call[c]] /\ UNCHANGED <<fate, home>>
    BY <1>2, <1>5 DEF StopParked
  <2>6. call[c].op \in {"steer", "start"} => Sending(c)
    BY DEF Sending
  <2> QED
    BY <2>3, <2>4, <2>5, <2>6, ClientQuiet
<1> QED
  BY <1>3, <1>4, <1>5

LEMMA SteerCallFlow ==
    ASSUME IInv, MessagesInv, NEW c \in Clients, NEW m \in Steers, SteerCall(c, m)
    PROVE  MessagesInv'
<1>1. fate \in [Steers -> Fates] /\ call \in [Clients -> Requests]
  BY DEF IInv, TypeOK
<1>2. UNCHANGED <<regs, run, home>> /\ fate[m] = "unsent" /\ fate' = [fate EXCEPT ![m] = "sent"]
  BY DEF SteerCall
<1>3. \A n \in Steers : fate'[n] = IF n = m THEN "sent" ELSE fate[n]
  BY <1>1, <1>2
<1>4. ASSUME NEW n \in Steers PROVE MessageSound(n)'
  <2>1. Waits(n)' = Waits(n) /\ Unread(n)' = Unread(n) /\ home'[n] = home[n]
    BY <1>2 DEF Waits, Unread, Words
  <2>2. MessageSound(n)
    BY DEF MessagesInv
  <2> QED
    BY <1>2, <1>3, <2>1, <2>2 DEF MessageSound
<1>5. call'[c].steer = m /\ \A d \in Clients \ {c} : call'[d] = call[d]
  BY <1>1 DEF SteerCall
<1>6. \A d \in Clients : (d # c /\ Sending(d)) => call[d].steer # m
  BY <1>2 DEF MessagesInv, SendersSound
<1>7. SendersSound'
  BY <1>3, <1>5, <1>6 DEF MessagesInv, SendersSound, Sending
<1> QED
  BY <1>4, <1>7 DEF MessagesInv

\* The message of a request that delivers is nowhere yet.
LEMMA Undelivered ==
    ASSUME MessagesInv, NEW c \in Clients, Sending(c), Nil \notin Steers
    PROVE  /\ call[c].steer \in Steers /\ Text(c) = {call[c].steer}
           /\ Waits(call[c].steer) = {} /\ Unread(call[c].steer)
BY DEF MessagesInv, MessageSound, SendersSound, Text

\* Its sender is told, and it is not a request any more.
LEMMA Told ==
    ASSUME IInv, MessagesInv, NEW c \in Clients, NEW told, Reply(c, told),
           Sending(c) \/ (told # "sent" /\ \A m \in Text(c) : fate[m] # "sent")
    PROVE  SendersSound'
<1>1. call' = [call EXCEPT ![c] = Idle] /\ Idle.op = "idle"
  BY DEF Reply, Idle
<1>2. \A m \in Steers : fate'[m] = IF m \in Text(c) THEN told ELSE fate[m]
  BY DEF Reply
<1>3. ASSUME NEW m \in Steers
      PROVE  \/ fate'[m] = fate[m] \/ fate[m] # "sent"
             \/ Sending(c) /\ call[c].steer = m
  BY <1>2 DEF Text
<1> QED
  BY <1>1, <1>3, SendersFlow DEF MessagesInv

LEMMA DeliveredFlow ==
    ASSUME IInv, MessagesInv, NEW c \in Clients,
           StartInstead(c) \/ StartRefused(c) \/ SteerLand(c)
    PROVE  MessagesInv'
<1>1. Sending(c)
  BY DEF StartInstead, StartRefused, SteerLand, Sending
<1> DEFINE m == call[c].steer
<1>2. m \in Steers /\ Text(c) = {m} /\ Waits(m) = {} /\ Unread(m)
  BY <1>1, Undelivered, TurnAssumption
<1>3. PICK told \in {"started", "refused", "accepted"} : Reply(c, told)
  BY DEF StartInstead, StartRefused, SteerLand
<1>4. SendersSound'
  BY <1>1, <1>3, Told
<1>5. \A n \in Steers : fate'[n] = IF n = m THEN told ELSE fate[n]
  BY <1>2, <1>3 DEF Reply
<1>6. \A n \in Steers : MessageSound(n)
  BY DEF MessagesInv
<1> HIDE DEF m
<1>7. CASE StartInstead(c)
  <2>1. run \in [Turns -> Runs] /\ UNCHANGED <<regs, home>> /\ run' = WithTurn(run, {m})
    BY <1>2, <1>7 DEF StartInstead, IInv, TypeOK
  <2>2. \A u \in Turns : Words(u)' \subseteq Words(u) \cup {m}
    BY <1>2, <2>1, ClaimQuiet
  <2>3. told = "started"
    <3>1. Reply(c, "started")
      BY <1>7 DEF StartInstead
    <3> QED
      BY <1>2, <1>5, <3>1 DEF Reply
  <2>4. ASSUME NEW n \in Steers PROVE MessageSound(n)'
    <3>1. Waits(n)' = Waits(n)
      BY <2>1 DEF Waits
    <3>2. CASE n = m
      BY <1>2, <1>5, <2>3, <3>1, <3>2 DEF MessageSound
    <3>3. CASE n # m
      <4>1. Unread(n) => Unread(n)'
        BY <2>2, <3>3 DEF Unread
      <4> QED
        BY <1>5, <1>6, <2>1, <3>1, <3>3, <4>1 DEF MessageSound
    <3> QED
      BY <3>2, <3>3
  <2> QED
    BY <1>4, <2>4 DEF MessagesInv
<1>8. CASE StartRefused(c)
  <2>1. UNCHANGED <<regs, run, home>>
    BY <1>8 DEF StartRefused
  <2>2. told = "refused"
    <3>1. Reply(c, "refused")
      BY <1>8 DEF StartRefused
    <3> QED
      BY <1>2, <1>5, <3>1 DEF Reply
  <2>3. ASSUME NEW n \in Steers PROVE MessageSound(n)'
    <3>1. Waits(n)' = Waits(n) /\ Unread(n)' = Unread(n)
      BY <2>1 DEF Waits, Unread, Words
    <3> QED
      BY <1>2, <1>5, <1>6, <2>1, <2>2, <3>1 DEF MessageSound
  <2> QED
    BY <1>4, <2>3 DEF MessagesInv
<1>9. CASE SteerLand(c)
  <2>1. rt.turn \in Turns /\ Current \in Turns /\ regs \in [Turns -> Registries]
    <3>1. rt.turn = call[c].turn /\ Current = CalledReg(c)
      BY <1>9 DEF SteerLand, StillOwner, Current, CalledReg
    <3> QED
      BY <1>9, <3>1, CalledRegistry, Typed DEF SteerLand, TurnOps
  <2>2. told = "accepted"
    <3>1. Reply(c, "accepted")
      BY <1>9 DEF SteerLand
    <3> QED
      BY <1>2, <1>5, <3>1 DEF Reply
  <2>3. \A r \in Turns : regs'[r].inbox
                           = IF r = Current THEN regs[r].inbox \cup {m} ELSE regs[r].inbox
    BY <1>2, <1>9, <2>1 DEF SteerLand, Registries
  <2>4. \A n \in Steers : home'[n] = IF n = m THEN rt.turn ELSE home[n]
    BY <1>9 DEF SteerLand, IInv, TypeOK, m
  <2>5. WordsShrink
    <3>1. run' = run \/ run' = [run EXCEPT ![rt.turn].failure = "superseded"]
      BY <1>9 DEF SteerLand, Supersede
    <3>2. CASE run' = run
      BY <3>2 DEF WordsShrink, Words
    <3>3. CASE run' = [run EXCEPT ![rt.turn].failure = "superseded"]
      <4> DEFINE r == [run[rt.turn] EXCEPT !.failure = "superseded"]
      <4>1. run' = [run EXCEPT ![rt.turn] = r]
        BY <2>1, <3>3, Typed DEF IInv, TypeOK
      <4>2. r.base = run[rt.turn].base /\ r.history = run[rt.turn].history
            /\ r.left = run[rt.turn].left
        BY <2>1, Typed DEF Runs
      <4> HIDE DEF r
      <4> QED
        BY <2>1, <4>1, <4>2, WordsOfOne DEF Words
    <3> QED
      BY <3>1, <3>2, <3>3
  <2>6. ASSUME NEW n \in Steers PROVE MessageSound(n)'
    <3>1. Unread(n) => Unread(n)'
      BY <2>5 DEF WordsShrink, Unread
    <3>2. CASE n = m
      <4>1. Waits(n)' = {Current}
        BY <1>2, <2>1, <2>3, <3>2 DEF Waits
      <4> QED
        BY <1>2, <1>5, <2>1, <2>2, <2>4, <3>1, <3>2, <4>1 DEF MessageSound
    <3>3. CASE n # m
      <4>1. Waits(n)' = Waits(n)
        BY <2>1, <2>3, <3>3 DEF Waits
      <4> QED
        BY <1>5, <1>6, <2>4, <3>1, <3>3, <4>1 DEF MessageSound
    <3> QED
      BY <3>2, <3>3
  <2> QED
    BY <1>4, <2>6 DEF MessagesInv
<1> QED
  BY <1>7, <1>8, <1>9

LEMMA RetractFlow ==
    ASSUME IInv, MessagesInv, NEW c \in Clients, RetractTake(c)
    PROVE  MessagesInv'
<1> DEFINE m == call[c].steer
<1>1. /\ m \in Steers /\ Text(c) = {m}
      /\ CalledReg(c) \in Turns /\ m \in regs[CalledReg(c)].inbox
      /\ regs \in [Turns -> Registries]
  <2>1. call[c].op = "retract" /\ m \in regs[CalledReg(c)].inbox
    BY DEF RetractTake
  <2>2. m \in Steers
    BY <2>1, CallTyped DEF Requests, RequestSound, SteerOps
  <2> QED
    BY <2>1, <2>2, CalledRegistry, Typed, TurnAssumption DEF TurnOps, Text
<1>2. Reply(c, "retracted") /\ UNCHANGED <<run, home>>
  BY DEF RetractTake
<1>3. \A n \in Steers : MessageSound(n)
  BY DEF MessagesInv
<1>4. \A r \in Turns : regs'[r].inbox
                         = IF r = CalledReg(c) THEN regs[r].inbox \ {m} ELSE regs[r].inbox
  BY <1>1 DEF RetractTake, Registries
<1>5. \A n \in Steers : fate'[n] = IF n = m THEN "retracted" ELSE fate[n]
  BY <1>1, <1>2 DEF Reply
<1> HIDE DEF m
<1>6. CalledReg(c) \in Waits(m)
  BY <1>1 DEF Waits
<1>7. ASSUME NEW n \in Steers PROVE MessageSound(n)'
  <2>1. Unread(n)' = Unread(n)
    BY <1>2 DEF Unread, Words
  <2>2. CASE n = m
    <3>1. Waits(n)' = {}
      <4>1. \A r, s \in Waits(m) : r = s
        BY <1>1, <1>3 DEF MessageSound
      <4>2. ASSUME NEW r \in Turns PROVE m \notin regs'[r].inbox
        <5>1. CASE r = CalledReg(c)
          BY <1>4, <5>1
        <5>2. CASE r # CalledReg(c)
          <6>1. r \notin Waits(m)
            BY <1>6, <4>1, <5>2
          <6> QED
            BY <1>4, <5>2, <6>1 DEF Waits
        <5> QED
          BY <5>1, <5>2
      <4> QED
        BY <2>2, <4>2 DEF Waits
    <3> QED
      BY <1>1, <1>2, <1>3, <1>6, <2>1, <2>2, <3>1 DEF MessageSound
  <2>3. CASE n # m
    <3>1. Waits(n)' = Waits(n)
      BY <1>4, <2>3 DEF Waits
    <3> QED
      BY <1>2, <1>3, <1>5, <2>1, <2>3, <3>1 DEF MessageSound
  <2> QED
    BY <2>2, <2>3
<1>8. fate[m] # "sent"
  BY <1>1, <1>3, <1>6 DEF MessageSound
<1>9. SendersSound'
  BY <1>1, <1>2, <1>8, Told
<1> QED
  BY <1>7, <1>9 DEF MessagesInv

LEMMA MessagesNext == IInv /\ MessagesInv /\ [Next]_vars => MessagesInv'
<1> SUFFICES ASSUME IInv, MessagesInv, [Next]_vars PROVE MessagesInv'
  OBVIOUS
<1>1. ASSUME NEW c \in Clients, ClientStep(c) PROVE MessagesInv'
  BY <1>1, StartFlow, DeliveredFlow, QuietRequests, InterruptFlow, SteerCallFlow, RetractFlow
     DEF ClientStep
<1>2. CASE UNCHANGED vars
  <2>1. InboxesShrink /\ WordsShrink /\ UNCHANGED outside
    BY <1>2 DEF vars, InboxesShrink, WordsShrink, Words, outside
  <2> QED
    BY <2>1, TurnQuiet
<1> QED
  BY <1>1, <1>2, TurnKeepsMessages DEF Next

\* A message its sender took back is read by no turn, for any number of senders, takers
\* and turns (RetractManagerSteer searches the inbox again under Registry.mu).
THEOREM RetractionsKept == Spec => []RetractedUnread
<1>1. IInv /\ MessagesInv => RetractedUnread
  BY DEF MessagesInv, MessageSound, RetractedUnread, Unread, Words
<1> QED
  BY InitInv, NextInv, MessagesInit, MessagesNext, <1>1, PTL DEF Spec
-----------------------------------------------------------------------------
\* Why a call was cut.

\* From bindEpoch to dropEpoch.
BoundPlaces == {"calling", "answered", "toolcall", "tooling", "verifying"}

HasEpoch(r) == \E t \in Turns : run[t].reg = r /\ run[t].pc \in BoundPlaces

\* A cut, or one that is armed, is recorded; only a call, a tool or a verification under
\* way has an epoch.
FlagsSound ==
    \A r \in Turns : /\ regs[r].armed \/ regs[r].epoch = "cut" => regs[r].preempted
                     /\ regs[r].epoch # "none" => HasEpoch(r)

\* A call ended as cancelled because its turn was stopped or preempted, and the loop
\* still knows of the preempt or has just taken it.
CauseKnown(t) ==
    run[t].err = "canceled" =>
        \/ run[t].cancelled
        \/ run[t].pc = "taken" /\ run[t].taken
        \/ run[t].pc \in Loop \ {"taken"} /\ regs[run[t].reg].preempted

CausesInv == FlagsSound /\ \A t \in Turns : CauseKnown(t)

LEMMA CausesInit == Init => CausesInv
<1> SUFFICES ASSUME Init PROVE CausesInv
  OBVIOUS
<1>1. FlagsSound
  BY DEF Init, FlagsSound
<1>2. \A t \in Turns : run[t].err = "none"
  BY DEF Init, NotStarted
<1> QED
  BY <1>1, <1>2 DEF CausesInv, CauseKnown

\* One turn at a time is in the loop, and none while the runtime is free.
LEMMA Alone ==
    ASSUME IInv, NEW t \in Turns, run[t].pc \in Owning
    PROVE  /\ rt.running
           /\ \A u \in Turns : run[u].pc \in Owning => u = t
           /\ \A u \in Turns : run[u].pc \in Loop \cup BoundPlaces => run[u].pc \in Owning
BY DEF IInv, OneOwner, BoundPlaces, Owning, Loop, Replied

LEMMA LoopOwns == Loop \subseteq Owning /\ BoundPlaces \subseteq Loop \ {"taken"}
BY DEF BoundPlaces, Owning, Loop, Replied

LEMMA NoEpoch ==
    ASSUME IInv, FlagsSound,
           ~rt.running \/ \E t \in Turns : run[t].pc \in Owning \ BoundPlaces
    PROVE  \A r \in Turns : regs[r].epoch = "none"
<1>1. \A u \in Turns : run[u].pc \notin BoundPlaces
  BY LoopOwns DEF IInv, OneOwner
<1> QED
  BY <1>1 DEF FlagsSound, HasEpoch

\* A step that leaves epochs and flags alone.
SameFlags == \A r \in Turns : /\ regs'[r].armed = regs[r].armed
                              /\ regs'[r].epoch = regs[r].epoch
                              /\ regs'[r].preempted = regs[r].preempted

StaysBound == \A r \in Turns : HasEpoch(r) => HasEpoch(r)'

LEMMA FlagsQuiet ==
    ASSUME FlagsSound, SameFlags, StaysBound \/ \A r \in Turns : regs[r].epoch = "none"
    PROVE  FlagsSound'
BY DEF FlagsSound, SameFlags, StaysBound

\* One that writes a registry.
LEMMA FlagsOfOne ==
    ASSUME IInv, FlagsSound, NEW x \in Turns, NEW e, regs' = [regs EXCEPT ![x] = e],
           e.armed \/ e.epoch = "cut" => e.preempted,
           e.epoch # "none" => HasEpoch(x)',
           \A r \in Turns \ {x} : regs[r].epoch # "none" => HasEpoch(r)'
    PROVE  FlagsSound'
<1>1. \A r \in Turns : regs'[r] = IF r = x THEN e ELSE regs[r]
  BY Typed
<1> QED
  BY <1>1 DEF FlagsSound

KeepsPreempts == \A r \in Turns : regs[r].preempted => regs'[r].preempted

\* A step of a turn answers for itself, if it leaves other turns' preempts alone or no
\* other turn is in the loop.
LEMMA CauseOfOne ==
    ASSUME IInv, \A u \in Turns : CauseKnown(u), NEW t \in Turns,
           \A u \in Turns \ {t} : run'[u] = run[u],
           KeepsPreempts \/ run[t].pc \in Owning \/ ~rt.running,
           CauseKnown(t)'
    PROVE  (\A u \in Turns : CauseKnown(u))'
<1> SUFFICES ASSUME NEW u \in Turns PROVE CauseKnown(u)'
  OBVIOUS
<1>1. CASE u = t
  BY <1>1
<1>2. CASE u # t
  <2>1. run'[u] = run[u] /\ CauseKnown(u)
    BY <1>2
  <2>2. run[u].pc \in Loop => KeepsPreempts /\ run[u].reg \in Turns
    <3>1. ASSUME run[u].pc \in Loop PROVE KeepsPreempts /\ run[u].reg \in Turns
      <4>1. run[u].pc \in Owning /\ run[u].pc # "none"
        BY <3>1, LoopOwns, PlacesOfOwner
      <4>2. KeepsPreempts
        BY <1>2, <4>1, Alone
      <4> QED
        BY <4>1, <4>2, OwnRegistry
    <3> QED
      BY <3>1
  <2> QED
    BY <2>1, <2>2 DEF CauseKnown, KeepsPreempts
<1> QED
  BY <1>1, <1>2

LEMMA CauseWrites ==
    ASSUME IInv, \A u \in Turns : CauseKnown(u), NEW t \in Turns, NEW r,
           run' = [run EXCEPT ![t] = r],
           KeepsPreempts \/ run[t].pc \in Owning \/ ~rt.running,
           r.err = "canceled" =>
               \/ r.cancelled
               \/ r.pc = "taken" /\ r.taken
               \/ r.pc \in Loop \ {"taken"} /\ regs'[r.reg].preempted
    PROVE  (\A u \in Turns : CauseKnown(u))'
<1>1. run'[t] = r /\ \A u \in Turns \ {t} : run'[u] = run[u]
  BY DEF IInv, TypeOK
<1>2. CauseKnown(t)'
  BY <1>1 DEF CauseKnown
<1> QED
  BY <1>1, <1>2, CauseOfOne

\* The goroutine moves on, and within the loop the preempt stays recorded.
LEMMA CauseMoves ==
    ASSUME IInv, \A u \in Turns : CauseKnown(u), NEW t \in Turns, run[t].pc # "none",
           NEW place \in Places, Goto(t, place),
           \/ /\ run[t].pc \in Loop \ {"taken"} /\ place \in Loop \ {"taken"}
              /\ KeepsPreempts
           \/ run[t].pc \notin Loop /\ (KeepsPreempts \/ run[t].pc \in Owning \/ ~rt.running)
           \/ run[t].err # "canceled" /\ KeepsPreempts
    PROVE  (\A u \in Turns : CauseKnown(u))'
<1> DEFINE r == [run[t] EXCEPT !.pc = place]
<1>1. run[t] \in Runs /\ run[t].reg \in Turns
  BY OwnRegistry
<1>2. run' = [run EXCEPT ![t] = r]
  BY DEF Goto, IInv, TypeOK
<1>3. r.pc = place /\ r.err = run[t].err /\ r.cancelled = run[t].cancelled
      /\ r.reg = run[t].reg
  BY <1>1 DEF Runs
<1>4. CauseKnown(t)
  OBVIOUS
<1>5. r.err = "canceled" =>
          r.cancelled \/ (r.pc \in Loop \ {"taken"} /\ regs'[r.reg].preempted)
  <2>1. "taken" \in Loop
    BY DEF Loop
  <2> HIDE DEF r
  <2> QED
    BY <1>1, <1>3, <1>4, <2>1 DEF CauseKnown, KeepsPreempts
<1>6. KeepsPreempts \/ run[t].pc \in Owning \/ ~rt.running
  OBVIOUS
<1> HIDE DEF r
<1> QED
  BY <1>2, <1>5, <1>6, CauseWrites

LEMMA CauseEnds ==
    ASSUME IInv, \A u \in Turns : CauseKnown(u), NEW t \in Turns, run[t].pc \in Owning,
           NEW err \in Errors, Ends(t, err), err = "canceled" => run[t].cancelled
    PROVE  (\A u \in Turns : CauseKnown(u))'
<1> DEFINE r == Ended(run[t], err)
<1>1. run' = [run EXCEPT ![t] = r] /\ run[t] \in Runs
  BY Typed DEF Ends
<1>2. r.err = err /\ r.cancelled = run[t].cancelled
  BY <1>1 DEF Ended, Runs
<1> HIDE DEF r
<1> QED
  BY <1>1, <1>2, CauseWrites

LEMMA CauseRestarts ==
    ASSUME IInv, \A u \in Turns : CauseKnown(u), NEW t \in Turns, run[t].pc \in Owning,
           NEW messages, run' = [run EXCEPT ![t] = Running(run[t], messages)]
    PROVE  (\A u \in Turns : CauseKnown(u))'
<1>1. Running(run[t], messages).err = "none"
  BY Typed DEF Running, Runs
<1> QED
  BY <1>1, CauseWrites

\* Where the goroutine of turn t was bound, it still is, or it never was.
LEMMA BoundStays ==
    ASSUME IInv, NEW t \in Turns, NEW r, run' = [run EXCEPT ![t] = r],
           run[t].pc \in BoundPlaces => r.pc \in BoundPlaces /\ r.reg = run[t].reg
    PROVE  StaysBound
<1>1. \A u \in Turns : run'[u] = IF u = t THEN r ELSE run[u]
  BY DEF IInv, TypeOK
<1> QED
  BY <1>1 DEF StaysBound, HasEpoch

\* The flags that Bind, Unbind, TakePreempt and Close leave.
LEMMA FlagFields ==
    ASSUME NEW reg \in Registries
    PROVE  /\ Bound(reg).preempted = reg.preempted
           /\ ~Bound(reg).armed
           /\ Bound(reg).epoch = IF reg.armed THEN "cut" ELSE "live"
           /\ LET e == [reg EXCEPT !.epoch = "none"]
              IN e.preempted = reg.preempted /\ e.armed = reg.armed /\ e.epoch = "none"
           /\ LET e == [reg EXCEPT !.preempted = FALSE, !.armed = FALSE]
              IN ~e.preempted /\ ~e.armed /\ e.epoch = reg.epoch
           /\ ~Closed(reg).preempted /\ ~Closed(reg).armed /\ Closed(reg).epoch = reg.epoch
           /\ LET e == [reg EXCEPT !.inbox = {}, !.due = {}]
              IN e.preempted = reg.preempted /\ e.armed = reg.armed /\ e.epoch = reg.epoch
BY DEF Bound, Closed, Registries

LEMMA BindFlags ==
    ASSUME IInv, FlagsSound, NEW t \in Turns, run[t].pc \in Owning \ BoundPlaces, Bind(t),
           run'[t].pc \in BoundPlaces, run'[t].reg = run[t].reg
    PROVE  FlagsSound' /\ KeepsPreempts
<1>1. run[t].pc # "none"
  BY PlacesOfOwner
<1>2. run[t].reg \in Turns /\ regs[run[t].reg] \in Registries
  BY <1>1, OwnRegistry
<1> DEFINE e == Bound(regs[run[t].reg])
<1>3. regs' = [regs EXCEPT ![run[t].reg] = e]
  BY DEF Bind
<1>4. \A r \in Turns : regs[r].epoch = "none"
  BY NoEpoch
<1>5. e.preempted = regs[run[t].reg].preempted /\ ~e.armed
      /\ (e.epoch = "cut" => regs[run[t].reg].armed)
  BY <1>2, FlagFields
<1>6. e.armed \/ e.epoch = "cut" => e.preempted
  BY <1>2, <1>5 DEF FlagsSound
<1>7. HasEpoch(run[t].reg)'
  BY DEF HasEpoch
<1> HIDE DEF e
<1>8. FlagsSound'
  BY <1>2, <1>3, <1>4, <1>6, <1>7, FlagsOfOne
<1>9. KeepsPreempts
  BY <1>2, <1>3, <1>5, Typed DEF KeepsPreempts
<1> QED
  BY <1>8, <1>9

LEMMA UnbindFlags ==
    ASSUME IInv, FlagsSound, NEW t \in Turns, run[t].pc \in BoundPlaces, Unbind(t)
    PROVE  FlagsSound' /\ KeepsPreempts /\ regs'[run[t].reg].preempted = regs[run[t].reg].preempted
<1>1. run[t].pc \in Owning /\ run[t].pc # "none"
  BY LoopOwns, PlacesOfOwner
<1>2. run[t].reg \in Turns /\ regs[run[t].reg] \in Registries
  BY <1>1, OwnRegistry
<1> DEFINE e == [regs[run[t].reg] EXCEPT !.epoch = "none"]
<1>3. regs' = [regs EXCEPT ![run[t].reg] = e]
  BY <1>2, Typed DEF Unbind
<1>4. \A r \in Turns \ {run[t].reg} : regs[r].epoch = "none"
  <2>1. \A u \in Turns : run[u].pc \in BoundPlaces => u = t
    BY <1>1, Alone
  <2> QED
    BY <2>1 DEF FlagsSound, HasEpoch
<1>5. e.preempted = regs[run[t].reg].preempted /\ e.armed = regs[run[t].reg].armed
      /\ e.epoch = "none"
  BY <1>2, FlagFields
<1> HIDE DEF e
<1>6. e.armed => e.preempted
  BY <1>2, <1>5 DEF FlagsSound
<1>7. FlagsSound'
  BY <1>2, <1>3, <1>4, <1>5, <1>6, FlagsOfOne
<1>8. KeepsPreempts /\ regs'[run[t].reg].preempted = regs[run[t].reg].preempted
  BY <1>2, <1>3, <1>5, Typed DEF KeepsPreempts
<1> QED
  BY <1>7, <1>8

\* The flags go, where no epoch is.
LEMMA ClearFlags ==
    ASSUME IInv, FlagsSound, NEW x \in Turns, NEW e, regs' = [regs EXCEPT ![x] = e],
           ~e.preempted, ~e.armed, e.epoch = regs[x].epoch,
           ~rt.running \/ \E t \in Turns : run[t].pc \in Owning \ BoundPlaces
    PROVE  FlagsSound'
BY NoEpoch, FlagsOfOne

LEMMA EmptyFlags ==
    ASSUME IInv, NEW t \in Turns, run[t].pc # "none", Empty(t)
    PROVE  SameFlags /\ KeepsPreempts
<1>1. run[t].reg \in Turns /\ regs[run[t].reg] \in Registries
  BY OwnRegistry
<1> DEFINE e == [regs[run[t].reg] EXCEPT !.inbox = {}, !.due = {}]
<1>2. regs' = [regs EXCEPT ![run[t].reg] = e]
  BY <1>1, Typed DEF Empty
<1>3. e.preempted = regs[run[t].reg].preempted /\ e.armed = regs[run[t].reg].armed
      /\ e.epoch = regs[run[t].reg].epoch
  BY <1>1, FlagFields
<1> HIDE DEF e
<1> QED
  BY <1>1, <1>2, <1>3, Typed DEF SameFlags, KeepsPreempts

-----------------------------------------------------------------------------
\* The steps of a turn.

LEMMA SameRegistries ==
    ASSUME UNCHANGED regs
    PROVE  SameFlags /\ KeepsPreempts
BY DEF SameFlags, KeepsPreempts

LEMMA BoundOutside ==
    {"asked", "next", "drained", "tool", "returned", "verify", "taking", "taken", "admit",
     "pausing", "paused"} \subseteq Loop \ BoundPlaces
BY DEF Loop, BoundPlaces, Replied

\* Moves within the loop, and out of it, that leave the registries alone.
LEMMA PlainMove ==
    ASSUME IInv, CausesInv, NEW t \in Turns, NEW place \in Places, run[t].pc # "none",
           Goto(t, place), SameFlags, KeepsPreempts,
           run[t].pc \in BoundPlaces => place \in BoundPlaces,
           \/ run[t].pc \in Loop \ {"taken"} /\ place \in Loop \ {"taken"}
           \/ run[t].pc \notin Loop
           \/ run[t].err # "canceled"
    PROVE  CausesInv'
<1> DEFINE r == [run[t] EXCEPT !.pc = place]
<1>1. run' = [run EXCEPT ![t] = r] /\ r.pc = place /\ r.reg = run[t].reg
  BY OwnRegistry, MovedRun DEF Goto, IInv, TypeOK
<1> HIDE DEF r
<1>2. FlagsSound'
  BY <1>1, BoundStays, FlagsQuiet DEF CausesInv
<1>3. (\A u \in Turns : CauseKnown(u))'
  BY CauseMoves DEF CausesInv
<1> QED
  BY <1>2, <1>3 DEF CausesInv

LEMMA PlainEnd ==
    ASSUME IInv, CausesInv, NEW t \in Turns, run[t].pc \in Loop \ BoundPlaces,
           NEW err \in Errors, Ends(t, err), err = "canceled" => run[t].cancelled,
           UNCHANGED regs
    PROVE  CausesInv'
<1>1. run[t].pc \in Owning
  BY LoopOwns
<1>2. FlagsSound'
  <2>1. run' = [run EXCEPT ![t] = Ended(run[t], err)]
    BY DEF Ends
  <2> QED
    BY <2>1, BoundStays, FlagsQuiet, SameRegistries DEF CausesInv
<1>3. (\A u \in Turns : CauseKnown(u))'
  BY <1>1, CauseEnds DEF CausesInv
<1> QED
  BY <1>2, <1>3 DEF CausesInv

LEMMA PlainRestart ==
    ASSUME IInv, CausesInv, NEW t \in Turns, run[t].pc \in Loop \ BoundPlaces,
           NEW messages, run' = [run EXCEPT ![t] = Running(run[t], messages)],
           SameFlags
    PROVE  CausesInv'
<1>1. run[t].pc \in Owning
  BY LoopOwns
<1>2. FlagsSound'
  BY BoundStays, FlagsQuiet DEF CausesInv
<1>3. (\A u \in Turns : CauseKnown(u))'
  BY <1>1, CauseRestarts DEF CausesInv
<1> QED
  BY <1>2, <1>3 DEF CausesInv

LEMMA RejoinCauses ==
    ASSUME IInv, CausesInv, NEW t \in Turns, run[t].pc \in Loop \ BoundPlaces, Rejoin(t)
    PROVE  CausesInv'
<1>1. run[t].pc # "none"
  BY LoopOwns, PlacesOfOwner
<1>2. SameFlags
  BY <1>1, EmptyFlags DEF Rejoin
<1> QED
  BY <1>2, PlainRestart DEF Rejoin

\* Other writes, with what the turn knows of its error afterwards.
LEMMA PlainWrite ==
    ASSUME IInv, CausesInv, NEW t \in Turns, run[t].pc # "none", NEW r,
           run' = [run EXCEPT ![t] = r], SameFlags, KeepsPreempts,
           run[t].pc \notin BoundPlaces,
           r.err = "canceled" =>
               \/ r.cancelled
               \/ r.pc \in Loop \ {"taken"} /\ regs'[r.reg].preempted
    PROVE  CausesInv'
<1>1. FlagsSound'
  BY BoundStays, FlagsQuiet DEF CausesInv
<1>2. (\A u \in Turns : CauseKnown(u))'
  BY CauseWrites DEF CausesInv
<1> QED
  BY <1>1, <1>2 DEF CausesInv

LEMMA ReadingCauses ==
    ASSUME IInv, CausesInv, NEW t \in Turns, Drain(t) \/ TakeLeftover(t) \/ Cap(t)
    PROVE  CausesInv'
<1> USE DEF At
<1>1. run[t].pc # "none" /\ run[t] \in Runs /\ run[t].reg \in Turns /\ CauseKnown(t)
  BY OwnRegistry DEF Drain, TakeLeftover, Cap, CausesInv
<1>2. SameFlags /\ KeepsPreempts
  BY <1>1, EmptyFlags, SameRegistries DEF Drain, TakeLeftover, Cap
<1>3. CASE Drain(t)
  <2> DEFINE r == [run[t] EXCEPT !.pc = "drained", !.history = @ \cup Inbox(t)]
  <2>1. run' = [run EXCEPT ![t] = r]
    BY <1>1, <1>3 DEF Drain, IInv, TypeOK
  <2>2. r.pc = "drained" /\ r.err = run[t].err /\ r.cancelled = run[t].cancelled
        /\ r.reg = run[t].reg
    BY <1>1 DEF Runs
  <2>3. run[t].pc \in {"asked", "next"} /\ "drained" \in Loop
    BY <1>3, BoundOutside DEF Drain
  <2> HIDE DEF r
  <2>4. r.err = "canceled" => r.cancelled \/ regs'[r.reg].preempted
    BY <1>1, <1>2, <2>2, <2>3 DEF CauseKnown, KeepsPreempts
  <2> QED
    BY <1>1, <1>2, <2>1, <2>2, <2>3, <2>4, BoundOutside, PlainWrite
<1>4. CASE TakeLeftover(t)
  <2> DEFINE r == [run[t] EXCEPT !.pc = "left", !.left = Inbox(t)]
  <2>1. run' = [run EXCEPT ![t] = r]
    BY <1>1, <1>4 DEF TakeLeftover, IInv, TypeOK
  <2>2. r.err = run[t].err /\ r.cancelled = run[t].cancelled
    BY <1>1 DEF Runs
  <2>3. run[t].pc = "ended" /\ "ended" \notin Loop /\ "ended" \notin BoundPlaces
    BY <1>4 DEF TakeLeftover, Loop, BoundPlaces, Replied
  <2> HIDE DEF r
  <2>4. r.err = "canceled" => r.cancelled
    BY <1>1, <2>2, <2>3 DEF CauseKnown
  <2> QED
    BY <1>1, <1>2, <2>1, <2>3, <2>4, PlainWrite
<1>5. CASE Cap(t)
  <2> DEFINE r == [run[t] EXCEPT !.pc = "returned", !.err = "limit"]
  <2>1. run' = [run EXCEPT ![t] = r] /\ r.err = "limit"
    BY <1>1, <1>5 DEF Cap, IInv, TypeOK, Runs
  <2>2. run[t].pc \notin BoundPlaces
    BY <1>5 DEF Cap, BoundPlaces
  <2> HIDE DEF r
  <2> QED
    BY <1>1, <1>2, <2>1, <2>2, PlainWrite
<1> QED
  BY <1>3, <1>4, <1>5

\* A move that binds an epoch, or drops it.
LEMMA BoundMove ==
    ASSUME IInv, CausesInv, NEW t \in Turns, NEW place \in Loop \ {"taken"},
           Goto(t, place), run[t].pc \in Loop \ {"taken"},
           \/ Bind(t) /\ run[t].pc \notin BoundPlaces /\ place \in BoundPlaces
           \/ Unbind(t) /\ run[t].pc \in BoundPlaces
    PROVE  CausesInv'
<1>1. run[t].pc \in Owning /\ run[t].pc # "none" /\ place \in Places
  BY LoopOwns, PlacesOfOwner
<1>2. run'[t].pc = place /\ run'[t].reg = run[t].reg
  BY <1>1, OwnRegistry, MovedRun DEF Goto, IInv, TypeOK
<1>3. FlagsSound' /\ KeepsPreempts
  BY <1>1, <1>2, BindFlags, UnbindFlags DEF CausesInv
<1>4. (\A u \in Turns : CauseKnown(u))'
  BY <1>1, <1>3, CauseMoves DEF CausesInv
<1> QED
  BY <1>3, <1>4 DEF CausesInv

LEMMA CallCauses ==
    ASSUME IInv, CausesInv, NEW t \in Turns,
           Generate(t) \/ Generated(t) \/ Drop(t) \/ Tool(t) \/ ToolEnds(t)
    PROVE  CausesInv'
<1> USE DEF At
<1>0. /\ {"calling", "answered", "toolcall", "tooling"} \subseteq (Loop \ {"taken"}) \cap BoundPlaces
      /\ {"drained", "tool", "next", "returned"} \subseteq (Loop \ {"taken"}) \ BoundPlaces
      /\ "none" \notin Loop /\ Loop \subseteq Places
  BY DEF Loop, BoundPlaces, Replied, Places, Owning
<1>1. CASE Generate(t) \/ Tool(t)
  BY <1>0, <1>1, BoundMove DEF Generate, Tool
<1>2. CASE ToolEnds(t)
  BY <1>0, <1>2, BoundMove DEF ToolEnds
<1>3. CASE Drop(t)
  <2>1. PICK place \in {"returned", "tool"} : Goto(t, place)
    BY <1>3 DEF Drop
  <2>2. run[t].pc \in {"answered", "toolcall"} /\ Unbind(t)
    BY <1>3 DEF Drop, Replied
  <2> QED
    BY <1>0, <2>1, <2>2, BoundMove
<1>4. CASE Generated(t)
  <2>1. PICK place \in {"answered", "toolcall"} : Goto(t, place)
    BY <1>4 DEF Generated, Replied
  <2>2. run[t].pc = "calling" /\ UNCHANGED regs
    BY <1>4 DEF Generated
  <2>3. SameFlags /\ KeepsPreempts
    BY <2>2, SameRegistries
  <2> QED
    BY <1>0, <2>1, <2>2, <2>3, PlainMove
<1> QED
  BY <1>1, <1>2, <1>3, <1>4

\* A call that fails as cancelled was cut.
LEMMA FailureCause ==
    ASSUME IInv, CausesInv, NEW t \in Turns, GenerateFails(t)
    PROVE  CausesInv'
<1>1. run[t].pc = "calling" /\ "calling" \in BoundPlaces /\ Unbind(t)
  BY DEF GenerateFails, At, BoundPlaces
<1>2. /\ run[t].pc \in Owning /\ run[t].pc # "none" /\ run[t] \in Runs
      /\ run[t].reg \in Turns
  BY <1>1, LoopOwns, PlacesOfOwner, OwnRegistry
<1>3. FlagsSound' /\ regs'[run[t].reg].preempted = regs[run[t].reg].preempted
  BY <1>1, UnbindFlags DEF CausesInv
<1>4. PICK err \in Errors : /\ run' = [run EXCEPT ![t].pc = "returned", ![t].err = err]
                            /\ err = "canceled" => Cut(t)
  <2>1. CASE Cut(t)
    BY <2>1 DEF GenerateFails, Errors
  <2>2. CASE ~Cut(t)
    BY <2>2 DEF GenerateFails, Errors
  <2> QED
    BY <2>1, <2>2
<1> DEFINE r == [run[t] EXCEPT !.pc = "returned", !.err = err]
<1>5. run' = [run EXCEPT ![t] = r]
  BY <1>2, <1>4 DEF IInv, TypeOK
<1>6. r.pc = "returned" /\ r.err = err /\ r.cancelled = run[t].cancelled
      /\ r.reg = run[t].reg
  BY <1>2 DEF Runs
<1>7. Cut(t) => run[t].cancelled \/ regs[run[t].reg].preempted
  BY <1>2 DEF Cut, CausesInv, FlagsSound
<1>8. "returned" \in Loop \ {"taken"}
  BY BoundOutside
<1> HIDE DEF r
<1>9. (\A u \in Turns : CauseKnown(u))'
  BY <1>2, <1>3, <1>4, <1>5, <1>6, <1>7, <1>8, CauseWrites DEF CausesInv
<1> QED
  BY <1>3, <1>9 DEF CausesInv

LEMMA VerifyCauses ==
    ASSUME IInv, CausesInv, NEW t \in Turns, Verify(t) \/ Verified(t)
    PROVE  CausesInv'
<1>0. /\ {"verify", "verifying", "taking"} \subseteq Loop \ {"taken"}
      /\ "verifying" \in BoundPlaces /\ "verify" \notin BoundPlaces
  BY DEF Loop, BoundPlaces, Replied
<1>a. PICK place \in {"verifying", "taking"} : \E failure :
          /\ run' = [run EXCEPT ![t].pc = place, ![t].failure = failure]
          /\ \/ run[t].pc = "verify" /\ Bind(t) /\ place = "verifying"
             \/ run[t].pc = "verifying" /\ Unbind(t)
  <2>1. CASE Verify(t)
    BY <2>1 DEF Verify, At
  <2>2. CASE Verified(t)
    BY <2>2 DEF Verified, At
  <2> QED
    BY <2>1, <2>2
<1>1. PICK failure :
          /\ run' = [run EXCEPT ![t].pc = place, ![t].failure = failure]
          /\ \/ run[t].pc = "verify" /\ Bind(t) /\ place = "verifying"
             \/ run[t].pc = "verifying" /\ Unbind(t)
  BY <1>a
<1>2. /\ run[t].pc \in Owning /\ run[t].pc # "none" /\ run[t] \in Runs
      /\ run[t].reg \in Turns
  BY <1>0, <1>1, LoopOwns, PlacesOfOwner, OwnRegistry
<1> DEFINE r == [run[t] EXCEPT !.pc = place, !.failure = failure]
<1>3. run' = [run EXCEPT ![t] = r]
  BY <1>1, <1>2 DEF IInv, TypeOK
<1>4. r.pc = place /\ r.err = run[t].err /\ r.cancelled = run[t].cancelled
      /\ r.reg = run[t].reg
  BY <1>2 DEF Runs
<1> HIDE DEF r
<1>5. run'[t] = r
  BY <1>3 DEF IInv, TypeOK
<1>6. FlagsSound' /\ KeepsPreempts
  BY <1>0, <1>1, <1>2, <1>4, <1>5, BindFlags, UnbindFlags DEF CausesInv
<1>7. r.err = "canceled" => r.cancelled \/ regs'[r.reg].preempted
  BY <1>0, <1>1, <1>2, <1>4, <1>6 DEF CausesInv, CauseKnown, KeepsPreempts
<1>8. (\A u \in Turns : CauseKnown(u))'
  BY <1>0, <1>2, <1>3, <1>4, <1>6, <1>7, CauseWrites DEF CausesInv
<1> QED
  BY <1>6, <1>8 DEF CausesInv

LEMMA TakeCause ==
    ASSUME IInv, CausesInv, NEW t \in Turns, TakePreempt(t)
    PROVE  CausesInv'
<1>1. run[t].pc = "taking" /\ "taking" \in Loop \ BoundPlaces /\ "taking" # "taken"
  BY BoundOutside DEF TakePreempt, At
<1>2. /\ run[t].pc \in Owning \ BoundPlaces /\ run[t].pc # "none" /\ run[t] \in Runs
      /\ run[t].reg \in Turns /\ regs[run[t].reg] \in Registries
  BY <1>1, LoopOwns, PlacesOfOwner, OwnRegistry
<1> DEFINE r == [run[t] EXCEPT !.pc = "taken", !.taken = regs[run[t].reg].preempted]
           e == [regs[run[t].reg] EXCEPT !.preempted = FALSE, !.armed = FALSE]
<1>3. run' = [run EXCEPT ![t] = r]
  BY <1>2 DEF TakePreempt, IInv, TypeOK
<1>4. r.pc = "taken" /\ r.err = run[t].err /\ r.cancelled = run[t].cancelled
      /\ r.reg = run[t].reg /\ r.taken = regs[run[t].reg].preempted
  BY <1>2 DEF Runs
<1>5. regs' = [regs EXCEPT ![run[t].reg] = e]
  BY <1>2, Typed DEF TakePreempt
<1>6. ~e.preempted /\ ~e.armed /\ e.epoch = regs[run[t].reg].epoch
  BY <1>2, FlagFields
<1> HIDE DEF r, e
<1>7. FlagsSound'
  BY <1>2, <1>5, <1>6, ClearFlags DEF CausesInv
<1>8. r.err = "canceled" => r.cancelled \/ (r.pc = "taken" /\ r.taken)
  BY <1>1, <1>4 DEF CausesInv, CauseKnown
<1>9. (\A u \in Turns : CauseKnown(u))'
  BY <1>2, <1>3, <1>8, CauseWrites DEF CausesInv
<1> QED
  BY <1>7, <1>9 DEF CausesInv

\* A run that was cut by a preempt is begun again; one that was stopped ends.
LEMMA DecisionCauses ==
    ASSUME IInv, CausesInv, NEW t \in Turns,
           \/ Returned(t) \/ Preempts(t) \/ Unverified(t) \/ RetryFailure(t) \/ RetryFolded(t)
           \/ Fails(t)
    PROVE  CausesInv'
<1>1. run[t].pc \in {"returned", "taken"}
  BY DEF Returned, Preempts, Unverified, RetryFailure, RetryFolded, Fails, At
<1>2. run[t].pc \in Loop \ BoundPlaces /\ run[t].pc # "none" /\ run[t] \in Runs
      /\ CauseKnown(t)
  BY <1>1, BoundOutside, Typed DEF CausesInv
<1>3. CASE Rejoin(t)
  BY <1>2, <1>3, RejoinCauses
<1>4. CASE Returned(t)
  <2>1. UNCHANGED regs /\ run[t].pc = "returned"
    BY <1>4 DEF Returned, At
  <2>2. CASE run[t].cancelled /\ Ends(t, "canceled")
    BY <1>2, <2>1, <2>2, PlainEnd DEF Errors
  <2>3. CASE \E place \in {"verify", "taking"} : Goto(t, place)
    <3>1. PICK place \in {"verify", "taking"} : Goto(t, place)
      BY <2>3
    <3>2. "returned" # "taken" /\ place \in Loop \ {"taken"} /\ place \in Places
      BY BoundOutside, PlacesOfOwner
    <3> QED
      BY <1>2, <2>1, <3>1, <3>2, SameRegistries, PlainMove
  <2> QED
    BY <1>4, <2>2, <2>3 DEF Returned
<1>5. CASE Unverified(t)
  <2>1. CASE Goto(t, "admit") /\ UNCHANGED regs
    <3>1. run[t].err # "canceled" /\ "admit" \in Places
      BY <1>5, PlacesOfOwner DEF Unverified
    <3> QED
      BY <1>2, <2>1, <3>1, SameRegistries, PlainMove
  <2>2. CASE Ends(t, "failed") /\ UNCHANGED regs
    BY <1>2, <2>2, PlainEnd DEF Errors
  <2> QED
    BY <1>3, <1>5, <2>1, <2>2 DEF Unverified
<1>6. CASE RetryFolded(t)
  BY <1>2, <1>6, SameRegistries, PlainRestart DEF RetryFolded
<1>7. CASE Fails(t)
  <2>1. run[t].pc = "taken" /\ run[t].err \in Errors /\ Ends(t, run[t].err) /\ UNCHANGED regs
    BY <1>2, <1>7 DEF Fails, At, Errors
  <2>2. run[t].err = "canceled" => run[t].cancelled
    BY <1>2, <1>7, <2>1 DEF Fails, Rejoins, CauseKnown
  <2> QED
    BY <1>2, <2>1, <2>2, PlainEnd
<1> QED
  BY <1>3, <1>4, <1>5, <1>6, <1>7 DEF Preempts, RetryFailure

LEMMA AdmitCauses ==
    ASSUME IInv, CausesInv, NEW t \in Turns,
           Admit(t) \/ Pause(t) \/ Extended(t) \/ NotExtended(t)
    PROVE  CausesInv'
<1>1. run[t].pc \in {"admit", "pausing", "paused"}
  BY DEF Admit, Pause, Extended, NotExtended, At
<1>2. run[t].pc \in Loop \ BoundPlaces /\ run[t].pc # "none" /\ run[t].pc # "taken"
  BY <1>1, BoundOutside
<1>3. CASE Rejoin(t)
  BY <1>2, <1>3, RejoinCauses
<1>4. CASE UNCHANGED regs /\ \E err \in {"failed", "none", "limit"} : Ends(t, err)
  BY <1>2, <1>4, PlainEnd DEF Errors
<1>5. CASE UNCHANGED regs /\ \E place \in {"pausing", "paused"} : Goto(t, place)
  <2>1. PICK place \in {"pausing", "paused"} : Goto(t, place)
    BY <1>5
  <2>2. place \in Loop \ {"taken"} /\ place \in Places
    BY BoundOutside, PlacesOfOwner
  <2> QED
    BY <1>2, <1>5, <2>1, <2>2, SameRegistries, PlainMove
<1> QED
  BY <1>3, <1>4, <1>5 DEF Admit, Pause, Extended, NotExtended

\* A registry is closed as its turn leaves it, or while nobody has the runtime.
LEMMA EndingCauses ==
    ASSUME IInv, CausesInv, NEW t \in Turns,
           \/ Outcome(t) \/ Park(t) \/ Close(t) \/ Release(t) \/ Reap(t) \/ NoReap(t)
           \/ StartNone(t) \/ Leave(t)
    PROVE  CausesInv'
<1> USE DEF At
<1>0. \A place \in {"left", "decided", "closed", "released", "finished", "leaving", "gone"} :
          place \notin Loop \cup BoundPlaces /\ place \in Places /\ place # "none"
  BY DEF Loop, BoundPlaces, Replied, Places, Owning
<1>1. run[t].pc \in {"left", "decided", "closed", "released", "finished", "leaving"}
  BY DEF Outcome, Park, Close, Release, Reap, NoReap, StartNone, Leave
<1>2. /\ run[t].pc \notin Loop \cup BoundPlaces /\ run[t].pc # "none"
      /\ run[t] \in Runs /\ run[t].reg \in Turns /\ regs[run[t].reg] \in Registries
  BY <1>0, <1>1, OwnRegistry
<1>3. CASE Park(t) \/ NoReap(t) \/ Leave(t)
  <2>1. PICK place \in {"closed", "finished", "gone"} : Goto(t, place)
    BY <1>3 DEF Park, NoReap, Leave
  <2>2. UNCHANGED regs
    BY <1>3 DEF Park, NoReap, Leave
  <2> QED
    BY <1>0, <1>2, <2>1, <2>2, SameRegistries, PlainMove
<1>4. CASE Outcome(t) \/ StartNone(t)
  <2>1. PICK r : run' = [run EXCEPT ![t] = r] /\ r.err # "canceled"
    <3>1. CASE Outcome(t)
      <4> DEFINE err == IF run[t].err = "transient" THEN "transient" ELSE "none"
      <4>1. PICK status :
              run' = [run EXCEPT ![t].pc = "decided", ![t].status = status, ![t].err = err]
        BY <3>1 DEF Outcome
      <4>2. err # "canceled"
        OBVIOUS
      <4> HIDE DEF err
      <4> DEFINE r == [run[t] EXCEPT !.pc = "decided", !.status = status, !.err = err]
      <4>3. run' = [run EXCEPT ![t] = r] /\ r.err = err
        BY <1>2, <4>1 DEF IInv, TypeOK, Runs
      <4> HIDE DEF r
      <4> QED
        BY <4>2, <4>3
    <3>2. CASE StartNone(t)
      <4> DEFINE r == [run[t] EXCEPT !.pc = "leaving", !.err = "none"]
      <4>1. run' = [run EXCEPT ![t] = r] /\ r.err = "none"
        BY <1>2, <3>2 DEF StartNone, IInv, TypeOK, Runs
      <4> HIDE DEF r
      <4> QED
        BY <4>1
    <3> QED
      BY <1>4, <3>1, <3>2
  <2>2. SameFlags /\ KeepsPreempts
    BY <1>4, SameRegistries DEF Outcome, StartNone
  <2> QED
    BY <1>2, <2>1, <2>2, PlainWrite
<1>5. CASE Release(t)
  <2> DEFINE r == [run[t] EXCEPT !.pc = "released", !.cancelled = TRUE]
  <2>1. run' = [run EXCEPT ![t] = r] /\ r.cancelled
    BY <1>2, <1>5 DEF Release, IInv, TypeOK, Runs
  <2>2. SameFlags /\ KeepsPreempts
    BY <1>5, SameRegistries DEF Release
  <2> HIDE DEF r
  <2> QED
    BY <1>2, <2>1, <2>2, PlainWrite
<1>6. ASSUME NEW x \in Turns, regs' = [regs EXCEPT ![x] = Closed(@)],
             NEW place \in {"closed", "finished"}, Goto(t, place),
             run[t].pc \in Owning \/ ~rt.running
      PROVE  CausesInv'
  <2>1. LET e == Closed(regs[x])
        IN ~e.preempted /\ ~e.armed /\ e.epoch = regs[x].epoch
    BY <1>6, Typed, FlagFields
  <2>2. ~rt.running \/ run[t].pc \in Owning \ BoundPlaces
    BY <1>2, <1>6
  <2>3. FlagsSound'
    BY <1>6, <2>1, <2>2, ClearFlags DEF CausesInv
  <2>4. (\A u \in Turns : CauseKnown(u))'
    BY <1>0, <1>2, <1>6, CauseMoves DEF CausesInv
  <2> QED
    BY <2>3, <2>4 DEF CausesInv
<1>7. CASE Close(t)
  <2>1. run[t].pc \in Owning
    BY <1>7, PlacesOfOwner DEF Close
  <2> QED
    BY <1>2, <1>6, <1>7, <2>1 DEF Close
<1>8. CASE Reap(t)
  <2>1. rt.parked \in Turns
    BY <1>8, Typed DEF Reap, RtType
  <2> QED
    BY <1>6, <1>8, <2>1 DEF Reap
<1> QED
  BY <1>3, <1>4, <1>5, <1>7, <1>8

\* A turn begins while no call is under way, without an error.
LEMMA StartCauses ==
    ASSUME IInv, CausesInv,
           \/ \E c \in Clients : Start(c) \/ StartInstead(c)
           \/ \E t \in Turns : StartLate(t)
    PROVE  CausesInv'
<1>1. /\ ~rt.running /\ UNCHANGED regs
      /\ \E runs, messages :
            /\ run' = WithTurn(runs, messages)
            /\ \/ runs = run
               \/ \E t \in Turns : /\ run[t].pc = "finished"
                                   /\ runs = [run EXCEPT ![t].pc = "leaving", ![t].err = "none"]
  BY DEF Start, StartInstead, StartLate, Starts, At
<1>2. PICK runs, messages :
          /\ run' = WithTurn(runs, messages)
          /\ \/ runs = run
             \/ \E t \in Turns : /\ run[t].pc = "finished"
                                 /\ runs = [run EXCEPT ![t].pc = "leaving", ![t].err = "none"]
  BY <1>1
<1>3. \A r \in Turns : regs[r].epoch = "none"
  BY <1>1, NoEpoch DEF CausesInv
<1>4. FlagsSound'
  BY <1>1, <1>3 DEF FlagsSound, CausesInv
<1> DEFINE n == [NotStarted EXCEPT !.reg = IF rt.parked = NoTurn THEN NextTurn ELSE rt.parked]
           new == Running(n, messages)
<1>5. new.err = "none"
  BY DEF NotStarted, Running
<1>6. \A u \in Turns : runs[u] = run[u] \/ runs[u].err = "none"
  <2>1. CASE runs = run
    BY <2>1
  <2>2. ASSUME NEW t \in Turns, runs = [run EXCEPT ![t].pc = "leaving", ![t].err = "none"]
        PROVE  \A u \in Turns : runs[u] = run[u] \/ runs[u].err = "none"
    <3> DEFINE r == [run[t] EXCEPT !.pc = "leaving", !.err = "none"]
    <3>1. runs = [run EXCEPT ![t] = r] /\ r.err = "none"
      BY <2>2, Typed DEF IInv, TypeOK, Runs
    <3> HIDE DEF r
    <3> QED
      BY <3>1 DEF IInv, TypeOK
  <2> QED
    BY <1>2, <2>1, <2>2
<1>7. \A u \in Turns : run'[u] = new \/ run'[u] = run[u] \/ run'[u].err = "none"
  <2>1. \A u \in Turns : run'[u] = new \/ run'[u] = runs[u]
    <3>1. run' = [runs EXCEPT ![NextTurn] = new]
      BY <1>2 DEF WithTurn
    <3>2. DOMAIN runs = Turns
      BY <1>2 DEF IInv, TypeOK
    <3> HIDE DEF new
    <3> QED
      BY <3>1, <3>2
  <2> QED
    BY <1>6, <2>1
<1> HIDE DEF new
<1>8. ASSUME NEW u \in Turns PROVE CauseKnown(u)'
  <2>1. CASE run'[u] = run[u]
    BY <1>1, <2>1 DEF CausesInv, CauseKnown
  <2>2. CASE run'[u].err = "none"
    BY <2>2 DEF CauseKnown
  <2> QED
    BY <1>5, <1>7, <2>1, <2>2
<1> QED
  BY <1>4, <1>8 DEF CausesInv

-----------------------------------------------------------------------------
\* Clients.

\* A client that writes neither a flag nor an error.
LEMMA ClientCauses ==
    ASSUME IInv, CausesInv, SameFlags, KeepsPreempts,
           \A t \in Turns : /\ run'[t].pc = run[t].pc /\ run'[t].reg = run[t].reg
                            /\ run'[t].err = run[t].err /\ run'[t].taken = run[t].taken
                            /\ run[t].cancelled => run'[t].cancelled
    PROVE  CausesInv'
<1>1. StaysBound
  BY DEF StaysBound, HasEpoch
<1>2. FlagsSound'
  BY <1>1, FlagsQuiet DEF CausesInv
<1>3. ASSUME NEW t \in Turns PROVE CauseKnown(t)'
  <2>1. run[t].pc \in Loop => run[t].reg \in Turns
    BY LoopOwns, PlacesOfOwner, OwnRegistry
  <2> QED
    BY <2>1 DEF CausesInv, CauseKnown, KeepsPreempts
<1> QED
  BY <1>2, <1>3 DEF CausesInv

LEMMA QuietClient ==
    ASSUME IInv, CausesInv, UNCHANGED <<regs, run>>
    PROVE  CausesInv'
BY SameRegistries, ClientCauses

LEMMA InboxCauses ==
    ASSUME IInv, CausesInv, NEW c \in Clients, SteerLand(c) \/ RetractTake(c)
    PROVE  CausesInv'
<1>1. run \in [Turns -> Runs] /\ CalledReg(c) \in Turns /\ call[c].turn \in Turns
      /\ regs[CalledReg(c)] \in Registries
  BY CalledRegistry DEF SteerLand, RetractTake, TurnOps, IInv, TypeOK
<1>2. CASE RetractTake(c)
  <2> DEFINE e == [regs[CalledReg(c)] EXCEPT !.inbox = @ \ Text(c), !.due = @ \ Text(c)]
  <2>1. regs' = [regs EXCEPT ![CalledReg(c)] = e] /\ UNCHANGED run
    BY <1>1, <1>2, Typed DEF RetractTake
  <2>2. e.armed = regs[CalledReg(c)].armed /\ e.epoch = regs[CalledReg(c)].epoch
        /\ e.preempted = regs[CalledReg(c)].preempted
    BY <1>1 DEF Registries
  <2> HIDE DEF e
  <2>3. SameFlags /\ KeepsPreempts
    BY <2>1, <2>2, Typed DEF SameFlags, KeepsPreempts
  <2> QED
    BY <2>1, <2>3, ClientCauses
<1>3. CASE SteerLand(c)
  <2>1. rt.turn = call[c].turn /\ Current = CalledReg(c)
    BY <1>3 DEF SteerLand, StillOwner, Current, CalledReg
  <2> DEFINE e == [regs[CalledReg(c)] EXCEPT !.inbox = @ \cup Text(c)]
             r == [run[rt.turn] EXCEPT !.failure = "superseded"]
  <2>2. regs' = [regs EXCEPT ![CalledReg(c)] = e]
    BY <1>1, <1>3, <2>1, Typed DEF SteerLand
  <2>3. e.armed = regs[CalledReg(c)].armed /\ e.epoch = regs[CalledReg(c)].epoch
        /\ e.preempted = regs[CalledReg(c)].preempted
    BY <1>1 DEF Registries
  <2>4. run' = run \/ run' = [run EXCEPT ![rt.turn] = r]
    BY <1>1, <1>3, <2>1 DEF SteerLand, Supersede
  <2>5. /\ r.pc = run[rt.turn].pc /\ r.reg = run[rt.turn].reg /\ r.err = run[rt.turn].err
        /\ r.taken = run[rt.turn].taken /\ r.cancelled = run[rt.turn].cancelled
    BY <1>1, <2>1 DEF Runs
  <2> HIDE DEF e, r
  <2>6. SameFlags /\ KeepsPreempts
    BY <2>2, <2>3, Typed DEF SameFlags, KeepsPreempts
  <2>7. \A t \in Turns : /\ run'[t].pc = run[t].pc /\ run'[t].reg = run[t].reg
                         /\ run'[t].err = run[t].err /\ run'[t].taken = run[t].taken
                         /\ run'[t].cancelled = run[t].cancelled
    BY <1>1, <2>1, <2>4, <2>5
  <2> QED
    BY <2>6, <2>7, ClientCauses
<1> QED
  BY <1>2, <1>3

LEMMA StopCauses ==
    ASSUME IInv, CausesInv, NEW c \in Clients, StopCancel(c) \/ StopParked(c)
    PROVE  CausesInv'
<1>1. CASE StopCancel(c)
  <2>1. PICK t \in Turns : t = call[c].turn
    BY <1>1, CalledRegistry DEF StopCancel, TurnOps
  <2> DEFINE r == [run[t] EXCEPT !.cancelled = TRUE]
  <2>2. run' = [run EXCEPT ![t].cancelled = TRUE] /\ UNCHANGED regs
    BY <1>1, <2>1 DEF StopCancel
  <2>3. run' = [run EXCEPT ![t] = r]
    BY <2>2 DEF IInv, TypeOK
  <2>4. /\ r.pc = run[t].pc /\ r.reg = run[t].reg /\ r.err = run[t].err
        /\ r.taken = run[t].taken /\ r.cancelled
    BY Typed DEF Runs
  <2> HIDE DEF r
  <2>5. \A u \in Turns : /\ run'[u].pc = run[u].pc /\ run'[u].reg = run[u].reg
                         /\ run'[u].err = run[u].err /\ run'[u].taken = run[u].taken
                         /\ run[u].cancelled => run'[u].cancelled
    BY <2>3, <2>4 DEF IInv, TypeOK
  <2> QED
    BY <2>2, <2>5, SameRegistries, ClientCauses
<1>2. CASE StopParked(c)
  <2>1. rt.parked \in Turns /\ ~rt.running /\ UNCHANGED run
    BY <1>2, Typed DEF StopParked, RtType
  <2>2. LET e == Closed(regs[rt.parked])
        IN ~e.preempted /\ ~e.armed /\ e.epoch = regs[rt.parked].epoch
    BY <2>1, Typed, FlagFields
  <2>3. FlagsSound'
    BY <1>2, <2>1, <2>2, ClearFlags DEF StopParked, CausesInv
  <2>4. \A t \in Turns : run[t].pc \notin Loop
    BY <2>1, LoopOwns DEF IInv, OneOwner
  <2>5. "taken" \in Loop
    BY DEF Loop
  <2>6. (\A u \in Turns : CauseKnown(u))'
    BY <2>1, <2>4, <2>5 DEF CausesInv, CauseKnown
  <2> QED
    BY <2>3, <2>6 DEF CausesInv
<1> QED
  BY <1>1, <1>2

\* Registry.Preempt records what it does.
LEMMA PreemptCauses ==
    ASSUME IInv, CausesInv, NEW c \in Clients, PreemptFire(c)
    PROVE  CausesInv'
<1>1. run \in [Turns -> Runs] /\ CalledReg(c) \in Turns /\ regs[CalledReg(c)] \in Registries
  BY CalledRegistry DEF PreemptFire, TurnOps, IInv, TypeOK
<1>2. CASE UNCHANGED <<regs, run>>
  BY <1>2, QuietClient
<1>3. ASSUME NEW promised, Interrupt(CalledReg(c)),
             regs' = [regs EXCEPT ![CalledReg(c)] = Preempted(@, promised)]
      PROVE  CausesInv'
  <2> DEFINE e == Preempted(regs[CalledReg(c)], promised)
  <2>1. e.preempted /\ (e.epoch # "none" => regs[CalledReg(c)].epoch # "none")
    BY <1>1 DEF Preempted, Registries
  <2>2. regs' = [regs EXCEPT ![CalledReg(c)] = e]
    BY <1>3
  <2>3. \A q \in Runs : LET r == [q EXCEPT !.failure = "interrupted"]
                        IN /\ r.pc = q.pc /\ r.reg = q.reg /\ r.err = q.err
                           /\ r.taken = q.taken /\ r.cancelled = q.cancelled
    BY DEF Runs
  <2>4. \A t \in Turns : run'[t] = run[t] \/ run'[t] = [run[t] EXCEPT !.failure = "interrupted"]
    BY <1>3 DEF Interrupt
  <2>5. \A t \in Turns : /\ run'[t].pc = run[t].pc /\ run'[t].reg = run[t].reg
                         /\ run'[t].err = run[t].err /\ run'[t].taken = run[t].taken
                         /\ run'[t].cancelled = run[t].cancelled
    BY <1>1, <2>3, <2>4
  <2> HIDE DEF e
  <2>6. \A r \in Turns : HasEpoch(r) => HasEpoch(r)'
    BY <2>5 DEF HasEpoch
  <2>7. \A r \in Turns : regs[r].epoch # "none" => HasEpoch(r)'
    BY <2>6 DEF CausesInv, FlagsSound
  <2>8. FlagsSound'
    BY <1>1, <2>1, <2>2, <2>7, FlagsOfOne DEF CausesInv
  <2>9. KeepsPreempts
    BY <1>1, <2>1, <2>2, Typed DEF KeepsPreempts
  <2>10. ASSUME NEW t \in Turns PROVE CauseKnown(t)'
    <3>1. run[t].pc \in Loop => run[t].reg \in Turns
      BY LoopOwns, PlacesOfOwner, OwnRegistry
    <3> QED
      BY <2>5, <2>9, <3>1 DEF CausesInv, CauseKnown, KeepsPreempts
  <2> QED
    BY <2>8, <2>10 DEF CausesInv
<1> QED
  BY <1>2, <1>3 DEF PreemptFire

LEMMA CausesNext == IInv /\ CausesInv /\ [Next]_vars => CausesInv'
<1> SUFFICES ASSUME IInv, CausesInv, [Next]_vars PROVE CausesInv'
  OBVIOUS
<1>1. ASSUME NEW c \in Clients, ClientStep(c) PROVE CausesInv'
  <2>1. CASE Start(c) \/ StartInstead(c)
    BY <2>1, StartCauses
  <2>2. CASE \/ StartRefused(c) \/ SteerMissed(c) \/ RetractMissed(c) \/ PreemptCall(c)
             \/ PreemptCheck(c) \/ StopCall(c) \/ StopLand(c) \/ StopDeny(c)
             \/ \E m \in Steers : SteerCall(c, m) \/ RetractCall(c, m)
             \/ \E decision \in {"yes", "stop"} : Continue(c, decision)
    <3>1. UNCHANGED <<regs, run>>
      BY <2>2 DEF StartRefused, SteerMissed, RetractMissed, PreemptCall, PreemptCheck, StopCall,
                  StopLand, StopDeny, SteerCall, RetractCall, Continue, Reads
    <3> QED
      BY <3>1, QuietClient
  <2> QED
    BY <1>1, <2>1, <2>2, InboxCauses, StopCauses, PreemptCauses DEF ClientStep
<1>2. ASSUME NEW t \in Turns, OwnStep(t) \/ ServiceStep(t) PROVE CausesInv'
  <2>1. CASE StartLate(t)
    BY <2>1, StartCauses
  <2> QED
    BY <1>2, <2>1, ReadingCauses, CallCauses, FailureCause, VerifyCauses, TakeCause,
       DecisionCauses, AdmitCauses, EndingCauses DEF OwnStep, ServiceStep
<1>3. CASE UNCHANGED vars
  BY <1>3, QuietClient DEF vars
<1> QED
  BY <1>1, <1>2, <1>3 DEF Next

\* A preempt is never reported as a failure of the model, for any clients and turns: a
\* turn that ends on a cancelled call was stopped (Registry.Preempt sets its flag even
\* when it arms the next call, and the loop takes it after the run).
THEOREM PreemptsAreNoFailures == Spec => []PreemptNotFailure
<1>1. CausesInv => PreemptNotFailure
  <2>1. "taken" \in Loop
    BY DEF Loop
  <2> QED
    BY <2>1 DEF CausesInv, CauseKnown, PreemptNotFailure
<1> QED
  BY InitInv, NextInv, CausesInit, CausesNext, <1>1, PTL DEF Spec
-----------------------------------------------------------------------------
\* What a turn that is done has read.

\* A completed model call has read the transcript: it is at the cap or beyond a reply.
ReadPlaces == {"answered", "toolcall", "tool", "tooling", "next", "admit", "pausing", "paused"}

JudgedPlaces == {"returned", "verify", "verifying", "taking", "taken", "ended", "left"}

Caught(t) ==
    \/ run[t].pc \in ReadPlaces
    \/ run[t].pc \in JudgedPlaces /\ run[t].err \in {"none", "limit"}
    \/ run[t].status = "done"

\* Messages another turn accepted are in the inbox of a turn only until its first drain.
TurnSound(t) ==
    /\ run[t].base \subseteq run[t].history
    /\ run[t].pc = "none" => run[t].history = {}
    /\ run[t].pc \in Loop \cup {"none", "ended"} => run[t].left = {} /\ run[t].status = "running"
    /\ Caught(t) => run[t].history \subseteq seen
    /\ run[t].pc \in Owning \ {"asked"} => \A m \in Inbox(t) : home[m] = t

Carried(m) == \E u \in Turns : u >= home[m] /\ m \in run[u].history

AcceptedSound(m) ==
    fate[m] = "accepted" =>
        /\ home[m] \in Turns /\ run[home[m]].pc # "none"
        /\ m \in seen \cup folded \cup Inbox(home[m]) \cup run[home[m]].left \/ Carried(m)

DoneInv == /\ \A t \in Turns : TurnSound(t)
           /\ \A m \in Steers : AcceptedSound(m)

LEMMA DoneInit == Init => DoneInv
<1> SUFFICES ASSUME Init PROVE DoneInv
  OBVIOUS
<1>1. ASSUME NEW t \in Turns PROVE TurnSound(t)
  <2>1. /\ run[t].pc = "none" /\ run[t].base = {} /\ run[t].history = {}
        /\ run[t].left = {} /\ run[t].status = "running"
    BY DEF Init, NotStarted
  <2>2. "none" \notin ReadPlaces \cup JudgedPlaces
    BY DEF ReadPlaces, JudgedPlaces
  <2> QED
    BY <2>1, <2>2, PlacesOfOwner DEF TurnSound, Caught
<1>2. \A m \in Steers : fate[m] = "unsent"
  BY DEF Init
<1> QED
  BY <1>1, <1>2 DEF DoneInv, AcceptedSound

HistoriesGrow == seen \subseteq seen' /\ folded \subseteq folded'

\* A step of turn t that moves the messages of its inbox into its words, or leaves inboxes
\* alone.
LEMMA DoneStep ==
    ASSUME IInv, DoneInv, NEW t \in Turns, run[t].pc # "none", UNCHANGED outside,
           \A u \in Turns \ {t} : run'[u] = run[u],
           run'[t].reg = run[t].reg, run'[t].pc # "none",
           HistoriesGrow,
           run[t].history \subseteq run'[t].history \cup seen' \cup folded',
           run[t].left \subseteq run'[t].left,
           \/ InboxesSame
           \/ /\ Empty(t) /\ run[t].pc \in Owning
              /\ \A m \in Inbox(t) : \/ m \in run'[t].history
                                     \/ home[m] = t /\ m \in run'[t].left,
           TurnSound(t)'
    PROVE  DoneInv'
<1>0. /\ run[t].reg \in Turns /\ regs \in [Turns -> Registries]
      /\ \A u \in Turns : run[u].pc # "none" => run[u].reg \in Turns
  BY OwnRegistry, Typed
<1>1. \A r \in Turns : regs'[r].inbox = regs[r].inbox \/ (Empty(t) /\ regs'[r].inbox = {})
  BY <1>0 DEF InboxesSame, Empty, Registries
<1>2. \A r \in Turns : r # run[t].reg => regs'[r].inbox = regs[r].inbox
  BY <1>0 DEF InboxesSame, Empty, Registries
<1>3. ASSUME NEW u \in Turns PROVE TurnSound(u)'
  <2>1. CASE u = t
    BY <2>1
  <2>2. CASE u # t
    <3>1. run'[u] = run[u] /\ TurnSound(u)
      BY <2>2 DEF DoneInv
    <3>2. run[u].pc \in Owning => run[u].reg \in Turns
      BY <1>0, PlacesOfOwner
    <3>3. run[u].pc \in Owning => Inbox(u)' \subseteq Inbox(u)
      BY <1>1, <3>1, <3>2 DEF Inbox
    <3> QED
      BY <3>1, <3>3 DEF TurnSound, Caught, HistoriesGrow, outside
  <2> QED
    BY <2>1, <2>2
<1>4. ASSUME NEW m \in Steers, fate[m] = "accepted" PROVE AcceptedSound(m)'
  <2>0. PICK h \in Turns : h = home[m]
    BY <1>4 DEF DoneInv, AcceptedSound
  <2>1. /\ run[h].pc # "none" /\ home'[m] = h
        /\ m \in seen \cup folded \cup Inbox(h) \cup run[h].left \/ Carried(m)
    BY <1>4, <2>0 DEF DoneInv, AcceptedSound, outside
  <2>2. run'[h].pc # "none" /\ run'[h].reg = run[h].reg /\ run[h].reg \in Turns
        /\ run[h].left \subseteq run'[h].left
    BY <1>0, <2>1
  <2>3. CASE m \in seen \cup folded
    BY <2>1, <2>2, <2>3 DEF AcceptedSound, HistoriesGrow
  <2>4. CASE m \in run[h].left
    BY <2>1, <2>2, <2>4 DEF AcceptedSound
  <2>5. CASE Carried(m)
    <3>1. PICK u \in Turns : u >= h /\ m \in run[u].history
      BY <2>0, <2>5 DEF Carried
    <3>2. m \in run'[u].history \cup seen' \cup folded'
      BY <3>1
    <3> QED
      BY <2>1, <2>2, <3>1, <3>2 DEF AcceptedSound, Carried
  <2>6. CASE m \in Inbox(h)
    <3>1. CASE m \in Inbox(h)'
      BY <2>1, <2>2, <3>1 DEF AcceptedSound, Inbox
    <3>2. CASE m \notin Inbox(h)'
      <4>1. ~InboxesSame /\ run[h].reg = run[t].reg
        BY <1>2, <2>2, <2>6, <3>2 DEF InboxesSame, Inbox
      <4>2. m \in Inbox(t) /\ run[t].pc \in Owning
        BY <2>6, <4>1 DEF Inbox
      <4>3. t >= h
        <5>1. rt.turn = t
          BY <4>2 DEF IInv, OneOwner
        <5>2. ~(h > rt.turn)
          BY <2>1 DEF IInv, Numbered
        <5> QED
          BY <2>1, <5>1, <5>2, TurnAssumption DEF Turns
      <4>4. CASE m \in run'[t].history
        BY <2>1, <2>2, <4>3, <4>4 DEF AcceptedSound, Carried
      <4>5. CASE h = t /\ m \in run'[t].left
        BY <2>1, <2>2, <4>5 DEF AcceptedSound
      <4> QED
        BY <4>1, <4>2, <4>4, <4>5, <2>0
    <3> QED
      BY <3>1, <3>2
  <2> QED
    BY <2>1, <2>3, <2>4, <2>5, <2>6
<1>5. \A m \in Steers : fate'[m] = "accepted" => fate[m] = "accepted"
  BY DEF outside
<1> QED
  BY <1>3, <1>4, <1>5 DEF DoneInv, AcceptedSound

\* A move: the words stay, and the place says what has been read.
LEMMA DoneMove ==
    ASSUME IInv, DoneInv, NEW t \in Turns, NEW place \in Places, Goto(t, place),
           run[t].pc \notin {"none", "asked"}, place \notin {"none", "asked"},
           place \in Owning => run[t].pc \in Owning,
           place \in Loop \cup {"ended"} => run[t].pc \in Loop \cup {"ended"},
           place \in ReadPlaces \cup JudgedPlaces =>
               \/ run[t].history \subseteq seen'
               \/ run[t].pc \in ReadPlaces
               \/ run[t].pc \in JudgedPlaces
                  /\ (place \in ReadPlaces => run[t].err \in {"none", "limit"}),
           UNCHANGED outside, InboxesSame, HistoriesGrow
    PROVE  DoneInv'
<1>1. run[t] \in Runs /\ run[t].reg \in Turns
  BY OwnRegistry
<1> DEFINE r == [run[t] EXCEPT !.pc = place]
<1>2. run' = [run EXCEPT ![t] = r] /\ run \in [Turns -> Runs]
  BY DEF Goto, IInv, TypeOK
<1>3. /\ r.pc = place /\ r.reg = run[t].reg /\ r.base = run[t].base
      /\ r.history = run[t].history /\ r.left = run[t].left /\ r.err = run[t].err
      /\ r.status = run[t].status
  BY <1>1 DEF Runs
<1>4. run'[t] = r /\ \A u \in Turns \ {t} : run'[u] = run[u]
  BY <1>2
<1> HIDE DEF r
<1>5. TurnSound(t)
  BY DEF DoneInv
<1>6. Inbox(t)' = Inbox(t) /\ home' = home
  BY <1>1, <1>3, <1>4 DEF Inbox, InboxesSame, outside
<1>7. (Caught(t) => run[t].history \subseteq seen)'
  BY <1>3, <1>4, <1>5 DEF TurnSound, Caught, HistoriesGrow
<1>8. TurnSound(t)'
  BY <1>3, <1>4, <1>5, <1>6, <1>7 DEF TurnSound
<1> QED
  BY <1>3, <1>4, <1>8, DoneStep

\* A write of the fields a step names, with the words it leaves.
LEMMA DoneWrite ==
    ASSUME IInv, DoneInv, NEW t \in Turns, run[t].pc # "none", NEW r,
           run' = [run EXCEPT ![t] = r], r.reg = run[t].reg, r.pc # "none",
           r.base = run[t].base, r.history = run[t].history, r.left = run[t].left,
           r.pc \in Loop \cup {"ended"} => /\ run[t].pc \in Loop \cup {"ended"}
                                           /\ r.status = run[t].status,
           r.pc \in Owning \ {"asked"} => run[t].pc \in Owning \ {"asked"},
           (\/ r.pc \in ReadPlaces
            \/ r.pc \in JudgedPlaces /\ r.err \in {"none", "limit"}
            \/ r.status = "done")
               => r.history \subseteq seen',
           UNCHANGED outside, InboxesSame, HistoriesGrow
    PROVE  DoneInv'
<1>1. run[t].reg \in Turns
  BY OwnRegistry
<1>2. run'[t] = r /\ \A u \in Turns \ {t} : run'[u] = run[u]
  BY DEF IInv, TypeOK
<1>3. TurnSound(t)
  BY DEF DoneInv
<1>4. Inbox(t)' = Inbox(t) /\ home' = home
  BY <1>1, <1>2 DEF Inbox, InboxesSame, outside
<1>5. (Caught(t) => run[t].history \subseteq seen)'
  BY <1>2 DEF Caught
<1>6. TurnSound(t)'
  BY <1>2, <1>3, <1>4, <1>5 DEF TurnSound
<1> QED
  BY <1>2, <1>6, DoneStep

\* A run that ends has read its words if its error is none or the cap.
LEMMA DoneEnd ==
    ASSUME IInv, DoneInv, NEW t \in Turns, run[t].pc \in Loop, run[t].pc # "asked",
           NEW err \in Errors, Ends(t, err),
           err \in {"none", "limit"} => Caught(t),
           UNCHANGED <<outside, regs, seen, folded>>
    PROVE  DoneInv'
<1>1. run[t].pc # "none" /\ run[t] \in Runs /\ run[t].reg \in Turns
      /\ run[t].pc \in Owning \ {"asked"}
  BY LoopOwns, PlacesOfOwner, OwnRegistry
<1> DEFINE r == Ended(run[t], err)
<1>2. run' = [run EXCEPT ![t] = r]
  BY DEF Ends
<1>3. /\ r.pc = "ended" /\ r.reg = run[t].reg /\ r.base = {} /\ r.err = err
      /\ r.history = run[t].history /\ r.left = run[t].left /\ r.status = run[t].status
  BY <1>1 DEF Ended, Runs
<1> HIDE DEF r
<1>4. run'[t] = r /\ \A u \in Turns \ {t} : run'[u] = run[u]
  BY <1>2 DEF IInv, TypeOK
<1>5. TurnSound(t)
  BY DEF DoneInv
<1>6. Inbox(t)' = Inbox(t) /\ home' = home /\ seen' = seen
  BY <1>1, <1>3, <1>4 DEF Inbox, outside
<1>7. (Caught(t) => run[t].history \subseteq seen)'
  <2>1. "ended" \notin ReadPlaces
    BY DEF ReadPlaces
  <2> QED
    BY <1>3, <1>4, <1>5, <1>6, <2>1 DEF TurnSound, Caught
<1>8. TurnSound(t)'
  BY <1>1, <1>3, <1>4, <1>5, <1>6, <1>7 DEF TurnSound
<1>9. InboxesSame /\ HistoriesGrow
  BY DEF InboxesSame, HistoriesGrow
<1> QED
  BY <1>1, <1>3, <1>4, <1>8, <1>9, DoneStep

\* A run that begins again knows what the last one knew, or what an overflow folds.
LEMMA DoneRestart ==
    ASSUME IInv, DoneInv, NEW t \in Turns, run[t].pc \in Loop,
           NEW messages, run' = [run EXCEPT ![t] = Running(run[t], messages)],
           run[t].history \subseteq messages \cup folded',
           (Empty(t) /\ Inbox(t) \subseteq messages) \/ InboxesSame,
           UNCHANGED outside, HistoriesGrow
    PROVE  DoneInv'
<1>1. run[t].pc # "none" /\ run[t] \in Runs /\ run[t].reg \in Turns /\ run[t].pc \in Owning
  BY LoopOwns, PlacesOfOwner, OwnRegistry
<1> DEFINE r == Running(run[t], messages)
<1>2. /\ r.pc = "asked" /\ r.reg = run[t].reg /\ r.base = messages
      /\ r.history = messages /\ r.left = run[t].left /\ r.status = run[t].status
  BY <1>1 DEF Running, Runs
<1>3. run' = [run EXCEPT ![t] = r]
  OBVIOUS
<1> HIDE DEF r
<1>4. run'[t] = r /\ \A u \in Turns \ {t} : run'[u] = run[u]
  BY <1>3 DEF IInv, TypeOK
<1>5. TurnSound(t)
  BY DEF DoneInv
<1>6. "asked" \in Loop /\ "asked" \notin ReadPlaces \cup JudgedPlaces
  BY DEF Loop, ReadPlaces, JudgedPlaces
<1>7. TurnSound(t)'
  BY <1>2, <1>4, <1>5, <1>6 DEF TurnSound, Caught
<1> QED
  BY <1>1, <1>2, <1>4, <1>7, DoneStep

LEMMA RejoinDone ==
    ASSUME IInv, DoneInv, NEW t \in Turns, run[t].pc \in Loop, Rejoin(t),
           UNCHANGED <<outside, seen, folded>>
    PROVE  DoneInv'
<1> DEFINE messages == run[t].history \cup Inbox(t)
<1>1. HistoriesGrow /\ UNCHANGED outside
  BY DEF HistoriesGrow
<1>2. run' = [run EXCEPT ![t] = Running(run[t], messages)] /\ Empty(t)
  BY DEF Rejoin
<1>3. run[t].history \subseteq messages \cup folded' /\ Inbox(t) \subseteq messages
  OBVIOUS
<1> HIDE DEF messages
<1> QED
  BY <1>1, <1>2, <1>3, DoneRestart

LEMMA DrainDone ==
    ASSUME IInv, DoneInv, NEW t \in Turns, Drain(t) \/ TakeLeftover(t)
    PROVE  DoneInv'
<1> USE DEF At
<1>1. run[t].pc \in {"asked", "next", "ended"} /\ run[t].pc # "none"
  BY DEF Drain, TakeLeftover
<1>2. /\ run[t].pc \in Owning /\ run[t] \in Runs /\ run[t].reg \in Turns
      /\ regs \in [Turns -> Registries]
  BY <1>1, PlacesOfOwner, OwnRegistry, Typed
<1>3. TurnSound(t)
  BY DEF DoneInv
<1>4. Empty(t) /\ UNCHANGED outside /\ HistoriesGrow /\ seen' = seen
  BY DEF Drain, TakeLeftover, HistoriesGrow
<1>5. regs'[run[t].reg].inbox = {}
  BY <1>2, <1>4 DEF Empty, Registries
<1>6. CASE Drain(t)
  <2> DEFINE r == [run[t] EXCEPT !.pc = "drained", !.history = @ \cup Inbox(t)]
  <2>1. run' = [run EXCEPT ![t] = r]
    BY <1>2, <1>6 DEF Drain, IInv, TypeOK
  <2>2. /\ r.pc = "drained" /\ r.reg = run[t].reg /\ r.base = run[t].base
        /\ r.history = run[t].history \cup Inbox(t) /\ r.left = run[t].left
        /\ r.status = run[t].status
    BY <1>2 DEF Runs
  <2> HIDE DEF r
  <2>3. run'[t] = r /\ \A u \in Turns \ {t} : run'[u] = run[u]
    BY <2>1 DEF IInv, TypeOK
  <2>4. Inbox(t)' = {}
    BY <1>5, <2>2, <2>3 DEF Inbox
  <2>5. run[t].pc \in Loop /\ "drained" \notin ReadPlaces \cup JudgedPlaces
    BY <1>6, BoundOutside DEF Drain, ReadPlaces, JudgedPlaces
  <2>6. TurnSound(t)'
    BY <1>3, <2>2, <2>3, <2>4, <2>5 DEF TurnSound, Caught
  <2> QED
    BY <1>1, <1>2, <1>4, <2>2, <2>3, <2>6, DoneStep
<1>7. CASE TakeLeftover(t)
  <2> DEFINE r == [run[t] EXCEPT !.pc = "left", !.left = Inbox(t)]
  <2>1. run' = [run EXCEPT ![t] = r]
    BY <1>2, <1>7 DEF TakeLeftover, IInv, TypeOK
  <2>2. /\ r.pc = "left" /\ r.reg = run[t].reg /\ r.base = run[t].base /\ r.err = run[t].err
        /\ r.history = run[t].history /\ r.left = Inbox(t) /\ r.status = run[t].status
    BY <1>2 DEF Runs
  <2> HIDE DEF r
  <2>3. run'[t] = r /\ \A u \in Turns \ {t} : run'[u] = run[u]
    BY <2>1 DEF IInv, TypeOK
  <2>4. Inbox(t)' = {}
    BY <1>5, <2>2, <2>3 DEF Inbox
  <2>5. /\ run[t].pc = "ended" /\ "left" \notin ReadPlaces \cup Loop
        /\ {"left", "ended"} \subseteq JudgedPlaces
    BY <1>7 DEF TakeLeftover, ReadPlaces, JudgedPlaces, Loop, Replied
  <2>6. run[t].left = {} /\ \A m \in Inbox(t) : home[m] = t
    BY <1>2, <1>3, <2>5 DEF TurnSound
  <2>7. TurnSound(t)'
    BY <1>3, <1>4, <2>2, <2>3, <2>4, <2>5 DEF TurnSound, Caught
  <2> QED
    BY <1>1, <1>2, <1>4, <2>2, <2>3, <2>6, <2>7, DoneStep
<1> QED
  BY <1>6, <1>7 DEF Drain, TakeLeftover

LEMMA WriteSteps ==
    ASSUME IInv, DoneInv, NEW t \in Turns,
           \/ Cap(t) \/ GenerateFails(t) \/ Verify(t) \/ Verified(t) \/ TakePreempt(t)
           \/ Outcome(t) \/ Release(t) \/ StartNone(t)
    PROVE  DoneInv'
<1> USE DEF At
<1>0. /\ {"returned", "verify", "verifying", "taking", "taken", "next", "calling"} \subseteq Loop
      /\ {"returned", "verify", "verifying", "taking", "taken", "left"} \subseteq JudgedPlaces
      /\ "next" \in ReadPlaces
      /\ {"decided", "closed", "released", "finished", "leaving"}
            \cap (ReadPlaces \cup JudgedPlaces \cup Loop \cup {"ended"}) = {}
      /\ {"next", "calling", "verify", "verifying", "taking", "left", "closed", "decided"}
            \subseteq Owning \ {"asked"}
      /\ {"released", "leaving"} \cap Owning = {}
  BY DEF Loop, Owning, JudgedPlaces, ReadPlaces, Replied
<1>1. /\ run[t].pc # "none" /\ run[t] \in Runs /\ UNCHANGED outside
      /\ TurnSound(t)
  BY Typed DEF Cap, GenerateFails, Verify, Verified, TakePreempt, Outcome, Release, StartNone,
               DoneInv
<1>2. HistoriesGrow
  BY DEF Cap, GenerateFails, Verify, Verified, TakePreempt, Outcome, Release, StartNone,
         HistoriesGrow
<1>3. InboxesSame
  <2>1. UNCHANGED regs \/ Bind(t) \/ Unbind(t) \/ TakePreempt(t)
    BY DEF Cap, GenerateFails, Verify, Verified, Outcome, Release, StartNone
  <2> QED
    BY <1>1, <2>1, InboxKept
<1>4. ASSUME NEW r, run' = [run EXCEPT ![t] = r], r.reg = run[t].reg, r.base = run[t].base,
             r.history = run[t].history, r.left = run[t].left, r.status = run[t].status,
             run[t].pc \in Loop, run[t].pc # "asked",
             r.pc \in Loop \cap JudgedPlaces,
             r.err \in {"none", "limit"} => Caught(t)
      PROVE  DoneInv'
  <2>1. run[t].pc \in Owning \ {"asked"} /\ r.pc \notin ReadPlaces /\ r.pc # "none"
    BY <1>4, LoopOwns DEF JudgedPlaces, ReadPlaces
  <2>2. run[t].history \subseteq seen' \/ r.err \notin {"none", "limit"}
    BY <1>1, <1>2, <1>4 DEF TurnSound, HistoriesGrow
  <2>3. r.status # "done"
    BY <1>1, <1>4 DEF TurnSound
  <2> QED
    BY <1>1, <1>2, <1>3, <1>4, <2>1, <2>2, <2>3, DoneWrite
<1>5. CASE Cap(t) \/ GenerateFails(t)
  <2>1. PICK err : /\ run' = [run EXCEPT ![t].pc = "returned", ![t].err = err]
                   /\ \/ run[t].pc = "next"
                      \/ run[t].pc = "calling" /\ err \notin {"none", "limit"}
    <3>1. CASE Cap(t)
      BY <3>1 DEF Cap
    <3>2. CASE GenerateFails(t)
      <4>1. CASE Cut(t)
        BY <3>2, <4>1 DEF GenerateFails
      <4>2. CASE ~Cut(t)
        BY <3>2, <4>2 DEF GenerateFails
      <4> QED
        BY <4>1, <4>2
    <3> QED
      BY <1>5, <3>1, <3>2
  <2> DEFINE r == [run[t] EXCEPT !.pc = "returned", !.err = err]
  <2>2. run' = [run EXCEPT ![t] = r]
    BY <2>1 DEF IInv, TypeOK
  <2>3. /\ r.pc = "returned" /\ r.reg = run[t].reg /\ r.base = run[t].base /\ r.err = err
        /\ r.history = run[t].history /\ r.left = run[t].left /\ r.status = run[t].status
    BY <1>1 DEF Runs
  <2> HIDE DEF r
  <2>4. r.err \in {"none", "limit"} => Caught(t)
    BY <1>0, <2>1, <2>3 DEF Caught
  <2>5. run[t].pc \in Loop /\ run[t].pc # "asked"
    BY <1>0, <2>1
  <2> QED
    BY <1>0, <1>4, <2>2, <2>3, <2>4, <2>5
<1>6. CASE Verify(t) \/ Verified(t)
  <2>0. PICK place \in {"verifying", "taking"} : \E failure :
            /\ run' = [run EXCEPT ![t].pc = place, ![t].failure = failure]
            /\ run[t].pc \in {"verify", "verifying"}
    <3>1. CASE Verify(t)
      BY <3>1 DEF Verify
    <3>2. CASE Verified(t)
      BY <3>2 DEF Verified
    <3> QED
      BY <1>6, <3>1, <3>2
  <2>1. PICK failure :
            /\ run' = [run EXCEPT ![t].pc = place, ![t].failure = failure]
            /\ run[t].pc \in {"verify", "verifying"}
    BY <2>0
  <2> DEFINE r == [run[t] EXCEPT !.pc = place, !.failure = failure]
  <2>2. run' = [run EXCEPT ![t] = r]
    BY <2>1 DEF IInv, TypeOK
  <2>3. /\ r.pc = place /\ r.reg = run[t].reg /\ r.base = run[t].base /\ r.err = run[t].err
        /\ r.history = run[t].history /\ r.left = run[t].left /\ r.status = run[t].status
    BY <1>1 DEF Runs
  <2> HIDE DEF r
  <2>4. r.err \in {"none", "limit"} => Caught(t)
    BY <1>0, <2>1, <2>3 DEF Caught
  <2>5. run[t].pc \in Loop /\ run[t].pc # "asked"
    BY <1>0, <2>1
  <2> QED
    BY <1>0, <1>4, <2>1, <2>2, <2>3, <2>4, <2>5
<1>7. CASE TakePreempt(t)
  <2> DEFINE r == [run[t] EXCEPT !.pc = "taken", !.taken = regs[run[t].reg].preempted]
  <2>1. run' = [run EXCEPT ![t] = r] /\ run[t].pc = "taking"
    BY <1>7 DEF TakePreempt, IInv, TypeOK
  <2>2. /\ r.pc = "taken" /\ r.reg = run[t].reg /\ r.base = run[t].base /\ r.err = run[t].err
        /\ r.history = run[t].history /\ r.left = run[t].left /\ r.status = run[t].status
    BY <1>1 DEF Runs
  <2> HIDE DEF r
  <2>3. r.err \in {"none", "limit"} => Caught(t)
    BY <1>0, <2>1, <2>2 DEF Caught
  <2> QED
    BY <1>0, <1>4, <2>1, <2>2, <2>3
<1>8. CASE Outcome(t)
  <2> DEFINE status == IF rt.stopped \/ run[t].cancelled \/ run[t].err = "limit" THEN "cancelled"
                       ELSE IF run[t].err = "none" THEN "done" ELSE "error"
             err == IF run[t].err = "transient" THEN "transient" ELSE "none"
             r == [run[t] EXCEPT !.pc = "decided", !.status = status, !.err = err]
  <2>1. run' = [run EXCEPT ![t] = r] /\ run[t].pc = "left"
    BY <1>8 DEF Outcome, IInv, TypeOK
  <2>2. status = "done" => run[t].err = "none"
    OBVIOUS
  <2> HIDE DEF status, err
  <2>3. /\ r.pc = "decided" /\ r.reg = run[t].reg /\ r.base = run[t].base
        /\ r.history = run[t].history /\ r.left = run[t].left /\ r.status = status
    BY <1>1 DEF Runs
  <2> HIDE DEF r
  <2>4. r.status = "done" => r.history \subseteq seen'
    BY <1>0, <1>1, <1>2, <2>1, <2>2, <2>3 DEF TurnSound, Caught, HistoriesGrow
  <2> QED
    BY <1>0, <1>1, <1>2, <1>3, <2>1, <2>3, <2>4, DoneWrite
<1>9. CASE Release(t) \/ StartNone(t)
  <2>1. PICK r : /\ run' = [run EXCEPT ![t] = r] /\ r.pc \in {"released", "leaving"}
                 /\ r.reg = run[t].reg /\ r.base = run[t].base /\ r.history = run[t].history
                 /\ r.left = run[t].left /\ r.status = run[t].status
    <3>1. CASE Release(t)
      <4> DEFINE r == [run[t] EXCEPT !.pc = "released", !.cancelled = TRUE]
      <4>1. run' = [run EXCEPT ![t] = r]
        BY <3>1 DEF Release, IInv, TypeOK
      <4>2. /\ r.pc = "released" /\ r.reg = run[t].reg /\ r.base = run[t].base
            /\ r.history = run[t].history /\ r.left = run[t].left /\ r.status = run[t].status
        BY <1>1 DEF Runs
      <4> HIDE DEF r
      <4> QED
        BY <4>1, <4>2
    <3>2. CASE StartNone(t)
      <4> DEFINE r == [run[t] EXCEPT !.pc = "leaving", !.err = "none"]
      <4>1. run' = [run EXCEPT ![t] = r]
        BY <3>2 DEF StartNone, IInv, TypeOK
      <4>2. /\ r.pc = "leaving" /\ r.reg = run[t].reg /\ r.base = run[t].base
            /\ r.history = run[t].history /\ r.left = run[t].left /\ r.status = run[t].status
        BY <1>1 DEF Runs
      <4> HIDE DEF r
      <4> QED
        BY <4>1, <4>2
    <3> QED
      BY <1>9, <3>1, <3>2
  <2>2. r.status = "done" => r.history \subseteq seen'
    BY <1>1, <1>2, <2>1 DEF TurnSound, Caught, HistoriesGrow
  <2>3. r.pc \notin ReadPlaces \cup JudgedPlaces \cup Loop \cup Owning \cup {"ended", "none"}
    BY <1>0, <2>1
  <2> QED
    BY <1>1, <1>2, <1>3, <2>1, <2>2, <2>3, DoneWrite
<1> QED
  BY <1>5, <1>6, <1>7, <1>8, <1>9

LEMMA MoveSteps ==
    ASSUME IInv, DoneInv, NEW t \in Turns,
           \/ Generate(t) \/ Generated(t) \/ Drop(t) \/ Tool(t) \/ ToolEnds(t) \/ Pause(t)
           \/ Park(t) \/ Close(t) \/ Reap(t) \/ NoReap(t) \/ Leave(t)
    PROVE  DoneInv'
<1> USE DEF At
<1>0. /\ {"drained", "calling", "answered", "toolcall", "tool", "tooling", "next", "returned",
          "pausing", "paused"} \subseteq Loop
      /\ {"answered", "toolcall", "tool", "tooling", "next", "pausing", "paused"}
            \subseteq ReadPlaces
      /\ "returned" \in JudgedPlaces \ ReadPlaces
      /\ {"calling", "closed", "finished", "gone"} \cap (ReadPlaces \cup JudgedPlaces) = {}
      /\ {"closed", "finished", "gone"} \cap (Loop \cup {"ended"}) = {}
      /\ {"finished", "gone"} \cap Owning = {} /\ "decided" \in Owning
      /\ Loop \subseteq Owning /\ Loop \subseteq Places
      /\ {"closed", "finished", "gone"} \subseteq Places
  BY DEF Loop, Owning, JudgedPlaces, ReadPlaces, Replied, Places
<1>1. run[t].pc \notin {"none", "asked"} /\ UNCHANGED outside
  BY DEF Generate, Generated, Drop, Tool, ToolEnds, Pause, Park, Close, Reap, NoReap, Leave,
         Replied
<1>2. HistoriesGrow
  BY DEF Generate, Generated, Drop, Tool, ToolEnds, Pause, Park, Close, Reap, NoReap, Leave,
         HistoriesGrow
<1>3. InboxesSame
  <2>1. UNCHANGED regs \/ Bind(t) \/ Unbind(t) \/ Close(t) \/ Reap(t)
    BY DEF Generate, Generated, Drop, Tool, ToolEnds, Pause, Park, NoReap, Leave
  <2> QED
    BY <1>1, <2>1, InboxKept
<1>4. CASE Generate(t)
  BY <1>0, <1>1, <1>2, <1>3, <1>4, DoneMove DEF Generate
<1>5. CASE Tool(t)
  BY <1>0, <1>1, <1>2, <1>3, <1>5, DoneMove DEF Tool
<1>6. CASE ToolEnds(t)
  BY <1>0, <1>1, <1>2, <1>3, <1>6, DoneMove DEF ToolEnds
<1>7. CASE Pause(t)
  BY <1>0, <1>1, <1>2, <1>3, <1>7, DoneMove DEF Pause
<1>8. CASE Drop(t)
  <2>1. PICK place \in {"returned", "tool"} : Goto(t, place)
    BY <1>8 DEF Drop
  <2>2. run[t].pc \in {"answered", "toolcall"}
    BY <1>8 DEF Drop, Replied
  <2> QED
    BY <1>0, <1>1, <1>2, <1>3, <2>1, <2>2, DoneMove
<1>9. CASE Generated(t)
  <2>1. PICK place \in {"answered", "toolcall"} : Goto(t, place)
    BY <1>9 DEF Generated, Replied
  <2>2. run[t].pc = "calling" /\ run[t].history \subseteq seen'
    BY <1>9 DEF Generated
  <2> QED
    BY <1>0, <1>1, <1>2, <1>3, <2>1, <2>2, DoneMove
<1>10. CASE Park(t) \/ Close(t)
  <2>1. run[t].pc = "decided" /\ Goto(t, "closed")
    BY <1>10 DEF Park, Close
  <2> QED
    BY <1>0, <1>1, <1>2, <1>3, <2>1, DoneMove
<1>11. CASE Reap(t) \/ NoReap(t) \/ Leave(t)
  <2>1. PICK place \in {"finished", "gone"} : Goto(t, place)
    BY <1>11 DEF Reap, NoReap, Leave
  <2> QED
    BY <1>0, <1>1, <1>2, <1>3, <2>1, DoneMove
<1> QED
  BY <1>4, <1>5, <1>6, <1>7, <1>8, <1>9, <1>10, <1>11

LEMMA JudgeSteps ==
    ASSUME IInv, DoneInv, NEW t \in Turns,
           \/ Returned(t) \/ Preempts(t) \/ Unverified(t) \/ RetryFailure(t) \/ RetryFolded(t)
           \/ Fails(t) \/ Admit(t) \/ Extended(t) \/ NotExtended(t)
    PROVE  DoneInv'
<1> USE DEF At
<1>0. /\ {"returned", "verify", "taking", "taken", "admit", "pausing", "paused"} \subseteq Loop
      /\ {"returned", "verify", "taking", "taken"} \subseteq JudgedPlaces \ ReadPlaces
      /\ {"admit", "pausing", "paused"} \subseteq ReadPlaces
      /\ Loop \subseteq Owning /\ Loop \subseteq Places
  BY DEF Loop, Owning, JudgedPlaces, ReadPlaces, Replied, Places
<1>1. /\ run[t].pc \in {"returned", "taken", "admit", "paused"} /\ UNCHANGED <<outside, seen>>
      /\ run[t].pc \in Loop /\ run[t].pc # "asked" /\ run[t].pc # "none" /\ run[t] \in Runs
  BY <1>0, Typed DEF Returned, Preempts, Unverified, RetryFailure, RetryFolded, Fails, Admit,
                     Extended, NotExtended
<1>2. ASSUME Rejoin(t), UNCHANGED folded PROVE DoneInv'
  BY <1>1, <1>2, RejoinDone
<1>3. ASSUME NEW err \in Errors, Ends(t, err), UNCHANGED <<regs, folded>>,
             err \in {"none", "limit"} => run[t].pc \in ReadPlaces
      PROVE  DoneInv'
  BY <1>1, <1>3, DoneEnd DEF Caught
<1>4. ASSUME NEW place \in {"verify", "taking", "admit", "pausing"}, Goto(t, place),
             UNCHANGED <<regs, folded>>,
             place = "admit" => run[t].err \in {"none", "limit"},
             \/ place \in {"verify", "taking"} /\ run[t].pc = "returned"
             \/ place = "admit" /\ run[t].pc = "taken"
             \/ place = "pausing" /\ run[t].pc = "admit"
      PROVE  DoneInv'
  <2>1. InboxesSame /\ HistoriesGrow
    BY <1>1, <1>4 DEF InboxesSame, HistoriesGrow
  <2> QED
    BY <1>0, <1>1, <1>4, <2>1, DoneMove
<1>5. CASE Returned(t)
  <2>1. CASE Ends(t, "canceled")
    BY <1>3, <1>5, <2>1 DEF Returned, Errors
  <2>2. CASE \E place \in {"verify", "taking"} : Goto(t, place)
    BY <1>4, <1>5, <2>2 DEF Returned
  <2> QED
    BY <1>5, <2>1, <2>2 DEF Returned
<1>6. CASE Preempts(t) \/ RetryFailure(t) \/ Extended(t)
  BY <1>2, <1>6 DEF Preempts, RetryFailure, Extended
<1>7. CASE Unverified(t)
  BY <1>2, <1>3, <1>4, <1>7 DEF Unverified, Errors
<1>8. CASE RetryFolded(t)
  <2>1. /\ run' = [run EXCEPT ![t] = Running(run[t], run[t].base)]
        /\ run[t].history \subseteq run[t].base \cup folded'
        /\ InboxesSame /\ HistoriesGrow
    BY <1>8 DEF RetryFolded, InboxesSame, HistoriesGrow
  <2> QED
    BY <1>1, <2>1, DoneRestart
<1>9. CASE Fails(t)
  BY <1>3, <1>9 DEF Fails, Errors
<1>10. CASE Admit(t)
  <2>1. run[t].pc \in ReadPlaces /\ run[t].pc = "admit" /\ UNCHANGED folded
    BY <1>0, <1>10 DEF Admit
  <2>2. CASE Rejoin(t)
    BY <1>2, <2>1, <2>2
  <2>3. CASE UNCHANGED regs /\ \E err \in {"failed", "none"} : Ends(t, err)
    BY <1>3, <2>1, <2>3 DEF Errors
  <2>4. CASE UNCHANGED regs /\ Goto(t, "pausing")
    BY <1>4, <2>1, <2>4
  <2> QED
    BY <1>10, <2>2, <2>3, <2>4 DEF Admit
<1>11. CASE NotExtended(t)
  BY <1>0, <1>3, <1>11 DEF NotExtended, Errors
<1> QED
  BY <1>5, <1>6, <1>7, <1>8, <1>9, <1>10, <1>11

\* A turn that starts has no words but those it is given.
LEMMA ClaimDone ==
    ASSUME IInv, DoneInv, NextTurn \in Turns, NEW runs \in [Turns -> Runs],
           NEW messages \in SUBSET Steers, run' = WithTurn(runs, messages),
           \A u \in Turns :
              /\ runs[u].reg = run[u].reg /\ runs[u].base = run[u].base
              /\ runs[u].history = run[u].history /\ runs[u].left = run[u].left
              /\ runs[u].status = run[u].status
              /\ runs[u] = run[u] \/ (run[u].pc = "finished" /\ runs[u].pc = "leaving"),
           \A m \in Steers : fate'[m] = "accepted" => fate[m] = "accepted",
           UNCHANGED <<regs, home, seen, folded>>
    PROVE  DoneInv'
<1> DEFINE n == [NotStarted EXCEPT !.reg = IF rt.parked = NoTurn THEN NextTurn ELSE rt.parked]
           new == Running(n, messages)
<1>1. new.pc = "asked" /\ new.base = messages /\ new.history = messages /\ new.left = {}
      /\ new.status = "running"
  BY DEF Running, NotStarted
<1>2. \A u \in Turns : run'[u] = IF u = NextTurn THEN new ELSE runs[u]
  BY DEF WithTurn
<1> HIDE DEF new
<1>3. run[NextTurn].pc = "none"
  <2>1. NextTurn > rt.turn
    BY Typed, TurnAssumption DEF NextTurn, RtType, Turns, NoTurn
  <2> QED
    BY <2>1 DEF IInv, Numbered
<1>4. run[NextTurn].history = {}
  BY <1>3 DEF DoneInv, TurnSound
<1>5. /\ "asked" \in Loop /\ "asked" \notin ReadPlaces \cup JudgedPlaces
      /\ "leaving" \notin ReadPlaces \cup JudgedPlaces \cup Loop \cup Owning \cup {"none", "ended"}
  BY DEF Loop, Owning, Replied, ReadPlaces, JudgedPlaces
<1>6. ASSUME NEW u \in Turns PROVE TurnSound(u)'
  <2>0. TurnSound(u)
    BY DEF DoneInv
  <2>1. CASE u = NextTurn
    <3>1. run'[u] = new
      BY <1>2, <2>1
    <3> QED
      BY <1>1, <1>5, <3>1 DEF TurnSound, Caught
  <2>2. CASE u # NextTurn /\ runs[u] = run[u]
    <3>1. run'[u] = run[u]
      BY <1>2, <2>2
    <3> QED
      BY <2>0, <3>1 DEF TurnSound, Caught, Inbox
  <2>3. CASE u # NextTurn /\ run[u].pc = "finished" /\ runs[u].pc = "leaving"
    <3>1. run'[u] = runs[u]
      BY <1>2, <2>3
    <3> QED
      BY <1>5, <2>0, <2>3, <3>1 DEF TurnSound, Caught
  <2> QED
    BY <2>1, <2>2, <2>3
<1>7. ASSUME NEW m \in Steers PROVE AcceptedSound(m)'
  <2>1. CASE fate'[m] = "accepted"
    <3>1. PICK h \in Turns : h = home[m]
      BY <2>1 DEF DoneInv, AcceptedSound
    <3>2. /\ run[h].pc # "none" /\ home'[m] = h
          /\ m \in seen \cup folded \cup Inbox(h) \cup run[h].left \/ Carried(m)
      BY <2>1, <3>1 DEF DoneInv, AcceptedSound
    <3>3. run'[h] = runs[h]
      BY <1>2, <1>3, <3>2
    <3>4. run'[h].pc # "none" /\ Inbox(h)' = Inbox(h) /\ run'[h].left = run[h].left
      BY <3>2, <3>3 DEF Inbox
    <3>5. Carried(m) => Carried(m)'
      <4>1. ASSUME NEW u \in Turns, u >= home[m], m \in run[u].history
            PROVE  Carried(m)'
        <5>1. u # NextTurn
          BY <1>4, <4>1
        <5>2. run'[u].history = run[u].history
          BY <1>2, <5>1
        <5> QED
          BY <4>1, <5>2 DEF Carried
      <4> QED
        BY <4>1 DEF Carried
    <3> QED
      BY <3>2, <3>4, <3>5 DEF AcceptedSound
  <2>2. CASE fate'[m] # "accepted"
    BY <2>2 DEF AcceptedSound
  <2> QED
    BY <2>1, <2>2
<1> QED
  BY <1>6, <1>7 DEF DoneInv

LEMMA StartDone ==
    ASSUME IInv, DoneInv,
           \/ \E c \in Clients : Start(c) \/ StartInstead(c)
           \/ \E t \in Turns : StartLate(t)
    PROVE  DoneInv'
<1>1. Starts /\ UNCHANGED <<regs, home, seen, folded>>
  BY DEF Start, StartInstead, StartLate, outside
<1>2. run \in [Turns -> Runs] /\ NextTurn \in Turns
  BY <1>1, Typed, TurnAssumption DEF IInv, TypeOK, Starts, NextTurn, RtType, Turns, NoTurn
<1>3. ASSUME NEW c \in Clients, Start(c) PROVE DoneInv'
  BY <1>1, <1>2, <1>3, ClaimDone DEF Start
<1>4. ASSUME NEW c \in Clients, StartInstead(c) PROVE DoneInv'
  <2>1. run' = WithTurn(run, Text(c)) /\ Text(c) \in SUBSET Steers
    BY <1>4, TextTyped DEF StartInstead
  <2>2. \A m \in Steers : fate'[m] = "accepted" => fate[m] = "accepted"
    BY <1>4 DEF StartInstead, Reply
  <2> QED
    BY <1>1, <1>2, <2>1, <2>2, ClaimDone
<1>5. ASSUME NEW t \in Turns, StartLate(t) PROVE DoneInv'
  <2> DEFINE r == [run[t] EXCEPT !.pc = "leaving", !.err = "none"]
             runs == [run EXCEPT ![t].pc = "leaving", ![t].err = "none"]
  <2>1. run' = WithTurn(runs, run[t].left) /\ run[t].left \in SUBSET Steers
        /\ UNCHANGED fate /\ run[t].pc = "finished"
    BY <1>2, <1>5 DEF StartLate, Runs, outside, At
  <2>2. runs = [run EXCEPT ![t] = r]
    BY <1>2
  <2>3. /\ r \in Runs /\ r.pc = "leaving" /\ r.reg = run[t].reg /\ r.base = run[t].base
        /\ r.history = run[t].history /\ r.left = run[t].left /\ r.status = run[t].status
    BY <1>2, PlacesOfOwner DEF Runs, Errors
  <2> HIDE DEF r, runs
  <2>4. runs \in [Turns -> Runs] /\ \A u \in Turns : runs[u] = IF u = t THEN r ELSE run[u]
    BY <1>2, <2>2, <2>3
  <2> QED
    BY <1>1, <1>2, <2>1, <2>3, <2>4, ClaimDone
<1> QED
  BY <1>3, <1>4, <1>5

LEMMA TurnKeepsDone ==
    ASSUME IInv, DoneInv, NEW t \in Turns, OwnStep(t) \/ ServiceStep(t)
    PROVE  DoneInv'
BY DrainDone, WriteSteps, MoveSteps, JudgeSteps, StartDone DEF OwnStep, ServiceStep

\* A client that accepts no message.
LEMMA ClientDone ==
    ASSUME IInv, DoneInv, InboxesShrink, UNCHANGED <<home, seen, folded>>,
           \A t \in Turns : /\ run'[t].pc = run[t].pc /\ run'[t].reg = run[t].reg
                            /\ run'[t].err = run[t].err /\ run'[t].status = run[t].status
                            /\ run'[t].base = run[t].base /\ run'[t].left = run[t].left
                            /\ run'[t].history = run[t].history,
           \A m \in Steers : fate'[m] = "accepted" =>
              /\ fate[m] = "accepted"
              /\ \A r \in Turns : m \in regs[r].inbox => m \in regs'[r].inbox
    PROVE  DoneInv'
<1>1. ASSUME NEW t \in Turns PROVE TurnSound(t)'
  <2>1. run[t].pc \in Owning => Inbox(t)' \subseteq Inbox(t)
    <3>1. run[t].pc \in Owning => run[t].reg \in Turns
      BY PlacesOfOwner, OwnRegistry
    <3> QED
      BY <3>1 DEF InboxesShrink, Inbox
  <2> QED
    BY <2>1 DEF DoneInv, TurnSound, Caught
<1>2. ASSUME NEW m \in Steers, fate'[m] = "accepted" PROVE AcceptedSound(m)'
  <2>1. PICK h \in Turns : h = home[m]
    BY <1>2 DEF DoneInv, AcceptedSound
  <2>2. /\ run[h].pc # "none" /\ home'[m] = h
        /\ m \in seen \cup folded \cup Inbox(h) \cup run[h].left \/ Carried(m)
    BY <1>2, <2>1 DEF DoneInv, AcceptedSound
  <2>3. run[h].reg \in Turns
    BY <2>2, OwnRegistry
  <2>4. m \in Inbox(h) => m \in Inbox(h)'
    BY <1>2, <2>3 DEF Inbox
  <2>5. Carried(m) => Carried(m)'
    BY DEF Carried
  <2> QED
    BY <2>2, <2>4, <2>5 DEF AcceptedSound
<1> QED
  BY <1>1, <1>2 DEF DoneInv, AcceptedSound

\* What a client may write of a turn.
Spares ==
    \A t \in Turns : /\ run'[t].pc = run[t].pc /\ run'[t].reg = run[t].reg
                     /\ run'[t].err = run[t].err /\ run'[t].status = run[t].status
                     /\ run'[t].base = run[t].base /\ run'[t].left = run[t].left
                     /\ run'[t].history = run[t].history

LEMMA SparesOne ==
    ASSUME IInv, NEW t \in Turns, NEW field \in {"failure", "cancelled"}, NEW value,
           \/ run' = run
           \/ field = "failure" /\ run' = [run EXCEPT ![t].failure = value]
           \/ field = "cancelled" /\ run' = [run EXCEPT ![t].cancelled = value]
    PROVE  Spares
<1>1. run \in [Turns -> Runs] /\ run[t] \in Runs
  BY DEF IInv, TypeOK
<1> DEFINE f == [run[t] EXCEPT !.failure = value]
           x == [run[t] EXCEPT !.cancelled = value]
<1>2. run' = run \/ run' = [run EXCEPT ![t] = f] \/ run' = [run EXCEPT ![t] = x]
  BY <1>1
<1>3. /\ f.pc = run[t].pc /\ f.reg = run[t].reg /\ f.err = run[t].err
      /\ f.status = run[t].status /\ f.base = run[t].base /\ f.left = run[t].left
      /\ f.history = run[t].history
  BY <1>1 DEF Runs
<1>4. /\ x.pc = run[t].pc /\ x.reg = run[t].reg /\ x.err = run[t].err
      /\ x.status = run[t].status /\ x.base = run[t].base /\ x.left = run[t].left
      /\ x.history = run[t].history
  BY <1>1 DEF Runs
<1> HIDE DEF f, x
<1> QED
  BY <1>1, <1>2, <1>3, <1>4 DEF Spares

LEMMA QuietDone ==
    ASSUME IInv, DoneInv, NEW c \in Clients,
           \/ \E m \in Steers : SteerCall(c, m) \/ RetractCall(c, m)
           \/ StartRefused(c) \/ SteerMissed(c) \/ RetractMissed(c)
           \/ PreemptCall(c) \/ PreemptCheck(c) \/ StopCall(c) \/ StopLand(c) \/ StopDeny(c)
           \/ \E decision \in {"yes", "stop"} : Continue(c, decision)
    PROVE  DoneInv'
<1>1. UNCHANGED <<regs, run, home, seen, folded>>
  BY DEF SteerCall, RetractCall, StartRefused, SteerMissed, RetractMissed, PreemptCall,
         PreemptCheck, StopCall, StopLand, StopDeny, Continue, Reads
<1>2. \A m \in Steers : fate'[m] = "accepted" => fate[m] = "accepted"
  <2>1. CASE UNCHANGED fate
    BY <2>1
  <2>2. CASE StartRefused(c)
    BY <2>2 DEF StartRefused, Reply
  <2>3. ASSUME NEW m \in Steers, SteerCall(c, m)
        PROVE  \A n \in Steers : fate'[n] = "accepted" => fate[n] = "accepted"
    BY <2>3 DEF SteerCall, IInv, TypeOK
  <2> QED
    BY <2>1, <2>2, <2>3 DEF RetractCall, SteerMissed, RetractMissed, PreemptCall,
         PreemptCheck, StopCall, StopLand, StopDeny, Continue, Reads
<1>3. InboxesShrink
  BY <1>1 DEF InboxesShrink
<1> QED
  BY <1>1, <1>2, <1>3, ClientDone

LEMMA RetractDone ==
    ASSUME IInv, DoneInv, NEW c \in Clients, RetractTake(c)
    PROVE  DoneInv'
<1>1. regs \in [Turns -> Registries] /\ CalledReg(c) \in Turns
  BY CalledRegistry, Typed DEF RetractTake, TurnOps
<1>2. Reply(c, "retracted") /\ UNCHANGED <<run, home, seen, folded>>
  BY DEF RetractTake
<1>3. \A r \in Turns : regs'[r].inbox
                         = IF r = CalledReg(c) THEN regs[r].inbox \ Text(c) ELSE regs[r].inbox
  BY <1>1 DEF RetractTake, Registries
<1>4. \A m \in Steers : fate'[m] = IF m \in Text(c) THEN "retracted" ELSE fate[m]
  BY <1>2 DEF Reply
<1>5. InboxesShrink
  BY <1>3 DEF InboxesShrink
<1> QED
  BY <1>2, <1>3, <1>4, <1>5, ClientDone

LEMMA InterruptDone ==
    ASSUME IInv, DoneInv, NEW c \in Clients, PreemptFire(c) \/ StopCancel(c) \/ StopParked(c)
    PROVE  DoneInv'
<1>1. UNCHANGED <<fate, home, seen, folded>>
  BY DEF PreemptFire, StopCancel, StopParked
<1>2. InboxesShrink /\ InboxesSame
  <2>1. CASE PreemptFire(c)
    <3>1. CalledReg(c) \in Turns /\ regs[CalledReg(c)] \in Registries
      BY <2>1, CalledRegistry DEF PreemptFire, TurnOps
    <3>2. \A promised : Preempted(regs[CalledReg(c)], promised).inbox
                          = regs[CalledReg(c)].inbox
      BY <3>1 DEF Preempted, Registries
    <3>3. UNCHANGED regs \/ \E promised :
              regs' = [regs EXCEPT ![CalledReg(c)] = Preempted(regs[CalledReg(c)], promised)]
      BY <2>1 DEF PreemptFire
    <3> QED
      BY <3>1, <3>2, <3>3, InboxOfOne DEF InboxesShrink, InboxesSame
  <2>2. CASE StopCancel(c)
    BY <2>2 DEF StopCancel, InboxesShrink, InboxesSame
  <2>3. CASE StopParked(c)
    <3>1. rt.parked \in Turns /\ regs[rt.parked] \in Registries
      BY <2>3, Typed DEF StopParked, RtType
    <3>2. Closed(regs[rt.parked]).inbox = regs[rt.parked].inbox
      BY <3>1 DEF Closed, Registries
    <3> QED
      BY <2>3, <3>1, <3>2, InboxOfOne DEF StopParked
  <2> QED
    BY <2>1, <2>2, <2>3
<1>3. Spares
  <2>1. CASE UNCHANGED run
    BY <2>1 DEF Spares
  <2>2. CASE StopCancel(c)
    <3>1. PICK t \in Turns : t = call[c].turn
      BY <2>2, CalledRegistry DEF StopCancel, TurnOps
    <3>2. run' = [run EXCEPT ![t].cancelled = TRUE]
      BY <2>2, <3>1 DEF StopCancel
    <3> QED
      BY <3>2, SparesOne
  <2>3. CASE Interrupt(CalledReg(c))
    <3>1. \A q \in Runs : LET r == [q EXCEPT !.failure = "interrupted"]
                          IN /\ r.pc = q.pc /\ r.reg = q.reg /\ r.err = q.err
                             /\ r.status = q.status /\ r.base = q.base /\ r.left = q.left
                             /\ r.history = q.history
      BY DEF Runs
    <3>2. \A t \in Turns : run[t] \in Runs
      BY DEF IInv, TypeOK
    <3>3. \A t \in Turns : \/ run'[t] = run[t]
                           \/ run'[t] = [run[t] EXCEPT !.failure = "interrupted"]
      BY <2>3 DEF Interrupt
    <3> QED
      BY <3>1, <3>2, <3>3 DEF Spares
  <2> QED
    BY <2>1, <2>2, <2>3 DEF PreemptFire, StopCancel, StopParked
<1>4. \A m \in Steers : fate'[m] = "accepted" =>
          /\ fate[m] = "accepted"
          /\ \A r \in Turns : m \in regs[r].inbox => m \in regs'[r].inbox
  BY <1>1, <1>2 DEF InboxesSame
<1> QED
  BY <1>1, <1>2, <1>3, <1>4, ClientDone DEF Spares

\* A message that lands becomes the running turn's own.
LEMMA SteerDone ==
    ASSUME IInv, MessagesInv, DoneInv, NEW c \in Clients, SteerLand(c)
    PROVE  DoneInv'
<1>1. PICK m \in Steers : m = call[c].steer /\ Text(c) = {m}
  <2>1. Sending(c)
    BY DEF SteerLand, Sending
  <2> QED
    BY <2>1, Undelivered, TurnAssumption
<1>2. PICK t \in Turns :
          /\ t = rt.turn
          /\ run[t].reg \in Turns /\ run[t].pc \in Owning /\ run[t].pc # "none"
          /\ regs \in [Turns -> Registries] /\ Current = run[t].reg
  <2>1. rt.turn = call[c].turn /\ rt.running
    BY DEF SteerLand, StillOwner
  <2>2. rt.turn \in Turns
    BY <2>1, CalledRegistry DEF SteerLand, TurnOps
  <2>3. run[rt.turn].pc \in Owning
    BY <2>1, <2>2 DEF IInv, OneOwner
  <2> QED
    BY <2>2, <2>3, PlacesOfOwner, OwnRegistry, Typed DEF Current
<1>3. \A n \in Steers : fate'[n] = "accepted" <=> (n = m \/ fate[n] = "accepted")
  BY <1>1 DEF SteerLand, Reply
<1>4. \A n \in Steers : home'[n] = IF n = m THEN t ELSE home[n]
  BY <1>1, <1>2 DEF SteerLand, IInv, TypeOK
<1>5. \A r \in Turns : regs'[r].inbox
                         = IF r = run[t].reg THEN regs[r].inbox \cup {m} ELSE regs[r].inbox
  BY <1>1, <1>2 DEF SteerLand, Registries
<1>6. Spares /\ UNCHANGED <<seen, folded>>
  <2>1. run' = run \/ run' = [run EXCEPT ![t].failure = "superseded"]
    BY <1>2 DEF SteerLand, Supersede
  <2> QED
    BY <1>2, <2>1, SparesOne DEF SteerLand
<1>7. ASSUME NEW u \in Turns PROVE TurnSound(u)'
  <2>1. CASE u = t
    <3>1. Inbox(u)' = Inbox(u) \cup {m}
      BY <1>2, <1>5, <1>6, <2>1 DEF Inbox, Spares
    <3>2. run[u].pc \in Owning \ {"asked"} => \A n \in Inbox(u)' : home'[n] = u
      <4>1. Inbox(u) \subseteq Steers
        BY <1>2, <2>1 DEF Inbox, Registries
      <4> QED
        BY <1>1, <1>4, <2>1, <3>1, <4>1 DEF DoneInv, TurnSound
    <3> QED
      BY <1>6, <3>2 DEF DoneInv, TurnSound, Caught, Spares
  <2>2. CASE u # t
    <3>1. run[u].pc \notin Owning
      BY <1>2, <2>2 DEF IInv, OneOwner
    <3> QED
      BY <1>6, <3>1 DEF DoneInv, TurnSound, Caught, Spares
  <2> QED
    BY <2>1, <2>2
<1>8. ASSUME NEW n \in Steers, fate'[n] = "accepted" PROVE AcceptedSound(n)'
  <2>1. CASE n = m
    <3>1. home'[n] = t /\ m \in Inbox(t)' /\ run'[t].pc # "none"
      BY <1>1, <1>2, <1>4, <1>5, <1>6, <2>1 DEF Inbox, Spares
    <3> QED
      BY <1>2, <2>1, <3>1 DEF AcceptedSound
  <2>2. CASE n # m
    <3>1. PICK h \in Turns : h = home[n]
      BY <1>3, <1>8, <2>2 DEF DoneInv, AcceptedSound
    <3>2. /\ run[h].pc # "none" /\ home'[n] = h
          /\ n \in seen \cup folded \cup Inbox(h) \cup run[h].left \/ Carried(n)
      BY <1>3, <1>4, <1>8, <2>2, <3>1 DEF DoneInv, AcceptedSound
    <3>3. run[h].reg \in Turns
      BY <3>2, OwnRegistry
    <3>4. n \in Inbox(h) => n \in Inbox(h)'
      BY <1>5, <1>6, <3>3 DEF Inbox, Spares
    <3>5. Carried(n) => Carried(n)'
      BY <1>4, <1>6, <2>2 DEF Carried, Spares
    <3> QED
      BY <1>6, <3>1, <3>2, <3>4, <3>5 DEF AcceptedSound, Spares
  <2> QED
    BY <2>1, <2>2
<1> QED
  BY <1>7, <1>8 DEF DoneInv, AcceptedSound

LEMMA DoneNext == IInv /\ MessagesInv /\ DoneInv /\ [Next]_vars => DoneInv'
<1> SUFFICES ASSUME IInv, MessagesInv, DoneInv, [Next]_vars PROVE DoneInv'
  OBVIOUS
<1>1. ASSUME NEW c \in Clients, ClientStep(c) PROVE DoneInv'
  BY <1>1, StartDone, QuietDone, RetractDone, InterruptDone, SteerDone DEF ClientStep
<1>2. CASE UNCHANGED vars
  BY <1>2 DEF vars, DoneInv, TurnSound, AcceptedSound, Caught, Carried, Inbox
<1> QED
  BY <1>1, <1>2, TurnKeepsDone DEF Next

\* A turn that ends done leaves no message it accepted unread, for any clients, messages
\* and turns: a completed model call read it, or it is kept for the turn that follows,
\* or it waits in the registry (BeforeModelRewriteState, nextManagerMessages, and the
\* leftovers that run takes before it decides the outcome).
THEOREM DoneTurnsRead == Spec => []DoneTurnReadSteers
<1>1. ASSUME DoneInv, TypeOK PROVE DoneTurnReadSteers
  <2> SUFFICES ASSUME NEW m \in Steers, fate[m] = "accepted",
                      run[home[m]].status = "done", m \notin folded
               PROVE  \/ m \in seen \cup run[home[m]].left \cup Inbox(home[m])
                      \/ \E u \in Turns : u > home[m] /\ m \in run[u].base \cup run[u].history
    BY DEF DoneTurnReadSteers
  <2>1. PICK t \in Turns : t = home[m]
    BY <1>1 DEF DoneInv, AcceptedSound
  <2>2. m \in seen \cup Inbox(t) \cup run[t].left \/ Carried(m)
    BY <1>1, <2>1 DEF DoneInv, AcceptedSound
  <2>3. ASSUME NEW u \in Turns, u >= t, m \in run[u].history
        PROVE  m \in seen \/ (u > t /\ m \in run[u].base \cup run[u].history)
    <3>1. CASE u = t
      <4>1. run[t].history \subseteq seen
        BY <1>1, <2>1 DEF DoneInv, TurnSound, Caught
      <4> QED
        BY <2>3, <3>1, <4>1
    <3>2. CASE u # t
      BY <2>3, <3>2, TurnAssumption DEF Turns
    <3> QED
      BY <3>1, <3>2
  <2> QED
    BY <2>1, <2>2, <2>3 DEF Carried
<1>2. DoneInv /\ IInv => DoneTurnReadSteers
  BY <1>1 DEF IInv
<1> QED
  BY InitInv, NextInv, MessagesInit, MessagesNext, DoneInit, DoneNext, <1>2, PTL DEF Spec
=============================================================================
