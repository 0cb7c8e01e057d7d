----------------------------- MODULE Schedules -----------------------------
(***************************************************************************)
(* Waits (schedules), their fires (schedule_runs) and the turns the fires    *)
(* start: internal/engine/schedule_tick.go, schedule.go,                     *)
(* internal/store/schedule.go, schedule_bind.go, and the start, end and      *)
(* recovery of a turn as far as a fire sees them (turn.go, resume.go).       *)
(*                                                                         *)
(* The ticker and every "Run now" claim under fireMu and start the claimed   *)
(* fires after letting it go; clients, managers and the end of a turn change *)
(* waits without that lock.  One action is one SQL statement, transaction or *)
(* critical section; reads that only the holder of fireMu could falsify are  *)
(* joined with what follows.  The goroutine of turn t is the actor t.        *)
(***************************************************************************)
EXTENDS Integers, Sequences, FiniteSets

CONSTANTS
    Waits,       \* ids of waits
    OneShots,    \* waits with a delay; the others repeat
    Threads,     \* conversations a wait may wake
    ThreadOf,    \* the conversation a wait wakes, Nil when each fire gets its own
    Clients,     \* callers of the HTTP and phone handlers
    Ticker,      \* the scheduler's goroutine
    Nil,
    Cap,         \* MaxActiveSchedules: waits armed, and fires the ticker lets run
    StartErrors, \* whether a start may fail for a reason other than busy
    MaxRun,      \* bound: fires
    MaxTurn,     \* bound: turn rows
    MaxCrash     \* bound: crashes

ASSUME BoundAssumption == MaxRun \in Nat /\ MaxTurn \in Nat /\ MaxCrash \in Nat
ASSUME CapAssumption == Cap \in Nat \ {0}
ASSUME FlagAssumption == StartErrors \in BOOLEAN
ASSUME ActorAssumption == (Clients \cup {Ticker}) \cap Nat = {} /\ Ticker \notin Clients
ASSUME NilAssumption == Nil \notin Threads \cup Clients \cup {Ticker} \cup Nat \cup Waits
ASSUME WaitAssumption == IsFiniteSet(Waits)
ASSUME OneShotAssumption == OneShots \subseteq Waits
ASSUME ThreadAssumption == ThreadOf \in [Waits -> Threads \cup {Nil}]

VARIABLES
    sched,    \* schedules: status, one-shot or repeating
    runs,     \* schedule_runs: wait, status, the turn it is bound to
    turns,    \* turn rows: the fire each names, conversation, status, whether its end was told
    running,  \* the turn each conversation's runtime is in
    fireMu,   \* who holds Engine.fireMu
    at,       \* where each actor is
    hand,     \* what each actor holds
    lost,     \* history: running fires that no unfinished turn named when the process died
    crashes

vars == <<sched, runs, turns, running, fireMu, at, hand, lost, crashes>>

Starters == Clients \cup {Ticker}
Actors == Starters \cup 1..MaxTurn

\* list: rows still to look at; runs: fires claimed and not handed to a turn.
Empty == [list |-> {}, wait |-> Nil, runs |-> {}, run |-> Nil, turn |-> Nil,
          thread |-> Nil, why |-> "ended"]

Absent == [status |-> "absent", once |-> FALSE]

Init == /\ sched = [w \in Waits |-> Absent]
        /\ runs = <<>>
        /\ turns = <<>>
        /\ running = [th \in Threads |-> Nil]
        /\ fireMu = Nil
        /\ at = [a \in Actors |-> "idle"]
        /\ hand = [a \in Actors |-> Empty]
        /\ lost = {}
        /\ crashes = 0

-----------------------------------------------------------------------------
Go(a, label) == at' = [at EXCEPT ![a] = label]

Active == {w \in Waits : sched[w].status = "active"}

UnderCap == Cardinality(Active) < Cap

InFlight == {r \in DOMAIN runs : runs[r].status = "running"}

\* HasRunningRun
Claimed(w) == \E r \in InFlight : runs[r].wait = w

Busy(th) == th # Nil /\ running[th] # Nil

Occupy(th, t) == running' = IF th = Nil THEN running ELSE [running EXCEPT ![th] = t]

\* FinishRun, unconditionally; finishScheduledRun, only while it is running.
FinishRun(r, status) == runs' = [runs EXCEPT ![r].status = status]
FinishScheduled(r) == runs' = IF r \in InFlight THEN [runs EXCEPT ![r].status = "ended"] ELSE runs

-----------------------------------------------------------------------------
\* What clients and managers do to a wait.

Set(w, row) ==
    /\ sched' = [sched EXCEPT ![w] = row]
    /\ UNCHANGED <<runs, turns, running, fireMu, at, hand, lost, crashes>>

\* mutant: the cap is not counted in the transaction that arms.
CreateUncounted(w) ==
    /\ sched[w].status = "absent"
    /\ Set(w, [status |-> "active", once |-> w \in OneShots])

\* Counted and inserted in one transaction.
Create(w) ==
    /\ sched[w].status = "absent" /\ UnderCap
    /\ Set(w, [status |-> "active", once |-> w \in OneShots])

\* A human cancels a wake of a conversation whatever became of it.
HumanCancel(w) ==
    /\ IF ThreadOf[w] = Nil THEN sched[w].status \in {"active", "paused"}
       ELSE sched[w].status \notin {"absent", "cancelled"}
    /\ Set(w, [sched[w] EXCEPT !.status = "cancelled"])

\* cancel_schedule and report_schedule keep:false.
ManagerCancel(w) ==
    /\ sched[w].status \in {"active", "paused"}
    /\ Set(w, [sched[w] EXCEPT !.status = "cancelled"])

Pause(w) == w \in Active /\ Set(w, [sched[w] EXCEPT !.status = "paused"])

Resume(w) ==
    /\ sched[w].status = "paused" /\ UnderCap
    /\ Set(w, [sched[w] EXCEPT !.status = "active"])

\* report_schedule next_in_s: the wait repeats from here on, a finished
\* one-shot is armed again.
Rearm(w) ==
    /\ w \in Active \/ (sched[w].status = "done" /\ UnderCap)
    /\ Set(w, [sched[w] EXCEPT !.status = "active", !.once = FALSE])

-----------------------------------------------------------------------------
\* Claiming, under fireMu.

\* ListDue: a snapshot of the active rows that are overdue, which the clock
\* may make of any of them.
TickBegin ==
    /\ at[Ticker] = "idle" /\ fireMu = Nil
    /\ fireMu' = Ticker
    /\ \E list \in SUBSET Active \ {{}} : hand' = [hand EXCEPT ![Ticker] = [Empty EXCEPT !.list = list]]
    /\ Go(Ticker, "row")
    /\ UNCHANGED <<sched, runs, turns, running, lost, crashes>>

\* mutant: "Run now" does not take fireMu.
RunNowUnlocked(c, w) ==
    /\ at[c] = "idle" /\ w \in Active
    /\ hand' = [hand EXCEPT ![c] = [Empty EXCEPT !.list = {w}]]
    /\ Go(c, "row")
    /\ UNCHANGED <<sched, runs, turns, running, fireMu, lost, crashes>>

RunNow(c, w) ==
    /\ at[c] = "idle" /\ fireMu = Nil /\ w \in Active
    /\ fireMu' = c
    /\ hand' = [hand EXCEPT ![c] = [Empty EXCEPT !.list = {w}]]
    /\ Go(c, "row")
    /\ UNCHANGED <<sched, runs, turns, running, lost, crashes>>

\* One row: a fire of it still runs, or the ticker's cap is reached and the
\* rest stay due, or its conversation is busy, or it will be claimed.  "Run
\* now" is not under the cap.
Row(a, w) ==
    /\ at[a] = "row" /\ w \in hand[a].list
    /\ IF Claimed(w)
       THEN hand' = [hand EXCEPT ![a].list = @ \ {w}] /\ UNCHANGED at
       ELSE IF a = Ticker /\ Cardinality(InFlight) >= Cap
       THEN hand' = [hand EXCEPT ![a].list = {}] /\ UNCHANGED at
       ELSE /\ hand' = [hand EXCEPT ![a].list = @ \ {w}, ![a].wait = w]
            /\ Go(a, IF Busy(ThreadOf[w]) THEN "skip" ELSE "insert")
    /\ UNCHANGED <<sched, runs, turns, running, fireMu, lost, crashes>>

\* On to the next claimed fire; after the last one the tick or the call is over.
NextFire(a, claims) ==
    /\ Go(a, IF claims = {} THEN "idle" ELSE "start")
    /\ hand' = [hand EXCEPT ![a] = [Empty EXCEPT !.runs = claims]]

Return(a) == NextFire(a, {})

\* On to the next row with these claims.
NextRow(a, claims) ==
    /\ Go(a, "row")
    /\ hand' = [hand EXCEPT ![a] = [Empty EXCEPT !.list = hand[a].list, !.runs = claims]]

\* CreateRun; a row that cannot be written is no claim.
Insert(a) ==
    LET r == Len(runs) + 1 IN
    /\ at[a] = "insert"
    /\ IF Len(runs) = MaxRun
       THEN NextRow(a, hand[a].runs) /\ UNCHANGED runs
       ELSE /\ runs' = Append(runs, [wait |-> hand[a].wait, status |-> "running", turn |-> Nil])
            /\ hand' = [hand EXCEPT ![a].run = r, ![a].runs = @ \cup {r}]
            /\ Go(a, "advance")
    /\ UNCHANGED <<sched, turns, running, fireMu, lost, crashes>>

LatestSkipped(w) ==
    \E r \in DOMAIN runs : /\ runs[r].wait = w /\ runs[r].status = "skipped"
                           /\ \A s \in DOMAIN runs : runs[s].wait = w => s <= r

\* The wait stays armed, if it still is.  One row per busy stretch.
Skip(a) ==
    LET w == hand[a].wait IN
    /\ at[a] = "skip"
    /\ runs' = IF w \notin Active \/ LatestSkipped(w) \/ Len(runs) = MaxRun THEN runs
               ELSE Append(runs, [wait |-> w, status |-> "skipped", turn |-> Nil])
    /\ NextRow(a, hand[a].runs)
    /\ UNCHANGED <<sched, turns, running, fireMu, lost, crashes>>

\* mutant: a one-shot that fired stays armed.
AdvanceArmed(a) ==
    LET w == hand[a].wait IN
    /\ at[a] = "advance"
    /\ IF w \in Active
       THEN NextRow(a, hand[a].runs)
       ELSE Go(a, "drop") /\ UNCHANGED hand
    /\ UNCHANGED <<sched, runs, turns, running, fireMu, lost, crashes>>

\* UpdateActiveSchedule after the claim: zero rows means it was cancelled,
\* paused or finished since the list was read.
Advance(a) ==
    LET w == hand[a].wait IN
    /\ at[a] = "advance"
    /\ IF w \in Active
       THEN /\ sched' = [sched EXCEPT ![w].status = IF sched[w].once THEN "done" ELSE "active"]
            /\ NextRow(a, hand[a].runs)
       ELSE Go(a, "drop") /\ UNCHANGED <<sched, hand>>
    /\ UNCHANGED <<runs, turns, running, fireMu, lost, crashes>>

\* mutant: the claim of a wait cancelled meanwhile is not closed.
DropOpen(a) ==
    /\ at[a] = "drop"
    /\ NextRow(a, hand[a].runs \ {hand[a].run})
    /\ UNCHANGED <<sched, runs, turns, running, fireMu, lost, crashes>>

Drop(a) ==
    /\ at[a] = "drop"
    /\ FinishRun(hand[a].run, "ended")
    /\ NextRow(a, hand[a].runs \ {hand[a].run})
    /\ UNCHANGED <<sched, turns, running, fireMu, lost, crashes>>

Unlock(a) ==
    /\ at[a] = "row" /\ hand[a].list = {}
    /\ fireMu' = Nil
    /\ NextFire(a, hand[a].runs)
    /\ UNCHANGED <<sched, runs, turns, running, lost, crashes>>

-----------------------------------------------------------------------------
\* Starting what was claimed, and a human's message on the same conversation.

\* A standalone wait gets a conversation of its own, which is never busy.
StartNext(a, r) ==
    LET th == ThreadOf[runs[r].wait] IN
    /\ at[a] = "start" /\ r \in hand[a].runs
    /\ hand' = [hand EXCEPT ![a].run = r, ![a].thread = th,
                            ![a].why = IF Busy(th) THEN "skipped" ELSE "ended"]
    /\ Go(a, IF Busy(th) THEN "finish" ELSE "create")
    /\ UNCHANGED <<sched, runs, turns, running, fireMu, lost, crashes>>

Send(c, th) ==
    /\ at[c] = "idle" /\ ~Busy(th) /\ Len(turns) < MaxTurn
    /\ hand' = [hand EXCEPT ![c] = [Empty EXCEPT !.thread = th]]
    /\ Go(c, "create")
    /\ UNCHANGED <<sched, runs, turns, running, fireMu, lost, crashes>>

StartFail(a) ==
    /\ at[a] = "create" /\ (StartErrors \/ Len(turns) = MaxTurn)
    /\ IF hand[a].run = Nil THEN Return(a) ELSE Go(a, "finish") /\ UNCHANGED hand
    /\ UNCHANGED <<sched, runs, turns, running, fireMu, lost, crashes>>

\* The row names its fire from the start.
StartCreate(a) ==
    /\ at[a] = "create" /\ Len(turns) < MaxTurn
    /\ turns' = Append(turns, [run |-> hand[a].run, thread |-> hand[a].thread,
                               status |-> "running", told |-> FALSE])
    /\ hand' = [hand EXCEPT ![a].turn = Len(turns) + 1]
    /\ Go(a, IF hand[a].run = Nil THEN "claim" ELSE "bind")
    /\ UNCHANGED <<sched, runs, running, fireMu, lost, crashes>>

\* BindRunIfUnbound
Bind(a) ==
    /\ at[a] = "bind"
    /\ hand[a].run \in InFlight /\ runs[hand[a].run].turn = Nil
    /\ runs' = [runs EXCEPT ![hand[a].run].turn = hand[a].turn]
    /\ Go(a, "claim")
    /\ UNCHANGED <<sched, turns, running, fireMu, hand, lost, crashes>>

\* claimRegistry: the runtime becomes the turn's, or the start is refused: the
\* conversation is busy, or something else failed.
Claim(a) ==
    LET t == hand[a].turn
        th == hand[a].thread IN
    /\ at[a] = "claim" /\ ~Busy(th)
    /\ Occupy(th, t)
    /\ LET rest == hand[a].runs \ {hand[a].run} IN
         /\ at' = [at EXCEPT ![a] = IF rest = {} THEN "idle" ELSE "start", ![t] = "run"]
         /\ hand' = [hand EXCEPT ![a] = [Empty EXCEPT !.runs = rest]]
    /\ UNCHANGED <<sched, runs, turns, fireMu, lost, crashes>>

ClaimFail(a) ==
    LET th == hand[a].thread IN
    /\ at[a] = "claim" /\ (Busy(th) \/ StartErrors)
    /\ hand' = [hand EXCEPT ![a].why = IF Busy(th) THEN "skipped" ELSE "ended"]
    /\ Go(a, "refuse")
    /\ UNCHANGED <<sched, runs, turns, running, fireMu, lost, crashes>>

\* FinishTurn of the row that never ran, then its fire, then the caller's own
\* word on that fire.
Refuse(a) ==
    /\ at[a] = "refuse"
    /\ turns' = [turns EXCEPT ![hand[a].turn].status = "ended"]
    /\ IF hand[a].run = Nil THEN Return(a)
       ELSE hand' = [hand EXCEPT ![a].turn = Nil] /\ Go(a, "unrun")
    /\ UNCHANGED <<sched, runs, running, fireMu, lost, crashes>>

Unrun(a) ==
    /\ at[a] = "unrun"
    /\ FinishScheduled(hand[a].run)
    /\ Go(a, "finish")
    /\ UNCHANGED <<sched, turns, running, fireMu, hand, lost, crashes>>

\* mutant: a fire whose start failed is left as it is.
FinishStartOpen(a) ==
    /\ at[a] = "finish"
    /\ NextFire(a, hand[a].runs \ {hand[a].run})
    /\ UNCHANGED <<sched, runs, turns, running, fireMu, lost, crashes>>

FinishStart(a) ==
    /\ at[a] = "finish"
    /\ FinishRun(hand[a].run, hand[a].why)
    /\ NextFire(a, hand[a].runs \ {hand[a].run})
    /\ UNCHANGED <<sched, turns, running, fireMu, lost, crashes>>

-----------------------------------------------------------------------------
\* The turn and its end.

\* The manager re-arms its own wait, or cancels any.
Report(t) ==
    /\ at[t] = "run"
    /\ \/ turns[t].run # Nil /\ Rearm(runs[turns[t].run].wait)
       \/ \E w \in Waits : ManagerCancel(w)

\* A repeating wait whose fire failed for good is to be paused: its row is
\* read active here and written below without a look.
Conclude(t) ==
    /\ at[t] = "run"
    /\ \/ Go(t, "release")
       \/ /\ turns[t].run # Nil
          /\ LET w == runs[turns[t].run].wait IN w \in Active /\ ~sched[w].once
          /\ Go(t, "pause")
    /\ UNCHANGED <<sched, runs, turns, running, fireMu, hand, lost, crashes>>

AutoPause(t) ==
    LET w == runs[turns[t].run].wait IN
    /\ at[t] = "pause"
    /\ sched' = [sched EXCEPT ![w].status = "paused"]
    /\ Go(t, "release")
    /\ UNCHANGED <<runs, turns, running, fireMu, hand, lost, crashes>>

\* The slot is free, then the end is told.  A process that dies between the
\* two resumes the turn, or closes it for a later one, as it would before or
\* after both.
Release(t) ==
    /\ at[t] = "release"
    /\ Occupy(turns[t].thread, Nil)
    /\ turns' = [turns EXCEPT ![t].told = TRUE]
    /\ Go(t, "end")
    /\ UNCHANGED <<sched, runs, fireMu, hand, lost, crashes>>

FinishTurn(t) ==
    /\ at[t] = "end"
    /\ turns' = [turns EXCEPT ![t].status = "ended"]
    /\ Go(t, IF turns[t].run = Nil THEN "idle" ELSE "close")
    /\ UNCHANGED <<sched, runs, running, fireMu, hand, lost, crashes>>

CloseRun(t) ==
    /\ at[t] = "close"
    /\ FinishScheduled(turns[t].run)
    /\ Go(t, "idle")
    /\ UNCHANGED <<sched, turns, running, fireMu, hand, lost, crashes>>

-----------------------------------------------------------------------------
\* The process dies; the next one resumes the latest unfinished turn of each
\* conversation.  One whose end was told is closed, an older one superseded,
\* each with its fire.  Nobody looks at fires that no unfinished turn names.

Unfinished == {t \in DOMAIN turns : turns[t].status = "running"}

Resumed(t) ==
    /\ t \in Unfinished /\ ~turns[t].told
    /\ turns[t].thread # Nil => \A u \in Unfinished : turns[u].thread = turns[t].thread => u <= t

ClosedFires == {r \in InFlight : \E t \in Unfinished : turns[t].run = r /\ ~Resumed(t)}

Crash ==
    /\ crashes < MaxCrash
    /\ crashes' = crashes + 1
    /\ lost' = lost \cup {r \in InFlight : \A t \in Unfinished : turns[t].run # r}
    /\ turns' = [t \in DOMAIN turns |->
                   IF t \in Unfinished /\ ~Resumed(t) THEN [turns[t] EXCEPT !.status = "ended"]
                   ELSE turns[t]]
    /\ runs' = [r \in DOMAIN runs |->
                  IF r \in ClosedFires THEN [runs[r] EXCEPT !.status = "ended"] ELSE runs[r]]
    /\ running' = [th \in Threads |->
                     IF \E t \in Unfinished : Resumed(t) /\ turns[t].thread = th
                     THEN CHOOSE t \in Unfinished : Resumed(t) /\ turns[t].thread = th ELSE Nil]
    /\ at' = [a \in Actors |-> IF a \in Unfinished /\ Resumed(a) THEN "run" ELSE "idle"]
    /\ hand' = [a \in Actors |-> Empty]
    /\ fireMu' = Nil
    /\ UNCHANGED sched

-----------------------------------------------------------------------------
Edit(w) == Create(w) \/ HumanCancel(w) \/ Pause(w) \/ Resume(w)

Claiming(a) == \/ \E w \in Waits : Row(a, w)
               \/ Insert(a) \/ Skip(a) \/ Advance(a) \/ Drop(a) \/ Unlock(a)

Starting(a) == \/ \E r \in DOMAIN runs : StartNext(a, r)
               \/ StartFail(a) \/ StartCreate(a) \/ Bind(a) \/ Claim(a)
               \/ ClaimFail(a) \/ Refuse(a) \/ Unrun(a) \/ FinishStart(a)

Ending(t) == AutoPause(t) \/ Release(t) \/ FinishTurn(t) \/ CloseRun(t)

Next == \/ \E w \in Waits : Edit(w)
        \/ TickBegin
        \/ \E c \in Clients : \/ \E w \in Waits : RunNow(c, w)
                              \/ \E th \in Threads : Send(c, th)
        \/ \E a \in Starters : Claiming(a) \/ Starting(a)
        \/ \E t \in 1..MaxTurn : Report(t) \/ Conclude(t) \/ Ending(t)
        \/ Crash

Spec == Init /\ [][Next]_vars

\* A tick, a call and the end of a turn are code that runs on; a turn may run,
\* and a client stay away, for ever.
FairSpec == /\ Spec
            /\ \A a \in Starters : WF_vars(Claiming(a) \/ Starting(a))
            /\ \A t \in 1..MaxTurn : WF_vars(Ending(t))

-----------------------------------------------------------------------------
UnderMu == {"row", "insert", "skip", "advance", "drop"}

StarterLabels == UnderMu \cup {"idle", "start", "create", "bind", "claim", "refuse", "unrun", "finish"}

TurnLabels == {"idle", "run", "pause", "release", "end", "close"}

WaitRows == [status : {"absent", "active", "paused", "cancelled", "done"}, once : BOOLEAN]

RunRows == [wait : Waits, status : {"running", "skipped", "ended"}, turn : (1..MaxTurn) \cup {Nil}]

TurnRows == [run : (1..MaxRun) \cup {Nil}, thread : Threads \cup {Nil},
             status : {"running", "ended"}, told : BOOLEAN]

Hands == [list : SUBSET Waits, wait : Waits \cup {Nil}, runs : SUBSET (1..MaxRun),
          run : (1..MaxRun) \cup {Nil}, turn : (1..MaxTurn) \cup {Nil},
          thread : Threads \cup {Nil}, why : {"ended", "skipped"}]

\* The state has the shape the code gives it: the rows of the three tables,
\* the runtimes, and what the ticker, the callers and the turns hold.
TypeOK ==
    /\ sched \in [Waits -> WaitRows]
    /\ runs \in Seq(RunRows) /\ Len(runs) <= MaxRun
    /\ turns \in Seq(TurnRows) /\ Len(turns) <= MaxTurn
    /\ running \in [Threads -> (1..MaxTurn) \cup {Nil}]
    /\ fireMu \in Starters \cup {Nil}
    /\ at \in [Actors -> StarterLabels \cup TurnLabels]
    /\ hand \in [Actors -> Hands]
    /\ lost \subseteq 1..MaxRun
    /\ crashes \in 0..MaxCrash

\* Two ticks, or a tick and "Run now", never have two fires of one wait running
\* (HasRunningRun, read and used under fireMu).
OneFirePerWait == \A r, s \in InFlight : runs[r].wait = runs[s].wait => r = s

\* Creating, resuming and re-arming in any order keep the armed waits within
\* MaxActiveSchedules (the counts inside the transactions of store/schedule.go).
ActiveUnderCap == Cardinality(Active) <= Cap

Ringing(w) == {t \in DOMAIN turns : turns[t].run # Nil /\ runs[turns[t].run].wait = w}

Alive(t) == at[t] \in {"run", "pause", "release", "end", "close"}

Owned(r) == \/ \E a \in Starters : r \in hand[a].runs
            \/ \E t \in DOMAIN turns : turns[t].run = r /\ Alive(t)

\* A one-shot rings once: neither the tick, "Run now", a busy conversation, a
\* pause nor a restart gives it a second turn (advanceAfterFire, HasRunningRun).
OneShotRingsOnce == \A w \in Waits : sched[w].once => Cardinality(Ringing(w)) <= 1

\* A running fire belongs to the goroutine that claimed it or to a turn that
\* will close it.  Only a crash breaks that, and only for a fire that no
\* unfinished turn names (finishScheduledRun, resume.go).
ClaimOwned ==
    \A r \in InFlight : Owned(r) \/ r \in lost

\* What turn.go:748 and store/schedule.go:200 take for granted: no fire stays
\* running without an owner, so HasRunningRun cannot stick.
RunningRunHasOwner == \A r \in InFlight : Owned(r)

\* A fire claimed by this process is handed to a turn that runs, or ends, in
\* the end (startAdmittedFire, finishScheduledRun).
FiresSettle ==
    \A r \in 1..MaxRun :
        r \in InFlight
            ~> (r \notin InFlight \/ r \in lost
                \/ \E t \in DOMAIN turns : turns[t].run = r /\ at[t] = "run")

\* To whoever sets a wait, the three tables, the ticker and the turns are the alarms of
\* module Alarms.
Open == {[fire |-> r, wait |-> runs[r].wait] : r \in InFlight}

Rung == {w \in Waits : sched[w].once /\ Ringing(w) # {}}

Clock == INSTANCE Alarms WITH Fires <- 1..MaxRun, armed <- Active, open <- Open, rung <- Rung

ImplementsAlarms == Clock!Spec
=============================================================================
