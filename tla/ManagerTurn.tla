------------------------------ MODULE ManagerTurn ------------------------------
(***************************************************************************)
(* The turns of one conversation and the people who talk to it: a turn      *)
(* claims the runtime, runs the manager in rounds of model calls and tools, *)
(* admits its answer, and hands the runtime back, while clients start       *)
(* turns, steer the running one, interrupt ("preempt") its current call,    *)
(* take a message back, extend a turn that paused at its cap, or stop it.   *)
(*                                                                         *)
(* One action is one critical section of runtime.mu or Registry.mu, or one  *)
(* database call, of a client's request or of the turn's goroutine.         *)
(***************************************************************************)
EXTENDS Naturals

CONSTANTS
    Clients,    \* requests in flight at a time
    Steers,     \* texts a client types while a turn runs, each sent once
    Nil,
    MaxTurn     \* bound: turns of the conversation

ASSUME TurnAssumption == MaxTurn \in Nat \ {0} /\ Nil \notin Steers

VARIABLES
    rt,         \* runtime: running, turnID, parked, continueCh, userStopped
    regs,       \* per registry: manager inbox, closed, epoch and preempt flags, and,
                \* as history, the unread steers a preempt promised to the next call
    run,        \* per turn: where its goroutine is, and its local variables
    call,       \* per client: the request and what it read before the lock
    fate,       \* per steer: what its sender was told
    home,       \* per steer: the turn that accepted it
    seen,       \* history: steers a completed model call has read
    folded      \* history: steers an overflow left out of the run that read them

vars == <<rt, regs, run, call, fate, home, seen, folded>>

-----------------------------------------------------------------------------

Turns == 1 .. MaxTurn

\* Registry r is the one turn r would build; a later turn may reuse it.
NoTurn == 0

\* In the loop of runManager: before the first BeforeModel of a run ("next" after
\* a tool), after it, in the call, with its reply in hand, in a tool, after the run,
\* in the verification of the answer, after it, and at the cap.
Replied == {"answered", "toolcall"}
Loop == {"asked", "next", "drained", "calling", "tool", "tooling", "returned",
         "verify", "verifying", "taking", "taken", "admit", "pausing", "paused"} \cup Replied

\* The rest of run: leftover steers taken, outcome decided, registry parked or
\* closed, runtime released, final event recorded, late steers started, deferred
\* release.
Owning == Loop \cup {"ended", "left", "decided", "closed"}
Places == Owning \cup {"none", "released", "finished", "leaving", "gone"}

Errors == {"none", "canceled", "overflow", "transient", "limit", "failed"}

Runs == [pc : Places, reg : Turns \cup {NoTurn}, base : SUBSET Steers,
         history : SUBSET Steers, err : Errors,
         failure : {"none", "superseded", "interrupted"}, taken : BOOLEAN,
         cancelled : BOOLEAN, left : SUBSET Steers,
         status : {"running", "done", "error", "cancelled"}]

Registries == [inbox : SUBSET Steers, closed : BOOLEAN, epoch : {"none", "live", "cut"},
               preempted : BOOLEAN, armed : BOOLEAN, due : SUBSET Steers]

\* Requests that work on the turn they read, and those about a message.
TurnOps == {"steer", "retract", "preempt", "fire", "stop", "deny", "cancel"}
SteerOps == {"steer", "retract"}

Requests == [op : {"idle", "start"} \cup TurnOps, steer : Steers \cup {Nil},
             turn : Turns \cup {NoTurn}]

\* What a sender has been told: nothing, or how the request ended.
Fates == {"unsent", "sent", "accepted", "started", "refused", "retracted"}

NotStarted == [pc |-> "none", reg |-> NoTurn, base |-> {}, history |-> {}, err |-> "none",
               failure |-> "none", taken |-> FALSE, cancelled |-> FALSE, left |-> {},
               status |-> "running"]

Idle == [op |-> "idle", steer |-> Nil, turn |-> NoTurn]

\* turnID outlives its turn, so it counts them.
NextTurn == rt.turn + 1

\* rt.reg, while a turn runs.
Current == run[rt.turn].reg

Init == /\ rt = [running |-> FALSE, turn |-> NoTurn, parked |-> NoTurn, waiting |-> "no",
                 stopped |-> FALSE]
        /\ regs = [r \in Turns |-> [inbox |-> {}, closed |-> FALSE, epoch |-> "none",
                                    preempted |-> FALSE, armed |-> FALSE, due |-> {}]]
        /\ run = [t \in Turns |-> NotStarted]
        /\ call = [c \in Clients |-> Idle]
        /\ fate = [m \in Steers |-> "unsent"]
        /\ home = [m \in Steers |-> NoTurn]
        /\ seen = {}
        /\ folded = {}

-----------------------------------------------------------------------------
\* Starting a turn: startTurnInput ends in claimRegistry, which tests for a running
\* turn and occupies the runtime in one section.  Messages stored by earlier turns are
\* replayed to the manager and left out here.

Inbox(t) == regs[run[t].reg].inbox

\* drainManagerInbox.
Empty(t) == regs' = [regs EXCEPT ![run[t].reg].inbox = {}, ![run[t].reg].due = {}]

\* A run of the manager that begins with these messages; resetHistory.
Running(turn, messages) ==
    [turn EXCEPT !.pc = "asked", !.base = messages, !.history = messages, !.err = "none",
                 !.failure = "none", !.taken = FALSE]

\* claimRegistry and occupyLocked for a turn that begins with these messages.
Occupy == rt' = [rt EXCEPT !.running = TRUE, !.turn = NextTurn, !.parked = NoTurn,
                           !.stopped = FALSE]

WithTurn(runs, messages) ==
    [runs EXCEPT ![NextTurn] =
        Running([NotStarted EXCEPT !.reg = IF rt.parked = NoTurn THEN NextTurn ELSE rt.parked],
                messages)]

Text(c) == {call[c].steer} \ {Nil}

Reply(c, told) ==
    /\ call' = [call EXCEPT ![c] = Idle]
    /\ fate' = [m \in Steers |-> IF m \in Text(c) THEN told ELSE fate[m]]

Starts == /\ ~rt.running
          /\ NextTurn <= MaxTurn
          /\ Occupy

\* A client sends a message to an idle conversation, a queued follow-up starts, or a
\* goal or a wake continues it.
Start(c) ==
    /\ call[c].op = "idle"
    /\ Starts
    /\ run' = WithTurn(run, {})
    /\ UNCHANGED <<regs, call, fate, home, seen, folded>>

\* The start a steer that found nothing to steer falls back to.
StartInstead(c) ==
    /\ call[c].op = "start"
    /\ Starts
    /\ run' = WithTurn(run, Text(c))
    /\ Reply(c, "started")
    /\ UNCHANGED <<regs, home, seen, folded>>

StartRefused(c) ==
    /\ call[c].op = "start"
    /\ rt.running \/ NextTurn > MaxTurn
    /\ Reply(c, "refused")
    /\ UNCHANGED <<rt, regs, run, home, seen, folded>>

-----------------------------------------------------------------------------
\* Steering: steerInput reads the runtime, prepares the message without the lock,
\* and delivers it under the lock if the same turn still owns the runtime.  The
\* handler of the request starts a turn instead when none runs.

\* The turn a client's request is about still owns the runtime.
StillOwner(c) == rt.running /\ rt.turn = call[c].turn

SteerCall(c, m) ==
    /\ call[c].op = "idle"
    /\ fate[m] = "unsent"
    /\ fate' = [fate EXCEPT ![m] = "sent"]
    /\ call' = [call EXCEPT ![c] = [op |-> IF rt.running THEN "steer" ELSE "start", steer |-> m,
                                    turn |-> IF rt.running THEN rt.turn ELSE NoTurn]]
    /\ UNCHANGED <<rt, regs, run, home, seen, folded>>

\* The turn has ended, or its registry is closed at the end of it.
SteerMissed(c) ==
    /\ call[c].op = "steer"
    /\ ~StillOwner(c) \/ regs[Current].closed
    /\ call' = [call EXCEPT ![c].op = "start"]
    /\ UNCHANGED <<rt, regs, run, fate, home, seen, folded>>

\* answerCancel: the verification of an answer under way is superseded.
Supersede(t) == IF run[t].pc = "verifying" /\ run[t].failure = "none"
                THEN [run EXCEPT ![t].failure = "superseded"] ELSE run

Signal(decision) == IF rt.waiting = "open" THEN [rt EXCEPT !.waiting = decision] ELSE rt

SteerLand(c) ==
    /\ call[c].op = "steer"
    /\ StillOwner(c)
    /\ ~regs[Current].closed
    /\ regs' = [regs EXCEPT ![Current].inbox = @ \cup Text(c)]
    /\ home' = [home EXCEPT ![call[c].steer] = rt.turn]
    /\ run' = Supersede(rt.turn)
    /\ rt' = Signal("yes")
    /\ Reply(c, "accepted")
    /\ UNCHANGED <<seen, folded>>

-----------------------------------------------------------------------------
\* Retract and preempt: each reads the runtime, then works on the registry it read.

\* Handlers that take the running turn and no message but an accepted one.
Reads(c, op, m) ==
    /\ call[c].op = "idle"
    /\ rt.running
    /\ call' = [call EXCEPT ![c] = [op |-> op, steer |-> m, turn |-> rt.turn]]
    /\ UNCHANGED <<rt, regs, run, fate, home, seen, folded>>

RetractCall(c, m) == fate[m] = "accepted" /\ home[m] = rt.turn /\ Reads(c, "retract", m)

CalledReg(c) == run[call[c].turn].reg

\* A message the manager has read, or another request took back, is not found.
RetractMissed(c) ==
    /\ call[c].op = "retract"
    /\ regs[CalledReg(c)].closed \/ call[c].steer \notin regs[CalledReg(c)].inbox
    /\ call' = [call EXCEPT ![c] = Idle]
    /\ UNCHANGED <<rt, regs, run, fate, home, seen, folded>>

\* mutant: the inbox is not searched again under the lock.
RetractUnsearched(c) ==
    /\ call[c].op = "retract"
    /\ ~regs[CalledReg(c)].closed
    /\ regs' = [regs EXCEPT ![CalledReg(c)].inbox = @ \ Text(c),
                            ![CalledReg(c)].due = @ \ Text(c)]
    /\ Reply(c, "retracted")
    /\ UNCHANGED <<rt, run, home, seen, folded>>

RetractTake(c) ==
    /\ call[c].op = "retract"
    /\ ~regs[CalledReg(c)].closed
    /\ call[c].steer \in regs[CalledReg(c)].inbox
    /\ regs' = [regs EXCEPT ![CalledReg(c)].inbox = @ \ Text(c),
                            ![CalledReg(c)].due = @ \ Text(c)]
    /\ Reply(c, "retracted")
    /\ UNCHANGED <<rt, run, home, seen, folded>>

PreemptCall(c) == Reads(c, "preempt", Nil)

\* HasPendingSteers, in a section of its own.
PreemptCheck(c) ==
    /\ call[c].op = "preempt"
    /\ call' = [call EXCEPT ![c] = IF regs[CalledReg(c)].inbox = {} THEN Idle
                                   ELSE [@ EXCEPT !.op = "fire"]]
    /\ UNCHANGED <<rt, regs, run, fate, home, seen, folded>>

\* mutant: the interruption is recorded only with a call to cut.
PreemptedLive(reg, promised) ==
    [reg EXCEPT !.preempted = @ \/ reg.epoch = "live", !.armed = @ \/ reg.epoch = "none",
                !.epoch = IF @ = "live" THEN "cut" ELSE @,
                !.due = IF promised THEN reg.inbox ELSE @]

\* mutant: a preempt that was armed is forgotten.
BoundUnarmed(reg) == [reg EXCEPT !.epoch = "live", !.armed = FALSE]

\* Registry.Preempt cuts the call in flight or arms the next one.
Preempted(reg, promised) ==
    [reg EXCEPT !.preempted = TRUE, !.armed = @ \/ reg.epoch = "none",
                !.epoch = IF @ = "live" THEN "cut" ELSE @,
                !.due = IF promised THEN reg.inbox ELSE @]

\* The turn that works with registry r.
Works(t, r) == run[t].reg = r /\ run[t].pc \in Loop

\* A verification bound to the epoch ends with it.
Interrupt(r) ==
    run' = [t \in Turns |->
              IF Works(t, r) /\ run[t].pc = "verifying" /\ run[t].failure = "none"
              THEN [run[t] EXCEPT !.failure = "interrupted"] ELSE run[t]]

\* The promise to the unread messages is made outside the two windows in which the
\* call in flight has already given its reply, and not to a turn that has left the
\* loop or waits for a human.
PreemptFire(c) ==
    LET r == CalledReg(c)
        promised == \E t \in Turns : Works(t, r) /\ run[t].pc \notin Replied \cup {"paused"}
    IN /\ call[c].op = "fire"
       /\ call' = [call EXCEPT ![c] = Idle]
       /\ \/ /\ regs[r].closed
             /\ UNCHANGED <<regs, run>>
          \/ /\ ~regs[r].closed
             /\ regs' = [regs EXCEPT ![r] = Preempted(@, promised)]
             /\ Interrupt(r)
       /\ UNCHANGED <<rt, fate, home, seen, folded>>

-----------------------------------------------------------------------------
\* Stop, and the answer to a pause at the cap.

StopCall(c) == Reads(c, "stop", Nil)

\* interruptTurn sets the flag under the lock, where it also reads whether there is a
\* pause to deny and a turn to cancel.
StopLand(c) ==
    /\ call[c].op = "stop"
    /\ \/ /\ rt.turn # call[c].turn
          /\ call' = [call EXCEPT ![c] = Idle]
          /\ UNCHANGED rt
       \/ /\ rt.turn = call[c].turn
          /\ rt' = [rt EXCEPT !.stopped = TRUE]
          /\ call' = [call EXCEPT ![c] = IF ~rt.running THEN Idle
                                         ELSE [@ EXCEPT !.op = IF rt.waiting = "no" THEN "cancel"
                                                               ELSE "deny"]]
    /\ UNCHANGED <<regs, run, fate, home, seen, folded>>

\* "No" goes to the pause of that turn after the lock; a stopped turn opens no other.
StopDeny(c) ==
    /\ call[c].op = "deny"
    /\ rt' = IF rt.turn = call[c].turn THEN Signal("stop") ELSE rt
    /\ call' = [call EXCEPT ![c].op = "cancel"]
    /\ UNCHANGED <<regs, run, fate, home, seen, folded>>

\* So does the cancel.
StopCancel(c) ==
    /\ call[c].op = "cancel"
    /\ run' = [run EXCEPT ![call[c].turn].cancelled = TRUE]
    /\ call' = [call EXCEPT ![c] = Idle]
    /\ UNCHANGED <<rt, regs, fate, home, seen, folded>>

\* Registry.Close; nothing asks for the flags of a closed registry.
Closed(reg) == [reg EXCEPT !.closed = TRUE, !.preempted = FALSE, !.armed = FALSE, !.due = {}]

\* Stop of a conversation whose workers were left running between turns.
StopParked(c) ==
    /\ call[c].op = "idle"
    /\ ~rt.running
    /\ rt.parked # NoTurn
    /\ rt' = [rt EXCEPT !.parked = NoTurn, !.stopped = TRUE]
    /\ regs' = [regs EXCEPT ![rt.parked] = Closed(@)]
    /\ UNCHANGED <<run, call, fate, home, seen, folded>>

Continue(c, decision) ==
    /\ call[c].op = "idle"
    /\ rt.running
    /\ rt.waiting = "open"
    /\ rt' = Signal(decision)
    /\ UNCHANGED <<regs, run, call, fate, home, seen, folded>>

-----------------------------------------------------------------------------
\* The loop of runManager.

At(t, place) == run[t].pc = place

Goto(t, place) == run' = [run EXCEPT ![t].pc = place]

\* What a step of the loop leaves alone, besides what it names.
outside == <<call, fate, home>>

\* BeforeModelRewriteState.
Drain(t) ==
    /\ At(t, "asked") \/ At(t, "next")
    /\ run' = [run EXCEPT ![t].pc = "drained", ![t].history = @ \cup Inbox(t)]
    /\ Empty(t)
    /\ UNCHANGED <<outside, rt, seen, folded>>

\* The budget of tool rounds is used up before BeforeModel runs.
Cap(t) ==
    /\ At(t, "next")
    /\ run' = [run EXCEPT ![t].pc = "returned", ![t].err = "limit"]
    /\ UNCHANGED <<outside, rt, regs, seen, folded>>

\* bindEpoch; a preempt armed earlier cuts the new epoch at once.
Bound(reg) == [reg EXCEPT !.epoch = IF reg.armed THEN "cut" ELSE "live", !.armed = FALSE]

Bind(t) == regs' = [regs EXCEPT ![run[t].reg] = Bound(@)]

Unbind(t) == regs' = [regs EXCEPT ![run[t].reg].epoch = "none"]

Cut(t) == run[t].cancelled \/ regs[run[t].reg].epoch = "cut"

Generate(t) ==
    /\ At(t, "drained")
    /\ Bind(t)
    /\ Goto(t, "calling")
    /\ UNCHANGED <<outside, rt, seen, folded>>

\* The stream ends before the cut reaches it.  The epoch is still bound.
Generated(t) ==
    /\ At(t, "calling")
    /\ ~Cut(t)
    /\ \E reply \in Replied : Goto(t, reply)
    /\ seen' = seen \cup run[t].history
    /\ UNCHANGED <<outside, rt, regs, folded>>

GenerateFails(t) ==
    /\ At(t, "calling")
    /\ \E err \in IF Cut(t) THEN {"canceled"} ELSE {"overflow", "transient"} :
          run' = [run EXCEPT ![t].pc = "returned", ![t].err = err]
    /\ Unbind(t)
    /\ UNCHANGED <<outside, rt, seen, folded>>

\* dropEpoch after the end of the stream.
Drop(t) ==
    /\ run[t].pc \in Replied
    /\ Goto(t, IF At(t, "answered") THEN "returned" ELSE "tool")
    /\ Unbind(t)
    /\ UNCHANGED <<outside, rt, seen, folded>>

Tool(t) ==
    /\ At(t, "tool")
    /\ Bind(t)
    /\ Goto(t, "tooling")
    /\ UNCHANGED <<outside, rt, seen, folded>>

ToolEnds(t) ==
    /\ At(t, "tooling")
    /\ Unbind(t)
    /\ Goto(t, "next")
    /\ UNCHANGED <<outside, rt, seen, folded>>

\* runManager returns, and its variables are gone.
Ended(turn, err) == [turn EXCEPT !.pc = "ended", !.err = err, !.base = {}, !.failure = "none",
                                 !.taken = FALSE]

Ends(t, err) == run' = [run EXCEPT ![t] = Ended(run[t], err)]

\* After RunWith: a cancelled turn leaves the loop; an answer, or the cap, goes on to
\* be verified; an error does not.
Returned(t) ==
    /\ At(t, "returned")
    /\ \/ /\ run[t].cancelled
          /\ Ends(t, "canceled")
       \/ /\ ~run[t].cancelled
          /\ Goto(t, IF run[t].err \in {"none", "limit"} THEN "verify" ELSE "taking")
    /\ UNCHANGED <<outside, rt, regs, seen, folded>>

\* scheduleAnswerContext: the first reason to stop is the one reported.  It looks for
\* unread steers after it has published answerCancel, so none falls in between.
Verify(t) ==
    /\ At(t, "verify")
    /\ Bind(t)
    /\ run' = [run EXCEPT ![t].pc = "verifying",
                          ![t].failure = IF regs[run[t].reg].armed THEN "interrupted"
                                         ELSE IF Inbox(t) # {} THEN "superseded" ELSE "none"]
    /\ UNCHANGED <<outside, rt, seen, folded>>

\* The verification may finish before it notices.
Verified(t) ==
    /\ At(t, "verifying")
    /\ Unbind(t)
    /\ \E failure \in {"none", run[t].failure}
                      \cup (IF run[t].cancelled THEN {"interrupted"} ELSE {}) :
          run' = [run EXCEPT ![t].pc = "taking", ![t].failure = failure]
    /\ UNCHANGED <<outside, rt, seen, folded>>

TakePreempt(t) ==
    /\ At(t, "taking")
    /\ run' = [run EXCEPT ![t].pc = "taken", ![t].taken = regs[run[t].reg].preempted]
    /\ regs' = [regs EXCEPT ![run[t].reg].preempted = FALSE, ![run[t].reg].armed = FALSE]
    /\ UNCHANGED <<outside, rt, seen, folded>>

\* mutant: the inbox is emptied and only the transcript goes on.
RejoinForgets(t) ==
    /\ run' = [run EXCEPT ![t] = Running(run[t], run[t].history)]
    /\ Empty(t)

\* nextManagerMessages and continue: the transcript and the unread steers are the
\* messages of the next run.
Rejoin(t) ==
    /\ run' = [run EXCEPT ![t] = Running(run[t], run[t].history \cup Inbox(t))]
    /\ Empty(t)

Superseded(t) == run[t].failure = "superseded"

\* A human interruption, or a steer that arrived during the verification.
Rejoins(t) ==
    /\ run[t].taken \/ Superseded(t)
    /\ run[t].err = "canceled" \/ (run[t].err = "none" /\ Inbox(t) # {})

Preempts(t) ==
    /\ At(t, "taken")
    /\ Rejoins(t)
    /\ Rejoin(t)
    /\ UNCHANGED <<outside, rt, seen, folded>>

\* An answer, or the cap, whose verification did not succeed.
Unverified(t) ==
    /\ At(t, "taken")
    /\ ~Rejoins(t)
    /\ run[t].err \in {"none", "limit"}
    /\ \/ run[t].failure = "none" /\ Goto(t, "admit") /\ UNCHANGED regs
       \/ Superseded(t) /\ Rejoin(t)
       \/ run[t].failure = "interrupted" /\ Ends(t, "failed") /\ UNCHANGED regs
    /\ UNCHANGED <<outside, rt, seen, folded>>

\* A failure of the service is tried again, with what the failed run had read; an
\* overflow folds the conversation and sends the messages the run began with.  How much
\* of either allowance is left is not counted: it may be spent.
RetryFailure(t) ==
    /\ At(t, "taken")
    /\ ~Rejoins(t)
    /\ run[t].err = "transient"
    /\ Rejoin(t)
    /\ UNCHANGED <<outside, rt, seen, folded>>

RetryFolded(t) ==
    /\ At(t, "taken")
    /\ ~Rejoins(t)
    /\ run[t].err = "overflow"
    /\ run' = [run EXCEPT ![t] = Running(run[t], run[t].base)]
    /\ folded' = folded \cup (run[t].history \ run[t].base)
    /\ UNCHANGED <<outside, rt, regs, seen>>

Fails(t) ==
    /\ At(t, "taken")
    /\ ~Rejoins(t)
    /\ run[t].err \in {"overflow", "transient", "canceled"}
    /\ Ends(t, run[t].err)
    /\ UNCHANGED <<outside, rt, regs, seen, folded>>

\* admitManagerProse under the lock.  A goal goes on beyond the cap, and one that was
\* closed during the run ends there.
Admit(t) ==
    /\ At(t, "admit")
    /\ \/ rt.stopped /\ Ends(t, "failed") /\ UNCHANGED regs
       \/ ~rt.stopped /\ Inbox(t) # {} /\ Rejoin(t)
       \/ ~rt.stopped /\ Inbox(t) = {} /\ run[t].err = "limit" /\ Rejoin(t)
       \/ /\ ~rt.stopped
          /\ Inbox(t) = {}
          /\ Ends(t, "none") \/ (run[t].err = "limit" /\ Goto(t, "pausing"))
          /\ UNCHANGED regs
    /\ UNCHANGED <<outside, rt, seen, folded>>

\* waitToExtend.
Pause(t) ==
    /\ At(t, "pausing")
    /\ rt' = [rt EXCEPT !.waiting = "open"]
    /\ Goto(t, "paused")
    /\ UNCHANGED <<outside, regs, seen, folded>>

Extended(t) ==
    /\ At(t, "paused")
    /\ rt.waiting = "yes"
    /\ rt' = [rt EXCEPT !.waiting = "no"]
    /\ Rejoin(t)
    /\ UNCHANGED <<outside, seen, folded>>

\* mutant: the wait does not watch the context of the turn.
NotExtendedBlind(t) ==
    /\ At(t, "paused")
    /\ rt.waiting = "stop"
    /\ rt' = [rt EXCEPT !.waiting = "no"]
    /\ Ends(t, "limit")
    /\ UNCHANGED <<outside, regs, seen, folded>>

NotExtended(t) ==
    /\ At(t, "paused")
    /\ rt.waiting = "stop" \/ run[t].cancelled
    /\ rt' = [rt EXCEPT !.waiting = "no"]
    /\ Ends(t, "limit")
    /\ UNCHANGED <<outside, regs, seen, folded>>

-----------------------------------------------------------------------------
\* The rest of run.

TakeLeftover(t) ==
    /\ At(t, "ended")
    /\ run' = [run EXCEPT ![t].pc = "left", ![t].left = Inbox(t)]
    /\ Empty(t)
    /\ UNCHANGED <<outside, rt, seen, folded>>

Outcome(t) ==
    LET status == IF rt.stopped \/ run[t].cancelled \/ run[t].err = "limit" THEN "cancelled"
                  ELSE IF run[t].err = "none" THEN "done" ELSE "error"
    IN /\ At(t, "left")
       /\ run' = [run EXCEPT ![t].pc = "decided", ![t].status = status,
                             ![t].err = IF run[t].err = "transient" THEN "transient" ELSE "none"]
       /\ UNCHANGED <<outside, rt, regs, seen, folded>>

\* parkAfterTurn, when a goal or an armed wake owns the workers of a turn that is done,
\* or of a scheduled check that failed and was not stopped.
Park(t) ==
    /\ At(t, "decided")
    /\ run[t].status = "done" \/ (run[t].status = "error" /\ ~rt.stopped)
    /\ Goto(t, "closed")
    /\ rt' = [rt EXCEPT !.parked = run[t].reg]
    /\ UNCHANGED <<outside, regs, seen, folded>>

\* Cleanup and Close, when nobody does.
Close(t) ==
    /\ At(t, "decided")
    /\ Goto(t, "closed")
    /\ regs' = [regs EXCEPT ![run[t].reg] = Closed(@)]
    /\ UNCHANGED <<outside, rt, seen, folded>>

\* release, which cancels the turn's own context and leaves another turn's runtime
\* alone; it runs again as the goroutine leaves.
\* mutant: the second release takes the runtime from the next turn.
ReleasesAny(t) == rt' = [rt EXCEPT !.running = FALSE]

Releases(t) == rt' = IF rt.turn = t THEN [rt EXCEPT !.running = FALSE] ELSE rt

Release(t) ==
    /\ At(t, "closed")
    /\ Releases(t)
    /\ run' = [run EXCEPT ![t].pc = "released", ![t].cancelled = TRUE]
    /\ UNCHANGED <<outside, regs, seen, folded>>

\* reapUnownedParked, when the user stopped the conversation as it was parked or the
\* owner is gone by now.
Reap(t) ==
    /\ At(t, "released")
    /\ ~rt.running
    /\ rt.parked # NoTurn
    /\ Goto(t, "finished")
    /\ rt' = [rt EXCEPT !.parked = NoTurn]
    /\ regs' = [regs EXCEPT ![rt.parked] = Closed(@)]
    /\ UNCHANGED <<outside, seen, folded>>

NoReap(t) ==
    /\ At(t, "released")
    /\ rt.stopped => (rt.running \/ rt.parked = NoTurn)
    /\ Goto(t, "finished")
    /\ UNCHANGED <<outside, rt, regs, seen, folded>>

\* shouldPursueAfterTurn: a turn that is done, or one of a goal that a failing service
\* ended.
Pursues(t) == run[t].status = "done" \/ (run[t].status = "error" /\ run[t].err = "transient")

\* runLateSteerMessages: the leftovers become a turn, unless another has started.
StartLate(t) ==
    /\ At(t, "finished")
    /\ Pursues(t)
    /\ run[t].left # {}
    /\ Starts
    /\ run' = WithTurn([run EXCEPT ![t].pc = "leaving", ![t].err = "none"], run[t].left)
    /\ UNCHANGED <<outside, regs, seen, folded>>

StartNone(t) ==
    /\ At(t, "finished")
    /\ (run[t].status = "done" /\ run[t].left # {}) => (rt.running \/ NextTurn > MaxTurn)
    /\ run' = [run EXCEPT ![t].pc = "leaving", ![t].err = "none"]
    /\ UNCHANGED <<outside, rt, regs, seen, folded>>

Leave(t) ==
    /\ At(t, "leaving")
    /\ Releases(t)
    /\ Goto(t, "gone")
    /\ UNCHANGED <<outside, regs, seen, folded>>

-----------------------------------------------------------------------------

ClientStep(c) ==
    \/ Start(c) \/ StartInstead(c) \/ StartRefused(c)
    \/ \E m \in Steers : SteerCall(c, m) \/ RetractCall(c, m)
    \/ SteerMissed(c) \/ SteerLand(c)
    \/ RetractMissed(c) \/ RetractTake(c)
    \/ PreemptCall(c) \/ PreemptCheck(c) \/ PreemptFire(c)
    \/ StopCall(c) \/ StopLand(c) \/ StopDeny(c) \/ StopCancel(c) \/ StopParked(c)
    \/ \E decision \in {"yes", "stop"} : Continue(c, decision)

\* Steps the turn's goroutine takes by itself.
OwnStep(t) ==
    \/ Drain(t) \/ Generate(t) \/ Drop(t) \/ Tool(t) \/ Returned(t)
    \/ Verify(t) \/ Verified(t) \/ TakePreempt(t) \/ Preempts(t) \/ Unverified(t)
    \/ RetryFailure(t) \/ RetryFolded(t) \/ Fails(t)
    \/ Admit(t) \/ Pause(t) \/ Extended(t) \/ NotExtended(t)
    \/ TakeLeftover(t) \/ Outcome(t) \/ Park(t) \/ Close(t) \/ Release(t)
    \/ Reap(t) \/ NoReap(t)
    \/ StartLate(t) \/ StartNone(t) \/ Leave(t)

\* Steps a model service or a tool decides about.
ServiceStep(t) == Cap(t) \/ Generated(t) \/ GenerateFails(t) \/ ToolEnds(t)

Next == \/ \E c \in Clients : ClientStep(c)
        \/ \E t \in Turns : OwnStep(t) \/ ServiceStep(t)

Spec == Init /\ [][Next]_vars

\* The goroutine is scheduled, and a call or a tool whose context is cancelled
\* returns.  One that is not may run for ever, a client may never answer a pause.
FairSpec ==
    /\ Spec
    /\ \A t \in Turns : /\ WF_vars(OwnStep(t))
                        /\ WF_vars((GenerateFails(t) \/ ToolEnds(t)) /\ Cut(t))

-----------------------------------------------------------------------------

\* Every field keeps its domain, and a turn's registry is one that a turn up to it
\* built (claimRegistry).
TypeOK ==
    /\ rt \in [running : BOOLEAN, turn : Turns \cup {NoTurn}, parked : Turns \cup {NoTurn},
               waiting : {"no", "open", "yes", "stop"}, stopped : BOOLEAN]
    /\ regs \in [Turns -> Registries]
    /\ run \in [Turns -> Runs]
    /\ \A t \in Turns : run[t].pc # "none" => run[t].reg \in 1 .. t
    /\ call \in [Clients -> Requests]
    /\ fate \in [Steers -> Fates]
    /\ home \in [Steers -> Turns \cup {NoTurn}]
    /\ seen \cup folded \subseteq Steers

\* One turn at a time owns the runtime: it runs exactly while its goroutine is between
\* its claim and its release, whatever the goroutine of an earlier turn still does
\* (runtime.running, occupyLocked, and release, which runs a second time from the
\* deferred function when the next turn may already be on).
OneOwner ==
    \A t \in Turns : run[t].pc \in Owning <=> (rt.running /\ rt.turn = t)

\* The turns up to turnID are those that were started.
Numbered ==
    /\ rt.parked <= rt.turn
    /\ rt.running => rt.turn # NoTurn
    /\ \A t \in Turns : run[t].pc = "none" <=> t > rt.turn

\* A request under way is about a turn that was started.
RequestSound(request) ==
    /\ request.turn <= rt.turn
    /\ request.op \in TurnOps => request.turn # NoTurn
    /\ request.op \in SteerOps => request.steer # Nil

CallsSound == \A c \in Clients : RequestSound(call[c])

\* The inductive invariant behind TypeOK and OneOwner.
IInv == TypeOK /\ Numbered /\ CallsSound /\ OneOwner

\* A turn that ends done leaves no message it accepted unread: a completed model call
\* read it, or it is kept for a turn of its own, or it came after the leftovers were
\* taken and waits in the registry, unless its sender took it back.  Overflow apart:
\* its second try sends the messages the run began with (iterations.go, overflow).
DoneTurnReadSteers ==
    \A m \in Steers :
        LET t == home[m]
        IN (fate[m] = "accepted" /\ run[t].status = "done" /\ m \notin folded)
           => \/ m \in seen \cup run[t].left \cup Inbox(t)
              \/ \E u \in Turns : u > t /\ m \in run[u].base \cup run[u].history

\* A message taken back is never among those of the turn it was sent to
\* (RetractManagerSteer under Registry.mu against the drain before a model call).
RetractedUnread ==
    \A m \in Steers :
        fate[m] = "retracted" => m \notin run[home[m]].history \cup run[home[m]].left

\* An interruption by preempt is not a failure of the model: a turn ends on a cancelled
\* call only if it was stopped (TakePreempt after the run, and the flag Preempt sets
\* even when it only arms the next call).
PreemptNotFailure ==
    \A t \in Turns :
        (run[t].err = "canceled" /\ run[t].pc \in Places \ Loop) => run[t].cancelled

\* A preempt that was accepted takes its messages to the manager, or their sender takes
\* them back, unless the turn waits for a human at its cap: the tool or the call in the
\* way is cut, although either might run for ever by itself.
PreemptLands ==
    \A m \in Steers :
        (\E r \in Turns : m \in regs[r].due)
        ~> \/ \A r \in Turns : m \notin regs[r].due
           \/ \E t \in Turns : run[t].pc = "paused"

\* A stopped turn ends and gives the runtime back, whatever it was doing: in a call, in
\* a tool, in the verification of its answer, or paused at its cap.  (Of all turns at
\* once, which TLC checks in half the time: a turn that is gone stays gone.)
StopEnds ==
    (\E t \in Turns : run[t].cancelled /\ run[t].pc # "gone")
    ~> (\A t \in Turns : run[t].cancelled => run[t].pc = "gone")

\* README.md: "Steering that arrives after the last model call becomes a follow-up
\* turn."  The code takes the leftovers before it closes the registry and releases the
\* runtime, and accepts steering until then.  (Overflow apart, and while another turn
\* may start.)  It does not hold and no configuration checks it; see the README.
LateSteerRuns ==
    (/\ ~rt.running
     /\ NextTurn <= MaxTurn
     /\ rt.parked = NoTurn
     /\ \A t \in Turns : run[t].pc \in {"none", "gone"})
    => \A m \in Steers :
          (fate[m] = "accepted" /\ run[home[m]].status = "done" /\ m \notin folded)
          => m \in seen \cup UNION {run[t].base : t \in Turns}

=============================================================================
