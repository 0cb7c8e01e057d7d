--------------------------- MODULE WorkerRegistry ---------------------------
(***************************************************************************)
(* The life of background workers in one swarm.Registry: spawn_agent,      *)
(* resume_agent, send_message, wait_agents and close_agent running in      *)
(* parallel (eino runs every tool call of one message in its own           *)
(* goroutine) against each other, against the worker goroutines, and       *)
(* against the host's Stats, Cleanup, Close, ResetWorkerTimeouts and       *)
(* WaitPendingCompletion.                                                  *)
(*                                                                         *)
(* One action is one critical section of Registry.mu or Handle.mu; what a  *)
(* call remembers between two of them is in call[c].  A handle is a Go     *)
(* pointer: Resume reuses the pointer while the roster still has it and    *)
(* makes another one once Stats has forgotten it.                          *)
(***************************************************************************)
EXTENDS Integers, FiniteSets, Sequences

CONSTANTS
    Callers,        \* goroutines that run a tool call or a host call
    Ids,            \* agent ids the sequence number can mint
    Roles,
    RoleOf,         \* the role an id is minted for
    Handles,        \* handle pointers; their number bounds fresh handles
    Tools,          \* the calls this instance makes
    Cap,            \* advertisedCap
    Budget,         \* MaxConsecutiveWorkerTimeouts
    ArchiveLimit,   \* archiveCap
    MaxGen,         \* bound: no resume past this generation
    Nil

ToolNames == {"spawn", "resume", "send", "wait", "close", "stats", "cleanup",
              "shutdown", "reset", "observe"}

ASSUME RoleOfAssumption == RoleOf \in [Ids -> Roles]
ASSUME NilAssumption == Nil \notin Ids \cup Roles \cup Handles \cup Callers
ASSUME BoundsAssumption == /\ Cap \in Nat \ {0} /\ Budget \in Nat \ {0}
                           /\ ArchiveLimit \in Nat \ {0} /\ MaxGen \in Nat \ {0}
ASSUME ToolsAssumption == Tools \subseteq ToolNames
ASSUME FiniteAssumption == IsFiniteSet(Handles)

VARIABLES
    wk,         \* per handle, the fields of Handle that outlive one section
    agents,     \* Registry.agents: id -> handle
    pending,    \* Registry.pending: id -> handle whose result is still owed
    past,       \* Registry.past: id -> checkpoint of a finished worker
    pastIDs,    \* Registry.pastIDs: eviction order
    minted,     \* ids the sequence number has passed
    closed,     \* Registry.closed
    roleLock,   \* roleMu: role -> the caller inside spawn_agent, or Nil
    call,       \* what each caller is in the middle of
    snap,       \* remember: the checkpoint taken before Registry.mu
    streak      \* history: watchdog stops in a row, per id

vars == <<wk, agents, pending, past, pastIDs, minted, closed, roleLock, call, snap, streak>>

-----------------------------------------------------------------------------

\* "claimed": registered, the goroutine not started.  "completed": the result is
\* set.  "drained", "snapped", "archived": the steps of finishAgent.  "done": the
\* done channel is closed, which is what Result and every tool look at.
Phases == {"claimed", "running", "completed", "drained", "snapped", "archived", "done"}

\* A handle as spawnAgentWithModel, claimForResume and resetForResume leave it.
Life(id, gen, phase, failures) ==
    [id |-> id, gen |-> gen, phase |-> phase, failures |-> failures, collected |-> FALSE,
     closeRequested |-> FALSE, cancelled |-> FALSE, inbox |-> FALSE, undelivered |-> FALSE]

Unborn == Life(Nil, 0, "done", 0)

Idle == [op |-> "idle", id |-> Nil, h |-> Nil, gen |-> 0, past |-> Nil,
         role |-> Nil, todo |-> {}, tokens |-> {}]

Done(h) == wk[h].phase = "done"

Live == {h \in Handles : ~Done(h) /\ wk[h].id \in Ids /\ agents[wk[h].id] = h}

\* Registry.get: the roster, then the results still owed.
Get(id) == IF closed THEN Nil
           ELSE IF agents[id] # Nil THEN agents[id] ELSE pending[id]

CheckpointOf(h) == [gen |-> wk[h].gen, collected |-> wk[h].collected,
                    closeRequested |-> wk[h].closeRequested, failures |-> wk[h].failures]

Unused == {h \in Handles : wk[h].id = Nil}

\* runningID: a worker of the role that is still running.
Running(role) == {h \in Live : RoleOf[wk[h].id] = role}

\* reusableFinishedID: the latest archived worker of the role, unless the roster
\* has it running again; then a finished one of the roster, then an owed one.
Archived(role) == {k \in 1..Len(pastIDs) : /\ RoleOf[pastIDs[k]] = role
                                           /\ agents[pastIDs[k]] # Nil => Done(agents[pastIDs[k]])}

FinishedIn(table, role) == {id \in Ids : RoleOf[id] = role /\ table[id] # Nil /\ Done(table[id])}

Reusable(role) ==
    CASE Archived(role) # {} -> {pastIDs[k] : k \in {n \in Archived(role) : \A m \in Archived(role) : m <= n}}
      [] Archived(role) = {} /\ FinishedIn(agents, role) # {} -> FinishedIn(agents, role)
      [] OTHER -> FinishedIn(pending, role)

Init == /\ wk = [h \in Handles |-> Unborn]
        /\ agents = [id \in Ids |-> Nil]
        /\ pending = [id \in Ids |-> Nil]
        /\ past = [id \in Ids |-> Nil]
        /\ pastIDs = <<>>
        /\ minted = {}
        /\ closed = FALSE
        /\ roleLock = [r \in Roles |-> Nil]
        /\ call = [c \in Callers |-> Idle]
        /\ snap = [h \in Handles |-> Nil]
        /\ streak = [id \in Ids |-> 0]

-----------------------------------------------------------------------------
\* Calls: how they begin, move on and return.

Begin(c, tool) == call[c].op = "idle" /\ tool \in Tools

\* A return drops the locals and, inside spawn_agent, the role lock.
Return(c) == /\ call' = [call EXCEPT ![c] = Idle]
             /\ roleLock' = [r \in Roles |-> IF roleLock[r] = c THEN Nil ELSE roleLock[r]]

Goto(c, record) == call' = [call EXCEPT ![c] = record] /\ UNCHANGED roleLock

registry == <<agents, pending, past, pastIDs, minted, closed>>

\* spawn_agent, under the lock of its role.
SpawnLock(c, role) ==
    /\ Begin(c, "spawn")
    /\ roleLock[role] = Nil
    /\ roleLock' = [roleLock EXCEPT ![role] = c]
    /\ call' = [call EXCEPT ![c] = [Idle EXCEPT !.op = "spawn", !.role = role]]
    /\ UNCHANGED <<wk, registry, snap, streak>>

\* runningID, in a section of its own.
SpawnFindRunning(c) ==
    /\ call[c].op = "spawn"
    /\ \E h \in Running(call[c].role) :
          Goto(c, [call[c] EXCEPT !.op = "steer", !.id = wk[h].id])
    /\ UNCHANGED <<wk, registry, snap, streak>>

SpawnNoneRunning(c) ==
    /\ call[c].op = "spawn"
    /\ Running(call[c].role) = {}
    /\ Goto(c, [call[c] EXCEPT !.op = "reuse"])
    /\ UNCHANGED <<wk, registry, snap, streak>>

\* The worker found a moment ago still runs: the task becomes steering.
SpawnSteer(c) ==
    /\ call[c].op = "steer"
    /\ LET h == Get(call[c].id)
       IN h # Nil /\ ~Done(h) /\ Goto(c, [call[c] EXCEPT !.op = "push", !.h = h])
    /\ UNCHANGED <<wk, registry, snap, streak>>

\* It has finished: look for a worker to resume instead.
SpawnRunningGone(c) ==
    /\ call[c].op = "steer"
    /\ LET h == Get(call[c].id) IN h # Nil => Done(h)
    /\ Goto(c, [call[c] EXCEPT !.op = "reuse", !.id = Nil])
    /\ UNCHANGED <<wk, registry, snap, streak>>

\* reusableFinishedID, in a section of its own after runningID.
SpawnReuse(c) ==
    /\ call[c].op = "reuse"
    /\ \E id \in Reusable(call[c].role) :
          Goto(c, [call[c] EXCEPT !.op = "recall", !.id = id])
    /\ UNCHANGED <<wk, registry, snap, streak>>

SpawnNoneReusable(c) ==
    /\ call[c].op = "reuse"
    /\ Reusable(call[c].role) = {}
    /\ Goto(c, [call[c] EXCEPT !.op = "mint"])
    /\ UNCHANGED <<wk, registry, snap, streak>>

\* spawnAgentWithModel: closed, then the cap, then the next id, in one section.
Mint(c) ==
    /\ call[c].op = "mint"
    /\ ~closed /\ Cardinality(Live) < Cap
    /\ \E id \in {i \in Ids \ minted : RoleOf[i] = call[c].role}, h \in Unused :
          /\ wk' = [wk EXCEPT ![h] = Life(id, 1, "claimed", 0)]
          /\ agents' = [agents EXCEPT ![id] = h]
          /\ pending' = [pending EXCEPT ![id] = h]
          /\ minted' = minted \cup {id}
          /\ Goto(c, [call[c] EXCEPT !.op = "start", !.h = h])
    /\ UNCHANGED <<past, pastIDs, closed, snap, streak>>

MintRefused(c) ==
    /\ call[c].op = "mint"
    /\ closed \/ Cardinality(Live) >= Cap
    /\ Return(c)
    /\ UNCHANGED <<wk, registry, snap, streak>>

\* resume_agent names an id; spawn_agent reaches the same steps for its role.
ResumeCall(c, id) ==
    /\ Begin(c, "resume")
    /\ id \in minted
    /\ Goto(c, [Idle EXCEPT !.op = "recall", !.id = id])
    /\ UNCHANGED <<wk, registry, snap, streak>>

\* recall: the archived checkpoint, or that of a finished handle.
Recall(c) ==
    /\ call[c].op = "recall" /\ ~closed
    /\ LET id == call[c].id
           h == Get(id)
       IN \/ past[id] # Nil /\ Goto(c, [call[c] EXCEPT !.op = "claim", !.past = past[id]])
          \/ /\ past[id] = Nil /\ h # Nil /\ Done(h)
             /\ Goto(c, [call[c] EXCEPT !.op = "claim", !.past = CheckpointOf(h)])
    /\ UNCHANGED <<wk, registry, snap, streak>>

RecallRefused(c) ==
    /\ call[c].op = "recall"
    /\ ~closed => /\ past[call[c].id] = Nil
                  /\ Get(call[c].id) # Nil => ~Done(Get(call[c].id))
    /\ Return(c)
    /\ UNCHANGED <<wk, registry, snap, streak>>

\* mutant: the cap is not tested.
RefusedByBudgetOnly(failures) == failures >= Budget
\* Room for one more life under the cap, and a watchdog budget not used up.
Refused(failures) == Cardinality(Live) >= Cap \/ failures >= Budget

\* mutant: the resumed life is not noted as pending.
ClaimUnlisted(c) ==
    /\ call[c].op = "claim" /\ ~closed
    /\ LET h == agents[call[c].id]
       IN /\ h # Nil /\ Done(h) /\ ~Refused(wk[h].failures) /\ wk[h].gen < MaxGen
          /\ wk' = [wk EXCEPT ![h] = Life(wk[h].id, wk[h].gen + 1, "claimed", wk[h].failures)]
          /\ Goto(c, [call[c] EXCEPT !.op = "start", !.h = h, !.past = Nil])
    /\ UNCHANGED <<agents, pending, past, pastIDs, minted, closed, snap, streak>>

\* claimForResume with the handle still in the roster: resetForResume swaps the
\* done channel and starts the next generation on the same pointer.
ClaimInPlace(c) ==
    /\ call[c].op = "claim" /\ ~closed
    /\ LET h == agents[call[c].id]
       IN /\ h # Nil /\ Done(h) /\ ~Refused(wk[h].failures) /\ wk[h].gen < MaxGen
          /\ wk' = [wk EXCEPT ![h] = Life(wk[h].id, wk[h].gen + 1, "claimed", wk[h].failures)]
          /\ pending' = [pending EXCEPT ![call[c].id] = h]
          /\ Goto(c, [call[c] EXCEPT !.op = "start", !.h = h, !.past = Nil])
    /\ UNCHANGED <<agents, past, pastIDs, minted, closed, snap, streak>>

\* mutant: a fresh handle without the second look, under the lock, at Registry.closed.
ClaimAfterClose(c) ==
    /\ call[c].op = "claim" /\ agents[call[c].id] = Nil
    /\ ~Refused(call[c].past.failures) /\ call[c].past.gen < MaxGen
    /\ \E h \in Unused :
          /\ wk' = [wk EXCEPT ![h] = Life(call[c].id, call[c].past.gen + 1, "claimed", call[c].past.failures)]
          /\ agents' = [agents EXCEPT ![call[c].id] = h]
          /\ pending' = [pending EXCEPT ![call[c].id] = h]
          /\ Goto(c, [call[c] EXCEPT !.op = "start", !.h = h, !.past = Nil])
    /\ UNCHANGED <<past, pastIDs, minted, closed, snap, streak>>

\* claimForResume after Stats forgot the handle: another pointer, whose
\* generation and watchdog count come from the checkpoint recall returned.
ClaimFresh(c) ==
    /\ call[c].op = "claim" /\ ~closed
    /\ agents[call[c].id] = Nil
    /\ ~Refused(call[c].past.failures) /\ call[c].past.gen < MaxGen
    /\ \E h \in Unused :
          /\ wk' = [wk EXCEPT ![h] = Life(call[c].id, call[c].past.gen + 1, "claimed", call[c].past.failures)]
          /\ agents' = [agents EXCEPT ![call[c].id] = h]
          /\ pending' = [pending EXCEPT ![call[c].id] = h]
          /\ Goto(c, [call[c] EXCEPT !.op = "start", !.h = h, !.past = Nil])
    /\ UNCHANGED <<past, pastIDs, minted, closed, snap, streak>>

ClaimRefused(c) ==
    /\ call[c].op = "claim"
    /\ LET h == agents[call[c].id]
       IN \/ closed
          \/ h # Nil /\ (~Done(h) \/ Refused(wk[h].failures))
          \/ h = Nil /\ Refused(call[c].past.failures)
    /\ Return(c)
    /\ UNCHANGED <<wk, registry, snap, streak>>

\* mutant: a close_agent between the claim and here is overlooked.
StartUncancelled(c) ==
    /\ call[c].op = "start"
    /\ wk' = [wk EXCEPT ![call[c].h].phase = "running"]
    /\ Return(c)
    /\ UNCHANGED <<registry, snap, streak>>

\* startWorker: the goroutine gets a context of its own, already cancelled when
\* a close_agent came between the claim and here.
Start(c) ==
    /\ call[c].op = "start"
    /\ LET h == call[c].h
       IN wk' = [wk EXCEPT ![h] = [@ EXCEPT !.phase = "running",
                                         !.cancelled = wk[h].closeRequested]]
    /\ Return(c)
    /\ UNCHANGED <<registry, snap, streak>>

-----------------------------------------------------------------------------
\* Steering: send_message, and spawn_agent for a role that is running.

\* resolveSendTarget and the Result check.
SendCall(c, id) ==
    /\ Begin(c, "send")
    /\ LET h == Get(id)
       IN h # Nil /\ ~Done(h) /\ Goto(c, [Idle EXCEPT !.op = "push", !.h = h])
    /\ UNCHANGED <<wk, registry, snap, streak>>

\* pushInbox; the caller is told that the message was delivered.
Push(c) ==
    /\ call[c].op = "push"
    /\ wk' = [wk EXCEPT ![call[c].h].inbox = TRUE]
    /\ Return(c)
    /\ UNCHANGED <<registry, snap, streak>>

-----------------------------------------------------------------------------
\* The worker goroutine.

\* Before each model call the Injector drains the inbox into the conversation.
ReadInbox(h) ==
    /\ wk[h].phase = "running" /\ wk[h].inbox
    /\ wk' = [wk EXCEPT ![h].inbox = FALSE]
    /\ UNCHANGED <<registry, roleLock, call, snap, streak>>

\* mutant: the watchdog count is cleared by the timeout itself.
CompleteForgives(h, timedOut) ==
    /\ wk[h].phase = "running"
    /\ timedOut => ~wk[h].cancelled
    /\ wk' = [wk EXCEPT ![h] = [@ EXCEPT !.phase = "completed", !.failures = 0]]
    /\ streak' = [streak EXCEPT ![wk[h].id] = IF timedOut THEN @ + 1 ELSE 0]
    /\ UNCHANGED <<registry, roleLock, call, snap>>

\* completeWorker: only the watchdog of a worker nobody cancelled counts as a
\* timeout, every other end starts the count again.
Complete(h, timedOut) ==
    /\ wk[h].phase = "running"
    /\ timedOut => ~wk[h].cancelled
    /\ wk' = [wk EXCEPT ![h] = [@ EXCEPT !.phase = "completed",
                                        !.failures = IF timedOut THEN wk[h].failures + 1 ELSE 0]]
    /\ streak' = [streak EXCEPT ![wk[h].id] = IF timedOut THEN @ + 1 ELSE 0]
    /\ UNCHANGED <<registry, roleLock, call, snap>>

\* finishAgent: what no model call read becomes the undelivered steering.
Drain(h) ==
    /\ wk[h].phase = "completed"
    /\ wk' = [wk EXCEPT ![h] = [@ EXCEPT !.phase = "drained", !.inbox = FALSE, !.undelivered = wk[h].inbox]]
    /\ UNCHANGED <<registry, roleLock, call, snap, streak>>

\* remember takes the checkpoint under Handle.mu ...
Snap(h) ==
    /\ wk[h].phase = "drained"
    /\ wk' = [wk EXCEPT ![h].phase = "snapped"]
    /\ snap' = [snap EXCEPT ![h] = CheckpointOf(h)]
    /\ UNCHANGED <<registry, roleLock, call, streak>>

\* Evicting the oldest entries once the archive is over its limit.
Kept(ids) == IF Len(ids) > ArchiveLimit
             THEN SubSeq(ids, Len(ids) - ArchiveLimit + 1, Len(ids)) ELSE ids

\* ... and archives it under Registry.mu, unless the registry was closed.
Remember(h) ==
    /\ wk[h].phase = "snapped"
    /\ wk' = [wk EXCEPT ![h].phase = "archived"]
    /\ snap' = [snap EXCEPT ![h] = Nil]
    /\ IF closed THEN UNCHANGED <<past, pastIDs>>
       ELSE LET id == wk[h].id
                ids == IF past[id] = Nil THEN Append(pastIDs, id) ELSE pastIDs
                kept == {Kept(ids)[k] : k \in DOMAIN Kept(ids)}
            IN /\ pastIDs' = Kept(ids)
               /\ past' = [i \in Ids |-> IF i \notin kept THEN Nil
                                          ELSE IF i = id THEN snap[h] ELSE past[i]]
    /\ UNCHANGED <<agents, pending, minted, closed, roleLock, call, streak>>

\* The last defer of the goroutine closes the done channel.
CloseDone(h) ==
    /\ wk[h].phase = "archived"
    /\ wk' = [wk EXCEPT ![h].phase = "done"]
    /\ UNCHANGED <<registry, roleLock, call, snap, streak>>

-----------------------------------------------------------------------------
\* Settling what is owed: wait_agents and close_agent.

Token(h) == [h |-> h, gen |-> wk[h].gen]

\* mutant: whatever life the handle is in by now.
CollectsAnyGeneration(token) == pending[wk[token.h].id] = token.h

\* collectWorker's test: the pending entry is this very handle, and the handle is
\* still in the generation the caller looked at.
Collects(token) == /\ pending[wk[token.h].id] = token.h
                   /\ wk[token.h].gen = token.gen

\* collectWorker: collected by a wait, or discarded by a close.  An archived
\* checkpoint of the same generation is brought up to date.
Settle(token, discard) ==
    LET h == token.h
        id == wk[h].id
    IN /\ wk' = [wk EXCEPT ![h] = [@ EXCEPT !.collected = ~discard, !.closeRequested = discard]]
       /\ pending' = [pending EXCEPT ![id] = Nil]
       /\ past' = IF past[id] # Nil /\ past[id].gen = wk[h].gen
                  THEN [past EXCEPT ![id] = [@ EXCEPT !.collected = ~discard,
                                                      !.closeRequested = discard]]
                  ELSE past
       /\ UNCHANGED <<agents, pastIDs, minted, closed, snap, streak>>

\* wait_agents on a set of ids.  It may time out, so it never has to block.
WaitCall(c, ids) ==
    /\ Begin(c, "wait")
    /\ Goto(c, [Idle EXCEPT !.op = "wait", !.todo = ids])
    /\ UNCHANGED <<wk, registry, snap, streak>>

\* waitSnapshotCollections, one id: a finished worker's result enters the report.
WaitSnapshot(c) ==
    /\ call[c].op = "wait"
    /\ \E id \in call[c].todo :
          LET h == Get(id)
          IN Goto(c, [call[c] EXCEPT !.todo = @ \ {id},
                          !.tokens = IF h # Nil /\ Done(h) THEN @ \cup {Token(h)} ELSE @])
    /\ UNCHANGED <<wk, registry, snap, streak>>

\* The report is complete: either the turn was cancelled and nothing is
\* consumed, or the reported generations are collected one by one.
Collect(c) ==
    /\ call[c].op \in {"wait", "collect"} /\ call[c].todo = {}
    /\ \E token \in call[c].tokens :
          /\ Goto(c, [call[c] EXCEPT !.op = "collect", !.tokens = @ \ {token}])
          /\ IF Collects(token) THEN Settle(token, FALSE)
             ELSE UNCHANGED <<wk, registry, snap, streak>>

WaitReturn(c) ==
    /\ \/ call[c].op = "wait" /\ call[c].todo = {}
       \/ call[c].op = "collect" /\ call[c].tokens = {}
    /\ Return(c)
    /\ UNCHANGED <<wk, registry, snap, streak>>

\* close_agent looks first: which generation, and is it running.
CloseCall(c, id) ==
    /\ Begin(c, "close")
    /\ LET h == Get(id)
       IN h # Nil /\ Goto(c, [Idle EXCEPT !.op = IF Done(h) THEN "closeDone" ELSE "closeLive",
                                          !.h = h, !.gen = wk[h].gen])
    /\ UNCHANGED <<wk, registry, snap, streak>>

\* It had finished: the result is collected, nobody is cancelled.
CloseFinished(c) ==
    /\ call[c].op = "closeDone"
    /\ LET token == [h |-> call[c].h, gen |-> call[c].gen]
       IN IF Collects(token) THEN Settle(token, FALSE) ELSE UNCHANGED <<wk, registry, snap, streak>>
    /\ Return(c)

\* It was running: the generation is discarded, and the cancel of that generation
\* (startWorker has set one unless the handle is only claimed) is called after the
\* locks are given up.
CloseRunning(c) ==
    /\ call[c].op = "closeLive"
    /\ LET token == [h |-> call[c].h, gen |-> call[c].gen]
       IN \/ /\ Collects(token) /\ Settle(token, TRUE)
             /\ IF wk[token.h].phase = "claimed" THEN Return(c)
                ELSE Goto(c, [call[c] EXCEPT !.op = "closeCancel"])
          \/ /\ ~Collects(token) /\ Return(c)
             /\ UNCHANGED <<wk, registry, snap, streak>>

\* Calling the cancel function of h: nothing to cancel before startWorker set it,
\* nobody listening after the run.
CancelWorker(h) == wk' = IF wk[h].phase = "running" THEN [wk EXCEPT ![h].cancelled = TRUE] ELSE wk

CloseCancel(c) ==
    /\ call[c].op = "closeCancel"
    /\ IF wk[call[c].h].gen = call[c].gen THEN CancelWorker(call[c].h) ELSE UNCHANGED wk
    /\ Return(c)
    /\ UNCHANGED <<registry, snap, streak>>

-----------------------------------------------------------------------------
\* The host.

\* mutants: Stats forgets the running ones too ...
StatsPrunesAll == /\ "stats" \in Tools
                  /\ agents' = [id \in Ids |-> Nil]
                  /\ UNCHANGED <<wk, pending, past, pastIDs, minted, closed, roleLock, call, snap, streak>>

\* ... or what is owed by those it forgets.
StatsDropsDebt ==
    /\ "stats" \in Tools
    /\ agents' = [id \in Ids |-> IF agents[id] # Nil /\ Done(agents[id]) THEN Nil ELSE agents[id]]
    /\ pending' = [id \in Ids |-> IF pending[id] # Nil /\ Done(pending[id]) THEN Nil ELSE pending[id]]
    /\ UNCHANGED <<wk, past, pastIDs, minted, closed, roleLock, call, snap, streak>>

\* Stats forgets finished handles.
Stats == /\ "stats" \in Tools
         /\ agents' = [id \in Ids |-> IF agents[id] # Nil /\ Done(agents[id]) THEN Nil ELSE agents[id]]
         /\ UNCHANGED <<wk, pending, past, pastIDs, minted, closed, roleLock, call, snap, streak>>

\* Cleanup lists the running workers under Registry.mu and cancels them after it.
Cleanup(c) ==
    /\ Begin(c, "cleanup")
    /\ Live # {}
    /\ Goto(c, [Idle EXCEPT !.op = "cancelling", !.todo = Live])
    /\ UNCHANGED <<wk, registry, snap, streak>>

\* Close does the same after it has emptied the registry for good.
Shutdown(c) ==
    /\ Begin(c, "shutdown")
    /\ ~closed
    /\ closed' = TRUE
    /\ agents' = [id \in Ids |-> Nil]
    /\ pending' = [id \in Ids |-> Nil]
    /\ past' = [id \in Ids |-> Nil]
    /\ pastIDs' = <<>>
    /\ Goto(c, [Idle EXCEPT !.op = "cancelling", !.todo = Live])
    /\ UNCHANGED <<wk, minted, snap, streak>>

CancelNext(c) ==
    /\ call[c].op = "cancelling"
    /\ \E h \in call[c].todo :
          CancelWorker(h) /\ Goto(c, [call[c] EXCEPT !.todo = @ \ {h}])
    /\ UNCHANGED <<registry, snap, streak>>

CancelReturn(c) ==
    /\ call[c].op = "cancelling" /\ call[c].todo = {}
    /\ Return(c)
    /\ UNCHANGED <<wk, registry, snap, streak>>

\* ResetWorkerTimeouts, the explicit human retry.
ResetTimeouts ==
    /\ "reset" \in Tools
    /\ wk' = [h \in Handles |-> IF wk[h].id # Nil /\ agents[wk[h].id] = h
                                THEN [wk[h] EXCEPT !.failures = 0] ELSE wk[h]]
    /\ past' = [id \in Ids |-> IF past[id] = Nil THEN Nil ELSE [past[id] EXCEPT !.failures = 0]]
    /\ streak' = [id \in Ids |-> 0]
    /\ UNCHANGED <<agents, pending, pastIDs, minted, closed, roleLock, call, snap>>

\* WaitPendingCompletion on one running execution of PendingAgents ...
ObserveCall(c, id) ==
    /\ Begin(c, "observe")
    /\ LET h == pending[id]
       IN h # Nil /\ ~Done(h) /\ Goto(c, [Idle EXCEPT !.op = "observe", !.id = id, !.h = h, !.gen = wk[h].gen])
    /\ UNCHANGED <<wk, registry, snap, streak>>

\* mutant: the done channel is read again, of whatever life the handle is in.
ObserveCurrentLife(c) ==
    /\ call[c].op = "observe"
    /\ Done(call[c].h)
    /\ LET owed == pending[call[c].id]
       IN IF owed # Nil /\ wk[owed].gen = call[c].gen /\ Done(owed)
          THEN Goto(c, [call[c] EXCEPT !.op = "observed", !.tokens = {Token(owed)}])
          ELSE Return(c)
    /\ UNCHANGED <<wk, registry, snap, streak>>

\* ... whose done channel has been closed since: it reports completion when the
\* pending entry of that id is finished and has the expected generation.
ObserveEnd(c) ==
    /\ call[c].op = "observe"
    /\ Done(call[c].h) \/ wk[call[c].h].gen # call[c].gen
    /\ LET owed == pending[call[c].id]
       IN IF owed # Nil /\ wk[owed].gen = call[c].gen /\ Done(owed)
          THEN Goto(c, [call[c] EXCEPT !.op = "observed", !.tokens = {Token(owed)}])
          ELSE Return(c)
    /\ UNCHANGED <<wk, registry, snap, streak>>

ObserveReturn(c) ==
    /\ call[c].op = "observed"
    /\ Return(c)
    /\ UNCHANGED <<wk, registry, snap, streak>>

\* A call that met a bound of the instance (ids, handles, generations) gives up.
OutOfBounds(c) ==
    /\ \/ call[c].op = "mint" /\ (Unused = {} \/ \A i \in Ids \ minted : RoleOf[i] # call[c].role)
       \/ /\ call[c].op = "claim"
          /\ \/ agents[call[c].id] # Nil /\ wk[agents[call[c].id]].gen >= MaxGen
             \/ agents[call[c].id] = Nil /\ (Unused = {} \/ call[c].past.gen >= MaxGen)
    /\ Return(c)
    /\ UNCHANGED <<wk, registry, snap, streak>>

-----------------------------------------------------------------------------

SpawnStep(c) == \/ SpawnFindRunning(c) \/ SpawnNoneRunning(c) \/ SpawnSteer(c)
                \/ SpawnRunningGone(c) \/ SpawnReuse(c) \/ SpawnNoneReusable(c)
                \/ Mint(c) \/ MintRefused(c)

ResumeStep(c) == \/ Recall(c) \/ RecallRefused(c) \/ ClaimInPlace(c) \/ ClaimFresh(c)
                 \/ ClaimRefused(c) \/ Start(c)

SettleStep(c) == \/ WaitSnapshot(c) \/ Collect(c) \/ WaitReturn(c)
                 \/ CloseFinished(c) \/ CloseRunning(c) \/ CloseCancel(c)

HostStep(c) == CancelNext(c) \/ CancelReturn(c) \/ ObserveEnd(c) \/ ObserveReturn(c)

CallStep(c) == SpawnStep(c) \/ ResumeStep(c) \/ Push(c) \/ SettleStep(c) \/ HostStep(c) \/ OutOfBounds(c)

BeginStep(c) == \/ \E role \in Roles : SpawnLock(c, role)
                \/ \E id \in Ids : \/ ResumeCall(c, id) \/ SendCall(c, id)
                                    \/ CloseCall(c, id) \/ ObserveCall(c, id)
                \/ \E ids \in SUBSET Ids \ {{}} : WaitCall(c, ids)
                \/ Cleanup(c) \/ Shutdown(c)

\* The goroutine after its run: nothing it waits for any more.
Ending(h) == Drain(h) \/ Snap(h) \/ Remember(h) \/ CloseDone(h)

WorkerStep(h) == ReadInbox(h) \/ (\E timedOut \in BOOLEAN : Complete(h, timedOut)) \/ Ending(h)

Next == \/ \E c \in Callers : BeginStep(c) \/ CallStep(c)
        \/ \E h \in Handles : WorkerStep(h)
        \/ Stats \/ ResetTimeouts

Spec == Init /\ [][Next]_vars

\* Nothing is assumed of a model that runs on: a worker that nobody cancels may
\* run for ever (its watchdog is an hour away).  A cancelled run does return, the
\* deferred steps follow, and a call between two sections goes on.
Fairness == /\ \A c \in Callers : WF_vars(CallStep(c))
            /\ \A h \in Handles : /\ WF_vars(wk[h].cancelled /\ Complete(h, FALSE))
                                  /\ WF_vars(Ending(h))

FairSpec == Spec /\ Fairness

-----------------------------------------------------------------------------

Checkpoints == [gen : 1..MaxGen, collected : BOOLEAN, closeRequested : BOOLEAN, failures : 0..Budget]

WorkerRecords == [id : Ids \cup {Nil}, gen : 0..MaxGen, phase : Phases, collected : BOOLEAN,
                  closeRequested : BOOLEAN, cancelled : BOOLEAN, inbox : BOOLEAN,
                  undelivered : BOOLEAN, failures : 0..Budget]

Ops == {"idle", "spawn", "steer", "push", "reuse", "recall", "mint", "claim", "start",
        "wait", "collect", "closeDone", "closeLive", "closeCancel", "cancelling",
        "observe", "observed"}

Calls == [op : Ops, id : Ids \cup {Nil}, h : Handles \cup {Nil}, gen : 0..MaxGen,
          past : Checkpoints \cup {Nil}, role : Roles \cup {Nil},
          todo : SUBSET (Ids \cup Handles), tokens : SUBSET [h : Handles, gen : 0..MaxGen]]

TypeOK == /\ wk \in [Handles -> WorkerRecords]
          /\ agents \in [Ids -> Handles \cup {Nil}]
          /\ pending \in [Ids -> Handles \cup {Nil}]
          /\ past \in [Ids -> Checkpoints \cup {Nil}]
          /\ pastIDs \in Seq(Ids)
          /\ minted \subseteq Ids
          /\ closed \in BOOLEAN
          /\ roleLock \in [Roles -> Callers \cup {Nil}]
          /\ call \in [Callers -> Calls]
          /\ snap \in [Handles -> Checkpoints \cup {Nil}]
          /\ streak \in [Ids -> Nat]

\* "The identity is the id": no interleaving of spawns, resumes and Stats gives
\* one agent id two workers at a time, the second on a pointer of its own.
OneLifePerId ==
    \A h, k \in Handles : ~Done(h) /\ ~Done(k) /\ wk[h].id = wk[k].id => h = k

\* A worker the roster still has and nobody has settled is owed: its result can
\* be found by wait_agents whatever else runs.
Owed == \A id \in Ids :
            agents[id] # Nil /\ ~wk[agents[id]].collected /\ ~wk[agents[id]].closeRequested
            => pending[id] = agents[id]

\* A result is marked collected only once it exists: a stale wait never consumes
\* the generation that a resume has started in the meantime.
CollectedHasEnded == \A h \in Handles : wk[h].collected => Done(h)

\* A debt goes away only by being settled, by a later life of the same worker,
\* or with the whole registry; Stats in particular never drops one.
DebtKept ==
    [][\A id \in Ids : pending[id] # Nil /\ pending'[id] # pending[id] =>
          \/ wk'[pending[id]].collected \/ wk'[pending[id]].closeRequested
          \/ pending'[id] # Nil /\ pending'[id] = agents'[id]
          \/ closed']_vars

\* No parallel spawn_agent and resume_agent calls together pass the cap.
CapRespected == [][Live' \subseteq Live \/ Cardinality(Live') <= Cap]_vars

\* No worker runs into its watchdog more often in a row than the budget allows.
TimeoutBudgetKept == \A id \in Ids : streak[id] <= Budget

\* spawn_agent "delivers a new task to it instead of minting a twin".  It does not hold
\* (resume_agent takes no role lock) and no configuration checks it; that nothing else
\* breaks it is the theorem TwinsNeedResume.
NoTwins == \A h, k \in Live : RoleOf[wk[h].id] = RoleOf[wk[k].id] => h = k

\* Once Close has returned, no worker runs on without having been cancelled.  It does
\* not hold (startWorker does not look at Registry.closed); see the README.
CloseCancelsAll ==
    closed /\ (\A c \in Callers : call[c].op = "idle") =>
        \A h \in Handles : wk[h].phase = "running" => wk[h].cancelled

\* A message the sender was told is delivered is read by a model call or surfaced
\* as undelivered: it never stays in the inbox of a worker that has ended.  It
\* does not hold (a push may follow the last drain); see the README.
NoStrandedSteering == \A h \in Handles : Done(h) => ~wk[h].inbox

\* A completion wait outlives its reason in no order: once the execution it was
\* asked about is collected or discarded by somebody else, the wait ends, also when
\* the worker is resumed before it looks and runs on for ever (WaitPendingCompletion).
SettledFreesObservers ==
    \A c \in Callers :
        call[c].op = "observe" /\ ~closed /\ pending[call[c].id] # call[c].h
            ~> call[c].op # "observe"

\* Close is for good: a call that was on its way to a spawn or a resume starts no
\* further life.
NoLifeAfterClose == [][closed => \A h \in Handles : Done(h) => Done(h)']_vars

\* A generation that close_agent discarded is not archived as still owed.
DiscardArchived ==
    \A id \in Ids : past[id] # Nil /\ agents[id] # Nil /\ Done(agents[id])
                    /\ past[id].gen = wk[agents[id]].gen /\ wk[agents[id]].closeRequested
                    => past[id].closeRequested

\* A worker that close_agent discarded ends, whenever the close hits it.
ClosedWorkerEnds == \A h \in Handles : wk[h].closeRequested ~> Done(h)

\* To whoever delegates, the registry is the ledger of module WorkerLedger: a worker is
\* at work while one of its handles is in a life, and its result is owed while it is in
\* Registry.pending.  Sections of calls, pointers, the archive and Stats do not show.
AtWork == {h \in Handles : ~Done(h)}

Alive == {wk[h].id : h \in AtWork}

Abandoned == {wk[h].id : h \in {k \in AtWork : wk[k].closeRequested}}

OwedIds == {id \in Ids : pending[id] # Nil}

Ledger == INSTANCE WorkerLedger WITH alive <- Alive, owed <- OwedIds,
                                     abandoned <- Abandoned, shut <- closed

ImplementsLedger == Ledger!Spec

-----------------------------------------------------------------------------
\* The inductive invariant behind OneLifePerId and CollectedHasEnded.

\* That life of the worker is over, whatever later one the handle is in.
Ended(h, gen) == /\ wk[h].id \in Ids /\ gen <= wk[h].gen
                 /\ gen = wk[h].gen => Done(h)

\* What a call has in hand between two sections.
CallSound(r) ==
    /\ r.op \in {"spawn", "steer", "reuse", "mint"} => r.role \in Roles
    /\ r.op \in {"steer", "recall", "claim", "observe"} => r.id \in Ids
    /\ r.op \in {"recall", "claim"} => r.id \in minted
    /\ r.op = "claim" => r.past \in Checkpoints
    /\ r.op \in {"push", "start", "closeDone", "closeLive", "closeCancel", "observe"} => r.h \in Handles
    /\ r.op = "start" => wk[r.h].phase = "claimed"
    /\ r.op = "closeLive" => wk[r.h].id \in Ids
    /\ r.op = "closeDone" => Ended(r.h, r.gen)
    /\ r.op = "cancelling" => r.todo \subseteq Handles
    /\ r.op = "wait" => r.todo \subseteq Ids
    /\ \A token \in r.tokens : Ended(token.h, token.gen)

CallsSound == \A c \in Callers : CallSound(call[c])

StartsAlone == \A c, d \in Callers :
    call[c].op = "start" /\ call[d].op = "start" /\ call[c].h = call[d].h => c = d

\* A life belongs to an id, and to the roster as long as there is one.
LifeSound(h) ==
    /\ ~Done(h) => wk[h].id \in Ids
    /\ wk[h].id \in Ids => wk[h].gen >= 1 /\ wk[h].id \in minted
    /\ wk[h].phase \in {"claimed", "running"} => wk[h].failures < Budget
    /\ wk[h].phase = "snapped" => snap[h] \in Checkpoints
    /\ ~closed /\ ~Done(h) => agents[wk[h].id] = h

LivesSound == \A h \in Handles : LifeSound(h)

TablesSound == /\ \A id \in Ids : /\ agents[id] # Nil => wk[agents[id]].id = id
                                  /\ pending[id] # Nil => wk[pending[id]].id = id
               /\ pastIDs \in Seq(minted)

IInv == /\ TypeOK /\ CallsSound /\ StartsAlone /\ LivesSound /\ TablesSound
        /\ OneLifePerId /\ CollectedHasEnded
=============================================================================
