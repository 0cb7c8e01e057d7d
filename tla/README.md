# eino-swarm in TLA+

This directory holds a formal model of the concurrent core of eino-swarm: the
Go package that lets one *manager* agent drive background *worker* agents
(package `swarm`, the repository root), and the engine, provider and server of
the `zwai` application built on it (`internal/...`). The modules are written
from the Go source; TLC checks them on small instances and TLAPS proves part of
what they say for instances of every size.

All paths below are relative to the repository's root.

Contents

1. How to run it
2. Inventory: the system and its parts
3. The modules and what each stands for
4. What is model-checked
5. Fairness
6. What is proved
7. Where code and documents disagree
8. Known gaps in the code that no run is spent on
9. What is not modelled
10. Plan

## 1. How to run it

    tlc -workers 2 -config ManagerTurn.cfg MCManagerTurn.tla
    tlapm ManagerTurnProofs.tla

Every configuration names the properties of one run; `PROJECT.json` lists the
runs with their modules. Two runs are *expected to end in a violation*: each
states a sentence of the repository's documents that the code does not keep
(section 7). For each property of the other runs the module that models the
code also holds a broken variant of one definition, marked `mutant:`, that
makes TLC find the property violated; `PROJECT.json` says which belongs to
which.

| Module | Kind |
|---|---|
| `SlotGate`, `Semaphore` | detailed and abstract specification of the concurrency gate |
| `WorkerRegistry`, `WorkerLedger` | detailed and abstract specification of the registry of background workers |
| `Handoff` | automatic restart of a conversation's workers |
| `BackoffGate`, `CircuitBreaker` | detailed and abstract specification of the recovery gate of model calls |
| `ManagerTurn` | turns of a conversation and the clients that steer them |
| `FollowupQueue`, `Mailbox` | detailed and abstract specification of the queue of waiting messages |
| `Schedules`, `Alarms` | detailed and abstract specification of waits, their fires and the turns the fires start |
| `EngineLease`, `EngineService` | detailed and abstract specification of the engine processes and desktop shells on one data directory |
| `MC*` | model values and symmetry for TLC |
| `*Proofs` | theorems and their proofs |

## 2. Inventory: the system and its parts

About 70,000 lines of Go outside tests, and a React front end. What follows
names each part, the state it keeps, its operations and whom it talks to, and
what makes it correct. The parts with concurrency of their own come first;
`PROJECT.json` gives the status of each.

### Worker registry (`swarm.go`, `spawn.go`, `worker.go`, `resume.go`, `settlement*.go`, `tools.go`, `worker_timeout.go`)

*State.* One `Registry` per conversation, under `Registry.mu`: the roster
`agents`, the results still owed `pending`, the bounded archive `past` with its
order `pastIDs`, the sequence number of ids, `closed`, the manager's inbox and
history, the role locks. One `Handle` per worker, under `Handle.mu`: inbox,
history, result, generation, `collected`, `closeRequested`, cancel function,
watchdog count.

*Operations.* Tools of the manager: `spawn_agent`, `spawn_agents`,
`resume_agent`, `send_message`, `wait_agents`, `list_agents`, `close_agent`.
Calls of the host: `Stats`, `Cleanup`, `Close`, `ResetWorkerTimeouts`,
`WaitPendingCompletion`, `SnapshotWorkers`, `RestoreWorkers`.

*Hard.* eino runs all tool calls of one message in parallel goroutines, each in
several critical sections, while workers end in several sections of their own
and the host prunes the roster. A worker's pointer is reused by a resume or
replaced by a fresh one, so a caller may hold a pointer to a later life.

*Correct when.* One id never has two workers; what is owed can be found until
it is collected or discarded; a wait consumes only the life it saw end; caps
hold; a closed registry starts nothing and leaves nothing running; a message
reported as delivered is read or surfaced.

### Concurrency gate (`gate.go`)

A counting semaphore on `sync.Cond` whose cap changes while it is in use
(`SetMaxConcurrent`). Correct when no admission passes the cap, no wake-up is
lost and every worker is admitted.

### Delegation tree (`delegation.go`)

Workers may spawn workers. `closeSubtree` marks and cancels all live, pending
and archived descendants while they spawn children; the archive's trim keeps
the ancestors of what it keeps.

### Manager steering and preemption (`preempt.go`, `internal/engine/preempt.go`, `ask.go`)

*State.* `epochs` (cancel functions of the model call and the tools under way),
`preempted`, `preemptPending`. *Operations.* `Preempt`, `TakePreempt`,
`bindEpoch`/`dropEpoch`, retract and rewrite of an unread message, questions to
the user. *Correct when* an interruption reaches the manager whenever it falls,
is never taken for a failure of the model, and a message taken back is not read.

### Engine turns (`internal/engine/turn.go`, `iterations.go`, `resume.go`, `registry_claim.go`, `goal_session.go`, `worker_ownership.go`)

*State.* One `runtime` per conversation, under `rt.mu`: the turn that runs,
its registry and cancel function, a parked registry whose workers outlive
their turn, the channel of a turn paused at its iteration cap, and the Stop
flag. *Operations.* start, steer, stop, continue, and the turn's goroutine,
from claim to release and what follows the release.

*Hard.* The goroutine gives the runtime back before it has finished; clients
work on a turn they read in an earlier section; leftovers, outcome, close and
release are four sections; `release` runs twice.

*Correct when* one turn owns the runtime at a time, every accepted message is
read, kept or taken back, and a stopped turn ends.

### Restart handoff (`handoff*.go`, `restore.go`, `internal/engine/restart*.go`, `resume_workers.go`)

The engine replaces itself while agents work. It freezes the registry, saves a
checkpoint, waits until a deadline for the workers to hand off, saves another,
and the next process rebuilds from the last durable checkpoint and the events
after it. Correct when a tool that was started is never silently repeated or
forgotten, a finished worker is not run again, nothing unfinished counts as
finished, and the handoff ends.

### Model backoff gate (`internal/provider/backoff.go`, `model_backoff.go`)

One gate per origin of the model service, shared by all agents: cooldown after
a failure, a single probe when it has passed, a streak that doubles the delay.
Correct when only one probe runs, nothing is sent in a cooldown, only the
result of the right call moves the streak, and no caller waits for ever.

### Follow-up queue (`internal/engine/followup.go`, `internal/store/followups.go`)

*State.* Rows in the order of a sequence number, a cached counter, and what each
sender has taken out and not delivered yet. *Operations.* queue, edit, delete,
"send now" (into the running turn, or a turn of its own), the flush at the end
of a turn, the put-back of a start that lost.

*Hard.* A message is deleted before the turn that answers it exists; reading the
oldest row and deleting it are two statements; a turn's goroutine flushes after
it gave the runtime back, so it races clients, late steering and the next turn's
own flush; the process may die anywhere.

*Correct when* a message is in one place, only the sender that took it delivers
it, a lost start brings it back, and no turn row stays running without a
goroutine.

### Schedules (`internal/engine/schedule*.go`, `internal/store/schedule*.go`)

*State.* Waits (`schedules`), fires (`schedule_runs`) with the turn each is
bound to, and `fireMu`, under which the ticker and "Run now" claim. *Operations.*
create, cancel, pause, resume, re-arm, tick, run now, start and end of a
scheduled turn.

*Hard.* A fire is claimed, advanced, started and closed in different sections,
most of them outside `fireMu`; clients and managers change the wait at any
point; the start can fail in several ways; the process may die with a fire
claimed.

*Correct when* one wait has one running fire, the caps hold, a one-shot rings
once, and a claimed fire is closed by somebody.

### Data-directory lease and idle exit (`internal/lease`, `cmd/zwai/engine*.go`, `desktop_*.go`, `internal/server/presence.go`)

*State.* The lock file, the record `engine.json`, an engine process's presence
slots, and the record and child each shell acts on. *Operations.* acquire,
publish, release, probe, discover, launch, replace, hold, idle exit.

*Hard.* The processes share nothing but two files and HTTP. A shell acts on a
record it read a moment ago; the watcher decides on a sample it took a moment
ago; two shells launch at once; a predecessor removes its record while a
successor waits for the lock.

*Correct when* one process has the database, an engine that serves can be
found, an acknowledged hold and an idle exit exclude each other, no shell waits
for ever, and an unused engine goes away.

### Other parts

| Part | State and operations | What makes it hard |
|---|---|---|
| Completion gate of ordinary turns (`worker_completion*.go`, `report_admission.go`) | uncollected workers | a turn may not end while work is owed |
| Goals (`goal*.go`) | goal row, claim of a continuation | pause, stop and cap race the next turn |
| Live limits (`swarm_limits.go`) | caps of all registries | pushed while a registry is being built |
| Compaction (`compact.go`, `autocompact*.go`) | the folded conversation | runs behind a turn that replaces it |
| Review and memory (`review*.go`, `internal/memory`) | library, source revision | compare-and-swap against what was read |
| Event store (`internal/store`) | append-only log, batches, rewind | batch order, crash in between |
| Phone remote (`internal/remote`) | snapshot, live frames | a link that drops frames |
| Self update (`internal/update`) | bundle on disk under a lock | roll-back of a failed step |
| Provider routes (`internal/provider`) | routes, reconnects | which failure moves to which route |
| HTTP server, desktop shell, front ends, configuration, tools, search, history, clients, terminals | presentation and I/O | little state of their own |

### How they interact

    client ── start / steer / preempt / stop ──► runtime (engine turns)
                                                    │ owns one Registry
    manager's goroutine ── tool calls in parallel ──► Registry ── spawns ──► workers
         │                                              │                     │ acquireSlot
         └── model calls ──► backoff gate ◄── model calls ──── workers ──► gate
    follow-up queue, schedules ── start a turn ──► runtime;  its end ── flush, close the fire ──► both
    restart ── freeze, snapshot, stop ──► Registry, workers ── events ──► store ──► next process
    desktop shells ── discover, launch, replace, hold ──► engine process (all of the above)

The parts share state through the two mutexes `rt.mu` and `Registry.mu`, call
each other synchronously, and are told of ends through closed channels.
## 3. The modules and what each stands for

One action is one critical section of the mutex that protects the state, or one
durable write, or a step of a goroutine that touches no shared state. What a Go
function keeps in local variables between two sections is kept in `call[c]`,
`run[t]`, `snap[h]` or the like, so every interleaving between sections is
explored. `PROJECT.json` maps each definition to its lines.

### SlotGate and Semaphore

`cap`, `held` are the fields of `slotGate`; `maxConcurrent` and `created` are
the registry's side; `pc[w]` says where a worker goroutine is (before the loop
test, in the wait set, woken, holding). `Enter`, `Take`, `Park`, `Release` are
`acquireSlot`, the two outcomes of the loop test in `acquire`, and `release`;
`SetFirst`/`SetField` and `Resize` are the two sections of `SetMaxConcurrent`.
`sync.Cond` is modelled by its contract: `Wait` joins the wait set and unlocks
in one step, `Signal` moves at most one goroutine, any one, and a woken
goroutine still has to win the mutex against newcomers.

`Semaphore` is what the gate promises: goroutines queue, are admitted within
the cap of the moment, and everybody queued is admitted. `SlotGate` implements
it under `queued <- locking, waiting and woken`, `admitted <- holding`.

### WorkerRegistry

`wk[h]` holds the fields of a `Handle` that outlive one section; `agents`,
`pending`, `past`, `pastIDs`, `minted`, `closed` and `roleLock` are the
registry's. Phases `claimed .. done` of a worker are the window before its
goroutine starts, its run, the result, and the three sections of
`finishAgent` (drain, `remember` in two locks, close of the done channel).

The calls, section by section: `spawn_agent` is `SpawnLock`,
`SpawnFindRunning`/`SpawnSteer`, `SpawnReuse`, `Mint`; `resume_agent` is
`Recall`, then `ClaimInPlace` or `ClaimFresh`; `startWorker` is `Start`;
`send_message` is `SendCall`, `Push`; `wait_agents` is `WaitSnapshot`,
`Collect`, `WaitReturn`; `close_agent` is `CloseFinished`, or `CloseRunning`
and `CloseCancel`; `Stats`, `Cleanup`, `Shutdown` (`Close`), `ResetTimeouts`
and `Observe...` (`WaitPendingCompletion`) are the host's. A worker's steps are
`ReadInbox`, `Complete`, `Drain`, `Snap`, `Remember`, `CloseDone`.

The content of tasks and results, hooks, delegation trees and the model loop
are left out; `streak` is a history variable (watchdog stops in a row).

`WorkerLedger` is what the registry promises to whoever delegates: a worker is at
work or not, its result is owed or settled, somebody has given it up, the registry
is closed. A life starts alone and under the cap, with a debt; it ends; a debt is
collected after the end or written off by giving the worker up; `Close` empties
the debts and starts nothing more. `WorkerRegistry` implements it under `alive <-`
ids with a handle in a life, `owed <- Registry.pending`, `abandoned <-` those with
`closeRequested`. A resume of a worker whose old result is still owed is one
`Start`; what the phases, tokens, checkpoints, locks and `Stats` do is a stutter.

### Handoff

A worker goes in rounds: its inbox is drained (`DrainInbox`), becomes history
(`SetHistory`), the model asks for a tool (`AskForTool`), the tool is admitted
or refused (`BeginTool`) and returns (`FinishTool`), its result is recorded
(`EmitResult`), or the life ends (`Complete` ... `CloseDone`). The host is
`prepareRestart`: `BeginHandoff` (freeze), `Snapshot` per worker,
`WriteInitial`, `AllSettled` or `Deadline`, `StopWorker`, `AllStopped`,
`WriteFinal`, `Retry` after a failed write, `Leave` (hand over, or crash at any
point), `Recover`. `log` is what is durable: the last checkpoint and the
receipts after it. `told` and `begun` are history variables.

### BackoffGate

`gate` holds the fields of `backoffGate`; of the clock only "the cooldown has
not passed" is kept (`cooling`, ended by `Elapse`). `Admit`, `Wait`, `Wake`,
`GiveUp` are `acquire`; `Finish` is `finish`, used by `Reconnect`, `Refused` and
`End`; `Progress` is the first decoded content of a probe's stream; `Cancel` the
context of a caller. `Decides` is the test that only the first failure of a
healthy generation and the current probe move the streak.

`CircuitBreaker` is what the gate promises: requests pass side by side in health;
the first that fails starts a cooldown; after it one trial decides, and its decision
makes strangers of every request still under way. `BackoffGate` implements it under
`inside <-` calls with a permit, `trusted <-` those of the current generation,
`trial <- Probes`. It knows no permits, generations, wake-ups or loops, and it states
the cooldown as `min(2 * delay, Max)` where the code compares with `max - delay`.

### ManagerTurn

| Variable | Code |
|---|---|
| `rt` | `runtime`: `running`, `turnID`, `parked`, `continueCh` (`waiting`), `userStopped` |
| `regs[r]` | `Registry`: manager inbox, `closed`, `epochs` (none, live, cut), `preempted`, `preemptPending` (`armed`); `due` is history: the unread messages an accepted preempt promised to the next call |
| `run[t]` | the goroutine of turn t: place, registry, messages the run began with (`base`), messages the manager has (`history`), error, leftovers, status |
| `call[c]` | a request: the operation and the turn it read before the lock |
| `fate`, `home` | per message: what its sender was told, the turn that accepted it |

A registry has the number of the turn that would build it: a turn claims the
parked registry or builds its own (`claimRegistry`, `WithTurn`). Starting is
`Start`; steering is `SteerCall` (reads the turn), `SteerLand` or `SteerMissed`
(under the lock), then `StartInstead` or `StartRefused`, as the server's handler
falls back to a new turn. Retract is `RetractCall`, `RetractTake` or
`RetractMissed`; preempt is `PreemptCall`, `PreemptCheck`, `PreemptFire`; Stop
is `StopCall`, `StopLand`, `StopDeny`, `StopCancel`, or `StopParked`; `Continue`
answers a pause.

The loop of `runManager` is `Drain` (BeforeModel), `Generate`, `Generated` or
`GenerateFails`, `Drop`, `Tool`, `ToolEnds`, `Cap`, `Returned`, `Verify`,
`Verified`, `TakePreempt`, then `Preempts`, `Unverified`, `RetryFailure`,
`RetryFolded` or `Fails`, `Admit`, `Pause`, `Extended` or `NotExtended`. The rest
of `run` is `TakeLeftover`, `Outcome`, `Park` or `Close`, `Release`, `Reap` or
`NoReap`, `StartLate` or `StartNone`, `Leave` (the deferred second release).

Abstractions, all on the side of more behaviour: whether a goal or an armed
wake owns the workers is a free choice at every point that asks; how many
retries are left is not counted; a tool stands for all that a message asks for
and shares one epoch; the stream may end, fail or be cut at any time. Left
out: the correction of a false claim of pending work, uncollected workers and
deferred reports (which rejoin the loop with the unread messages, as the retries
do), the rewrite of an unread message (words only), the persisted row and its
replay, and what a restart does to the turn.

### FollowupQueue and Mailbox

`row[m]` is the sequence number of a waiting message, `counter` the store's
cached one (`Nil` until it is seeded from the highest row), `turns` the turn
rows with the messages each carries, `running` and `asking` the runtime, `inbox`
the unread steering; `at` and `hand` say where a caller or the goroutine of
turn t is and what it holds. `fate` is history: how a message left for good.

`EnqueueCheck`/`EnqueueWrite`, `DeleteFollowup`, `RequeueFollowup`,
`TakeFollowup`/`SteerOrStart` and `Send` are the clients'; `StartCheck`,
`StartFail`, `StartCreate`, `StartAbort`, `StartClaim` the sections of
`startTurnInput`, which clients, late steering and the flush all go through, with
`RestoreRead` and `RestoreWrite` (`UnshiftFollowup`) when a start that holds a queued
message loses. A start can fail before its row is written (`StartFail`) and after it
(`StartAbort`); then the row is closed, or it stays running (`Abandon`), because
the closing write failed too or because none is tried, which is what a failed
`AppendMessages` comes to. What the caller does next is `Failed`: a flush tries again
while the database is locked, everybody else does as after a lost start
(`Refused`). A turn is `Ask`, `ReadInbox`, `Conclude`, `Release`, `RecordOutcome`,
`FinishTurn`, `PopSelect`, `PopClaim`. `Crash` is the death of the process with
what `ResumeOrphanedTurns` makes of the rows in the next one.

`Mailbox` is the promise: a message waits, is out with one sender, comes back,
or is delivered or dropped for good. A crash may drop only what was out. The
mapping is `Where`. A message is counted once per place, and the row of a failed
start is no place: its text went back to the sender (section 8 says what becomes of
it). `turns[t].faults` is history: which failures left that row running. Left out:
standing objectives, which go before the flush, the freeze before a restart, and
failing writes of queue rows, of the terminal event and of the recovery.

### Schedules and Alarms

| Variable | Code |
|---|---|
| `sched[w]` | `schedules`: status, and whether the wait rings once |
| `runs` | `schedule_runs`: wait, status, bound turn |
| `turns`, `running` | turn rows with the fire each names; the runtime of each conversation |
| `fireMu` | `Engine.fireMu` |
| `at`, `hand` | where the ticker, a caller or turn t is; due rows still to look at, fires claimed, the one being started |
| `lost` | history: fires a crash took the owner of |

A tick is `TickBegin` (due list), `Row` per row, `Insert`, `Advance`, `Drop` or
`Skip`, then `Unlock`; "Run now" is the same for one row. Claimed fires are
started after the lock: `StartNext`, `StartCreate` or `StartFail`, `Bind`,
`Claim` or `ClaimFail`, `Refuse`, `Unrun`, `FinishStart`. A turn may re-arm its
wait or cancel any (`Report`); its end is `Conclude`, `AutoPause`, `Release`,
`FinishTurn`, `CloseRun`. `Send` is a human's message on the same conversation,
`Crash` the death of the process and the recovery of turns. The clock is left
out: any armed wait may be overdue at any tick. Cadence, edits of a wait,
goals, the wake policy and deferred answers are left out too.

`Alarms` is what somebody who sets waits relies on: a wait is armed while there is
room, fires when it has no open fire, has a turn only for an open fire, and, if it
rings once, is not armed again after its turn. `Schedules` implements it under
`armed <- Active`, `open <-` the running rows of `schedule_runs`, `rung <-` one-shots
with a turn. Ticks, `fireMu`, busy conversations, skips, refused starts and the steps
of an end do not show; `Crash` closes at once the fires whose turns it ends.

### EngineLease

`lock` and `file` are `engine.lock` and `engine.json`. `proc[p]` goes from
`born` over `locked`, `open` (database), `serve` (published), `ready`, `down`
(HTTP gone), `closed` and `removed` (record) to `dead`; `quiet`, `stopping`,
`term` are the watcher's sample, `presence.stopping` and a cancelled run.
`held[s]` is the engine that counts shell s, `rec[s]` and `child[s]` what s acts
on.

An engine is `Acquire`, `OpenDatabase`, `Publish`, `Down`, `CloseDatabase`,
`Release`; its watcher `Sample`, `TryIdleShutdown`. A shell is `Look` and `Ask`
(the two halves of `Discover`), `Probe`/`ProbeEnd` (`Busy`, which takes a free
lock for an instant), `Launch`, `AskBoot`, `Handoff` and `Kill` (an engine of
another build), `Reserve`, `Attach`, `Depart`, `LoseHold`, `Leave`, `GiveUp`. A
handoff is acknowledged and the engine killed, or it is refused, fails or times out
and the shell ends with an error while the engine lives. Whether a shell that gives
up kills its child or leaves it to finish (it does after an acknowledged handoff) is a
free choice.
Processes die (`Crash`), are interrupted (`Interrupt`), and the kernel then
drops the lock and the connections but not the record.

`EngineService` is what shells rely on: engines take the data one at a time, serve,
count shells, resign when they count none, withdraw, and give the data back; one that
withdraws or dies has let go of every shell. `EngineLease` implements it under
`using <- HasDatabase`, `serving <- Answers`, `leaving <- stopping`. Locks, records,
probes, launches, builds and signals do not show.

## 4. What is model-checked

| Run | Instance | Distinct states | Questions |
|---|---|---|---|
| `slot_gate` | 4 workers, 2 setters, requests {0, 1, 3}, default 2 | 60 k | no lost wake-up, everybody admitted, implements `Semaphore` |
| `worker_tools` | 1 id on 1 pointer, 2 callers, every call but `Stats` and `Cleanup`, 2 generations | 399 k | watchdog budget, a settled completion wait ends, a discarded worker ends |
| `worker_roster` | 1 id on 2 pointers, 2 callers; spawn, resume, wait, close, `Stats`, `Close` | 2.2 M | one life per id, what is owed is found, nothing collected early, implements `WorkerLedger` |
| `worker_admission` | 2 roles, 2 ids, 2 pointers, cap 1, archive 1; spawn, resume, `Cleanup` | 1.8 M | caps |
| `handoff_effects` | 1 worker, 2 tool calls, 1 message | 448 k | effects accounted for, results kept and not invented, steering kept, the handoff ends |
| `model_backoff` | 2 calls with 3 attempts each, delays 2 to 5 | 95 k | single probe, implements `CircuitBreaker`, every call ends |
| `manager_turn` | 1 client, 1 message, 2 turns | 606 k | one owner, messages read, retract, preempt, stop |
| `followup_queue` | 1 client, 1 message, 3 turns, 1 crash; starts, live steering and closing writes that fail, 2 attempts of a flush, 1 row left running by a failure, place numbers -1 to 1 | 549 k | one place per message, running rows owned, implements `Mailbox`, calls return |
| `schedules` | 1 conversation with a one-shot wake, 1 repeating standalone wait, 1 client, cap 1, 2 fires, 2 turns, 1 crash | 571 k | one fire per wait, a one-shot rings once, fires owned and settled, implements `Alarms` |
| `engine_lease` | 2 shells of different builds, 3 processes, 1 fault | 270 k | one database, serving is published, implements `EngineService`, shells settle, unused engines exit |

**Why the bounds are enough for what they ask.**

* *slot_gate.* Two waiters, a newcomer and a holder are what a lost signal
  needs; two setters are what a crossed resize needs; 0 takes the repair path,
  1 and 3 lie on both sides of the default.
* *worker runs.* Two parallel calls and the worker's own end meet in every
  pair; a second generation is what a stale pointer or token needs; a second
  pointer appears only after `Stats` forgot the first, which is why
  `worker_roster` has `Stats` and `worker_tools` has one pointer and all other
  calls but `Cleanup`, which `worker_admission` has. A cap of 1 with two roles makes every pair compete; an archive of 1
  evicts. Calls of three actors at once are not covered by these runs. Pointers
  and callers are interchangeable and no action names one, so the symmetry of
  the safety runs is sound; runs with liveness use none.
* *handoff_effects.* One worker with two calls has a finished call, a running one
  and a refused one at once, and a message drained in between. Workers share
  nothing but the order of the log. `Retry` makes a second handoff follow a
  failed one.
* *model_backoff.* Two calls suffice for a probe and a bystander, three
  attempts bring the delay to its cap (2, 4, 5). The generation is not bounded
  by the instance: it moves only when a call ends a send, and calls are finite.
* *manager_turn.* The second turn meets the leaving first one. A registry that
  is parked, reused and closed needs no third. One client interleaves with the
  goroutines of two turns; two requests in flight at once are left to a later
  instance, and the theorem `RuntimeHasOneOwner` covers them for its property.
* *followup_queue.* Three turns are the one that ends, the one it flushes into
  and one that takes the conversation from it. One message is what every
  property but the order of rows is about; the theorem `OnePlace` covers several
  messages and clients. Two attempts of a flush are a retry after a failure (the code
  makes eight, all alike); one failure is what leaves a row running, and the places
  of a single message need no numbers but those of one enqueue and one put-back.
* *schedules.* A wait that wakes a conversation and one that mints its own, one
  that rings once and one that repeats, two fires and a cap of one make the
  ticker, a manual run and the end of a turn meet on one row and on the cap. Starts
  fail here by a busy conversation and by the bound on turn rows. Failures of any
  other kind are the flag `StartErrors`, which is off to keep the run short: with it
  on, the same instance passes with 883 k states in four minutes. The failed
  `AppendMessages` of section 8 is in `FollowupQueue` only.
* *engine_lease.* Two shells race to launch, and a third process is the one that
  replaces a loser, a victim or a stale build. One fault (a crash, an interrupt,
  a shell that dies or gives up) falls at any step.

Deadlock is detected except where the system really stops: a handoff ends with
a recovered process, calls of the backoff instance end, a conversation may stay
idle when its turns are used up.

What each property says is in the comment above it. The ones that took the most
steps to break with a plausible bug: `ShellSettles`, `OneShotRingsOnce`, `Owed`, `DebtKept` (pruning against a
parallel wait and resume), `EffectsAccounted` (freeze, failed tool, stop,
crash), `ImplementsBreaker`, `PreemptLands` and `DoneTurnReadSteers`.

Type invariants are proved (section 6) and not listed in the configurations, and
neither are seven smaller properties that are proved too: `HeldIsHolders`,
`NoAdmissionAboveCap`, `CooldownQuiet`, and `StreakOwned`, `NoLifeAfterClose`,
`ActiveUnderCap` and `HoldStopsIdleExit`, which the refinements of `BackoffGate`,
`WorkerRegistry`, `Schedules` and `EngineLease` contain.

`WorkerRegistry` also states `NoTwins`, `DiscardArchived`, `CloseCancelsAll` and
`NoStrandedSteering`, `ManagerTurn` `LateSteerRuns`, `Handoff` `SteeringSurvives`,
and `FollowupQueue` `EveryRunningRowOwned` and `OneTurnPerMessage`. They are promises the code does not keep (section 8) and no
configuration lists them.

## 5. Fairness

* *SlotGate.* Weak fairness of a goroutine at its loop test, of `Release` (a
  worker ends: completion, watchdog or cancel) and of a setter on its way to
  `resize`. Go schedules runnable goroutines, and every worker runs under a
  watchdog. No strong fairness is assumed; starvation by newcomers cannot last
  because workers are finitely many.
* *WorkerRegistry.* Weak fairness of the steps of a call under way, of the end
  of a worker whose context is cancelled, and of `finishAgent`. A worker that is
  not cancelled need not end; nobody need call anything.
* *Handoff.* Weak fairness of `prepareRestart` and of its timer. Workers and
  tools may hang: that is what the deadline is for.
* *BackoffGate.* Time passes, a call goes on, and a send ends because header and
  idle timeouts bound it. Cancellation is not assumed.
* *ManagerTurn.* Weak fairness of the turn's own steps, and of the end of a model
  call or a tool whose context is cancelled. A call that is not cancelled may
  run for ever, a client may never answer a pause, and nobody need send anything.

* *FollowupQueue.* Weak fairness of the sections of a start, of an enqueue or
  steer under way, and of the end of a turn. A turn may run, and a client stay
  away, for ever. `CallsReturn` asks only for the time after clients stopped
  making calls: a flush looks again whenever its row was edited under it.
* *Schedules.* Weak fairness of a tick or a manual run once it has begun, of the
  starts it claimed, and of the end of a turn. No tick need ever begin.
* *EngineLease.* Weak fairness of the engine process, of its watcher and of a
  shell between opening and settling. Nobody has to open or close a window, and
  no fault has to happen.

## 6. What is proved

Every theorem holds for all values of the constants under the `ASSUME`s of its
module (positive bounds, finiteness where a cardinality is used, sentinels
outside the sets they mark). Each follows the same argument: an inductive
invariant `IInv`, one lemma per group of actions that a step keeps it, and the
temporal conclusion.

| Module | Theorems | Inductive invariant |
|---|---|---|
| `SlotGateProofs` | `TypeCorrect`, `HeldExact`, `WakeupsKept`, `AdmissionBounded`, `SemaphoreSafety` | `TypeOK`, `GateExists`, `HeldIsHolders`, `NoLostWakeup` |
| `WorkerRegistryProofs` | `TypeCorrect`, `NoSecondWorker`, `NothingCollectedEarly`; `ResultsOwed`; `DebtsKept`, `ClosedForGood`, `CapHolds`; `PointersAreUnique`, `BudgetKept`, `WithoutStats`; `LedgerRefined`; `TwinsNeedResume` | `TypeOK`, `CallsSound`, `StartsAlone`, `LivesSound`, `TablesSound`, `OneLifePerId`, `CollectedHasEnded`; with it `Owed`; `OnePointerPerId`, `MintedHasPointer`, `RosterLasts`; `StreakCounted`; `TablesAgree`, `ClosedIsEmpty`; `RolesHeld`, `SpawnsSound` |
| `HandoffProofs` | `TypeCorrect`, `NoResultMadeUp`, `NoEffectForgotten`, `ReadyLosesNoResult`, `SettledKeepsSteering` | `TypeOK`, `RunsOK`, `Asked`, `Snapshots`, `ReceiptsOK`, `Settled`, `Collection`, `Final`, `AsRestored` |
| `BackoffGateProofs` | `TypeCorrect`, `OneProbe`, `NothingSentInCooldown`, `StreakHasOneOwner`; `BreakerRefined` | `Core` (types, phases, no ticket ahead of the gate, single probe), `Places`, `Holding`, `Budget` |
| `ManagerTurnProofs` | `TypeCorrect`, `RuntimeHasOneOwner`; `RetractionsKept`; `PreemptsAreNoFailures`; `DoneTurnsRead` | `TypeOK`, `Numbered`, `CallsSound`, `OneOwner`; with it `MessagesInv`, `CausesInv`, and `DoneInv` on top of `MessagesInv` |
| `FollowupQueueProofs` | `TypeCorrect`, `RowsOwned`, `OnePlace`, `Refinement` | `Shape` (types, what each place of a goroutine holds, one start per row, `RunningRowOwned`), `AllAlone` |
| `SchedulesProofs` | `TypeCorrect`, `SingleFire`, `FiresOwned`; `CapKept`; `RingsOnce`; `AlarmsRefined`; `OwnedWithoutCrash` | `Shape` (types, hands, turns, `fireMu`), `FreshClaim`, `OneFirePerWait`, `ClaimOwned`; with it `RingInv`; `HeldOpen` |
| `EngineLeaseProofs` | `TypeCorrect`, `AtMostOneDatabase`, `ServingFound`, `HoldExcludesIdleExit`; `ServiceRefined` | `TypeOK`, `LockHeld`, `ProbeHolds`, `ActsOnOne`; with it `ServingIsPublished`, `HoldStopsIdleExit`, `HeldServes` |

Why the strengthening is needed:

* *SlotGate.* `NoLostWakeup` alone is inductive only together with the exact
  count: a release frees a slot because `held` counted its holder. A goroutine
  past `Enter` implies that the gate exists, so that its cap is not read too early.
  `SemaphoreSafety` maps each step to one of `Semaphore` or to a stutter; the guard
  of `Admit` there (a holder more fits under the cap) is `HeldIsHolders` and the test of
  `Enter`.
* *WorkerRegistry.* "One life per id" breaks in the step that claims a
  pointer; the claim relies on what the call read in an earlier section. `CallsSound`
  says what such a record still guarantees after any other step: a token
  names a life that has ended, a claim names a minted id. `StartsAlone` says that
  no two calls start the same worker; `LivesSound`, that a life is in the roster
  as long as there is one; `TablesSound`, that tables hold pointers of the right
  id. `CollectedHasEnded` follows from the soundness of tokens: a later life has a
  later generation. `ResultsOwed` and all that follows it rest on the lemma
  `StepKinds`: to the roster, the pending set and the marks of a life, every step is
  one of five things: it leaves them alone, it is `Stats`, it empties them (`Close`),
  it settles one life, or it begins one.
* *WorkerRegistry, one pointer per id.* The watchdog budget holds where an id has one
  pointer and fails where `Stats` made it two (section 8), so `BudgetKept` has
  `[]OnePointerPerId` as its premise, and `PointersAreUnique` derives it from the
  absence of `Stats`: without it the roster keeps every minted id until `Close`
  (`MintedHasPointer`, `RosterLasts`), so no resume takes a fresh handle.
  `StreakCounted` says that the stops in a row of an id are on its pointer, where the
  budget is tested. `WithoutStats` puts the two together.
* *WorkerRegistry as a ledger.* A settlement is `Collect` or `Abandon` of the ledger
  according to whether the life has ended; that no *other* pointer of that id is
  in a life then needs `TablesAgree` (roster and pending set never name two pointers)
  and `ClosedIsEmpty`. A start is allowed by the ledger because while the registry is
  open the workers at work are those `liveCountLocked` counts (`AliveIsLive`). A
  `close_agent` that saw a worker running settles with what it read an earlier section
  ago: `CallSound` says that its handle still belongs to an id.
* *WorkerRegistry without resumes.* `TwinsNeedResume` shows that the race of section 8
  is the whole of it: take `resume_agent` away and `NoTwins` holds for any number of
  roles, callers and stale looks. `RolesHeld` says that whoever is between the two
  look-ups has the lock of its role; `SpawnsSound`, that what it did not find is not
  there: after the first look no worker of the role is running, and while that lock
  is held only another spawn of the role could start one.
* *Handoff.* The four properties speak of the state after `Recover`; everything
  they need has to be carried there. `RunsOK` says what a run knows of itself: a
  call that was begun and did not succeed is in flight, a delivered message is on
  its way into the history. `Snapshots` and `ReceiptsOK` say the same of what is
  written down, which holds as soon as every unfinished worker is asked (`Asked`)
  and no tool begins any more. `Settled` says that a worker is stopped or has
  ended before it is collected, so that a snapshot that calls it unfinished stays
  right while it ends (`Collection`, `Final`). One lemma, `RunStep`, shows that a
  step of a worker keeps all of it if it keeps `RunsOK`.
* *BackoffGate.* That the gate's `probe` flag means exactly one call with a probe
  ticket of the current generation requires that no ticket is ahead of the gate's
  generation, so that a late result has no authority. For the same reason a result
  that decides leaves no permit of the new generation, which is what `BreakerRefined`
  needs: after a decision of `CircuitBreaker` nobody under way is trusted.
* *ManagerTurn.* `OneOwner` needs that a turn which claims the runtime has not
  been started before, so turns are numbered by `turnID`; that requests are about
  turns that were started; and that a registry is that of an earlier turn.
  `MessagesInv` (for `RetractionsKept`) says that a message that waits does so
  in one inbox and is in nobody's words, and that no two requests deliver the same
  message, so what a retract takes under `Registry.mu` nobody else has. `CausesInv`
  (for `PreemptsAreNoFailures`) says that a registry with an armed or a cut epoch has
  its `preempted` flag, that only a call under way has an epoch, and that between
  a cancelled call and `TakePreempt` the flag is still there. `DoneInv` (for
  `DoneTurnsRead`) says which places of the loop imply that everything in the
  transcript was read by a completed call, that after its first drain a turn
  finds only its own messages in the inbox, and where an accepted message may be.
* *FollowupQueue.* `MessageInOnePlace` compares every pair of places. `AllAlone`
  states it message by message, and needs `Shape` to know which places an actor
  that is somewhere in its call can hold a message in: a start that has
  created its row no longer counts that row as a second place, and no two starts
  own one row. A start that fails after its row exists hands the message back and
  takes its row out of the places in the same step, whether the row is closed or
  left running; in the second case `faults` shows the failure, which is all that
  `RunningRowOwned` accepts instead of an owner. `Refinement` maps a state to the place of each message; because of
  `AllAlone` a step that is seen to put a message somewhere has settled where it
  is, and messages in no place the step touches stay where they are.
* *Schedules.* `OneFirePerWait` breaks where a fire is inserted; `FreshClaim` says
  that what was read of the wait under `fireMu` still holds there, which needs
  `MuHeld` (whoever claims holds it) and that nobody else inserts a running fire.
  `ClaimOwned` needs that hands are sound: a fire in somebody's hand is
  dropped only when it is closed or a turn has it. The cap needs only that waits are
  finitely many; it is proved from the transactions alone. For `RingsOnce` a fire
  *rings* when it has a turn or is a decided claim in somebody's hand. `RingInv`
  says that a one-shot with a fire that rings is done or cancelled, that it has
  only one, and that no fire has two turns. A claim starts to ring in the step
  that reads its wait again (`Advance`), and that step takes an armed one-shot, which
  had none so far, and makes it done. For `AlarmsRefined` a turn must find its fire
  open when it is written, one section after the claim: `HeldOpen` says that a fire
  in a hand that has no turn yet is running. `OwnedWithoutCrash` needs nothing beyond
  `ClaimOwned`: only `Crash` adds to `lost`.
* *EngineLease.* That two processes never have the database follows from
  `LockHeld`; that a killed, crashed or probing process does not take the lock
  from another needs `ProbeHolds`. `ServingFound` adds that between `Acquire` and
  `Release` nobody else writes or removes the record. For `ServiceRefined` a process
  that ends on its own must have let go of its shells: `HeldServes`, which every step
  of `EngineService` keeps, and so every step of the processes.

Only model-checked: all liveness properties (TLAPS 1.4 has neither fairness
nor `ENABLED`), with the fairness half of `ImplementsSemaphore`. No
module declares a RECURSIVE operator. Nothing is proved by induction over data; the modules need
none.

## 7. Where code and documents disagree

Each of these is a run that TLC ends with a trace.

1. **A finished worker is run again** (`handoff_finished_rerun`,
   `FinishedNotRerun`). Snapshots are taken first and the checkpoint is written
   later (internal/engine/restart.go:207); an end that is logged in between
   precedes the checkpoint that calls the worker unfinished.
2. **A claimed fire stays running for ever** (`schedule_orphaned_claim`,
   `RunningRunHasOwner`). A fire is written as running before the turn row that
   names it exists (internal/engine/schedule_tick.go:182) and closed after that
   row is (turn.go:750). A process that dies in either gap leaves it running, and
   start-up looks only at unfinished turns: the wait never fires again and one
   slot of the cap is gone. internal/store/schedule.go:200 counts "fires this
   process has claimed and not yet finished"; turn.go:749 names exactly this
   damage as the reason for its unconditional close, and docs/DATA_MODEL.md:524
   says that `HasRunningRun` "cannot stick".

## 8. Known gaps in the code that no run is spent on

The first six are properties of their modules that TLC finds violated; each is
reproduced by a configuration that lists it. Their steps are in the modules, and the
properties of section 4 hold with these steps in them, because they name what they do
not cover: late steering, messages of a handoff that did not settle, rows with a
failure in `faults`.

* **A worker survives `Registry.Close`** (`WorkerRegistry!CloseCancelsAll`; one id
  on one pointer, two callers, `Tools = {"spawn", "shutdown"}`). Between
  registration and `startWorker` a handle has no cancel function; `Close` falls in
  between, and `startWorker` (worker.go:59) looks only at `handoff.cancelled` and
  `closeRequested`. docs/LIBRARY.md:376 calls `Close` "safe even for an agent
  whose cancel was not yet wired".
* **A delivered message is lost** (`WorkerRegistry!NoStrandedSteering`; the same
  with `Tools = {"spawn", "send"}`). `finishAgent` (swarm.go:562) drains the inbox,
  archives, and closes the done channel in three sections; `send_message` in
  between answers `delivered: true` and nobody reads the inbox again.
  docs/LIBRARY.md:334-336 promises that leftover steering is reported as
  `undelivered`.
* **Late steering is dropped** (`ManagerTurn!LateSteerRuns`; the instance of
  `manager_turn`). The turn takes its leftovers (internal/engine/turn.go:684), then
  decides, closes and releases; steering is accepted until the registry is closed
  and read by nobody. README.md:1091-1092: "Steering that arrives after the last
  model call becomes a follow-up turn."
* **A twin is minted** (`WorkerRegistry!NoTwins`; `RoleOf <- OneRole`, ids `a1`,
  `a2`, two pointers, a cap of 2). `resume_agent` takes no role lock, so between
  the two look-ups of `spawn_agent` (tools.go:233) it can bring the finished
  worker back (docs/LIBRARY.md:19). Nothing else does: `TwinsNeedResume`.

* **A row nobody closes** (`FollowupQueue!EveryRunningRowOwned`; the instance of
  `followup_queue`; five states: `Send`, `StartCheck`, `StartCreate`, `StartAbort`).
  After `CreateTurn` every failing step of a start closes the row but one: when
  `AppendMessages` fails (internal/engine/turn.go:433-437) the call returns and the
  row stays running, with no goroutine. docs/DATA_MODEL.md:502: "A turn stays
  `running` until it finishes, errors, or the user stops it", or the process ends;
  resume.go:31: "ResumeOrphanedTurns continues every turn left running by a crash or
  a process exit". This one was left by neither, and the next process
  resumes it all the same, or takes it for the latest turn and supersedes an older
  one that was really at work. A closing write that fails leaves a row the same way.
* **A message that runs twice** (`FollowupQueue!OneTurnPerMessage`; the same
  instance, 18 states). The same failure when a flush or "send now" starts a queued
  message: the row that stays running carries it, and the flush starts it again
  ("database is locked", followup.go:109-122) or puts it back for a later turn
  (followup.go:123); either becomes a turn, and the next process resumes the first
  row too. `MessageInOnePlace` holds because it does not count such a row.

  With `Errors = FALSE` both hold (225,572 states with `MaxSeq = 2`): nothing but a
  failing write does it.

Workers and turns:

* `Resume` claims the checkpoint it recalled in an earlier section
  (resume.go:337); lives in between are forgotten when `Stats` dropped their
  pointer, watchdog count included. `TimeoutBudgetKept` is therefore checked
  and proved (`WithoutStats`) for hosts that do not call `Stats`. The same claim can
  give two lives on two pointers one generation. `WaitPendingCompletion` compares ids and generations
  (settlement_wait.go:46), so with a third caller it can answer for the other
  life: TLC finds it with `spawn_agent`, `resume_agent`, an observer and `Stats`.
  What is checked of that wait is that it ends once its execution was settled
  (`SettledFreesObservers`), not for which life it answers.
  `Stats` has one caller, the polling `Registry.Wait` (swarm.go:715), which in this
  repository only tests call; it is exported for hosts of the library.
* `remember` copies a handle under one lock and files the copy under another
  (resume.go:87); a discard in between is not in the copy (`DiscardArchived`),
  nor is a human's reset of the watchdog count (worker_timeout.go:71).
* `Cleanup` collects the running handles under the lock and cancels them after it
  (swarm.go:748); a life resumed on the same pointer in between is cancelled.
* A worker's drained inbox is in no snapshot until `setHistory` (swarm.go:908;
  `SteeringSurvives`). The worker's own final checkpoint has it, which is why
  `SteeringKeptWhenSettled` asks for a handoff that settled.
* An overflow folds the conversation and sends what the run *began* with
  (iterations.go:454): messages read during the failed run are not repeated.
  `folded` records them and `DoneTurnReadSteers` exempts them.
* A preempt that falls between the last `TakePreempt` of a turn and the parking
  of its registry stays armed and cuts the first call of the next turn, which the
  comment at preempt.go:48 means to exclude. The next turn absorbs it.
* A preempt after the reply is complete and before its epoch is dropped is
  absorbed by the dead call; `PreemptLands` makes no promise in that window.
* A preempt during the verification of an answer makes the verification fail;
  when the message is retracted before the loop looks, or the turn is at its cap,
  the turn ends in an error.
* Steering accepted between the last look at the inbox and the installation of
  the pause does not continue a turn paused at its cap.
* Leftovers of a turn are dropped when another turn starts first
  (turn.go:806).
* A message's row is written before the registry refuses it as closed, so it is
  shown though nobody reads it.

Follow-up queue:

* `EnqueueFollowup` reads that a turn runs and then writes the row. When the turn
  ends and flushes in between, the row stays with nobody to flush it until the
  next turn ends; followup.go:14 says it is "not a silent queue that never
  flushes". `ImplementsMailbox` promises no delivery for that reason.
* A message that a flush or "send now" starts while another turn asks a question
  becomes the answer to that question (turn.go:335-344), though followup.go:91-95
  means it to run after that turn.
* `UnshiftFollowup` reads the lowest number and writes one below it in two
  statements (followups.go:175): two put-backs at once share a number or swap
  their order.
* Between the pop and the turn row a crash loses the message (followup.go:100),
  though docs/API.md:2005 says of a waiting message: "Refresh, a crash, or quitting
  the app does not lose it". `Mailbox` allows a crash to drop what was out.
* The goroutine of an earlier turn may flush, or continue a goal, right after a
  Stop of a later one. What it does to the goal's row after its release
  (turn.go:752-761) can undo a Resume in between (docs/DATA_MODEL.md:283).

Schedules:

* The auto-pause of a repeating wait reads it active and writes `paused` without a
  look (schedule.go:446): a cancellation in between is undone, which
  schedule_tick.go:237 takes care to avoid elsewhere. A second human cancellation
  then changes nothing more, because it looks for the first one's event.
* A one-shot that is claimed and finds its conversation busy at the start is
  finished as `skipped_busy` and never rings, though one found busy at the
  claim "stays due" (schedule_tick.go:237). `OneShotRingsOnce` says at most once.
* A cadence edited between the due list and the advance is advanced by the old one.
* "Run now" is not under the cap of running fires.

Engine processes:

* A shell's `Busy` holds the lock for an instant; an engine another shell just
  launched can lose `Acquire` to it and exit, and that shell then reports an engine
  that "exited before it was listening" though nobody holds the directory. It is
  an `error`, which `ShellSettles` accepts.

* `zwai trace` (cmd/zwai/trace.go:36) opens the database without the lease, for as
  long as it prints: `OneDatabase` is about engine processes.

## 9. What is not modelled

* Text, images, prompts, tokens, costs, timings: data that no property tells
  apart.
* External code: eino's agent loop, gorm and SQLite, `net/http`, the operating
  system's locks. What the modules use of them (an iteration cap, one durable
  write at a time, `sync.Cond`, cancellation of a context) is modelled by its
  contract and marked external.
* Failing writes of the store other than those of a start and of the row that ends a
  turn; in `Schedules`, also the failed `AppendMessages` of a scheduled start, which
  would leave a row running there as it does in `FollowupQueue`.
* A healthy engine that fails to answer once, and shells of different builds that
  replace each other's engines for ever: the instance has three processes.
* The parts of section 2's table, until the plan reaches them, and those that
  only present or format.
* The repository's own `models/` are independent of these modules.

## 10. Plan

Done, in this order: the gate and its abstract semaphore (the smallest part with
a wake-up protocol); the worker registry, which everything else relies on; the
handoff; the backoff gate; the turn; the follow-up queue and its abstract
mailbox; schedules; the lease of the data directory. Each has its configuration,
its broken variants and its proofs.

Left:

1. `Delegation`: ancestry, `closeSubtree` against spawning descendants, the
   archive's trim. Run: a tree of 3. Property: after a close returned, no live
   descendant that is not cancelled.
2. Goals as owners of workers and continuations, replacing the free choice in
   `ManagerTurn`, with the wake policy of `Schedules`; the completion gate of
   ordinary turns, on `WorkerRegistry`.
3. `RemotePump`: snapshot and live frames over a lossy link; abstract
   specification: the phone's log is a prefix of the conversation's.
4. `LiveLimits`: `ApplyLiveSwarmLimits` against the building of a registry.
5. A second client in `ManagerTurn`, once its liveness is checked on a smaller
   instance of its own; `Handoff` of the manager's turn.

Theorems left: an abstract conversation (messages asked, answered, steered, stopped)
that `ManagerTurn` implements, and an abstract worker (asked, effects, one outcome)
that `Handoff` implements across a recovery; what each of the three other promises of
section 8 needs in order to hold, as `TwinsNeedResume` says of the twins; and the
theorems of the modules above as they are written.
