------------------------------ MODULE Handoff ------------------------------
(***************************************************************************)
(* The automatic restart of one conversation: the engine freezes its       *)
(* registry, saves what the workers are doing, gives them until a shared    *)
(* deadline to hand off, saves again, and the next process recovers from    *)
(* the last durable checkpoint and the receipts that follow it.  The old    *)
(* process may also die at any point on the way.                            *)
(*                                                                         *)
(* One action is one critical section of Handle.mu (Registry.mu for the     *)
(* freeze and the admission of a tool) or one durable write.  A worker goes *)
(* round in rounds: before a model call its inbox is drained, then put into *)
(* its history; the reply asks for a tool or ends the life.                 *)
(***************************************************************************)
EXTENDS FiniteSets

CONSTANTS
    Workers,
    Messages,   \* steering messages, each sent at most once
    Calls,      \* tool calls a worker may make, each at most once
    Nil

ASSUME NilAssumption == Nil \notin Workers

VARIABLES
    worker,     \* per worker, the fields of Handle and where its goroutine is
    host,       \* where prepareRestart is, and which process is up
    expired,    \* the deadline of PrepareRestart has passed
    saved,      \* restartTarget.checkpoint: the snapshot in memory, per worker
    stopped,    \* workers stopForHandoff has been called for
    log,        \* durable: the last checkpoint and the receipts after it
    restored,   \* what the next process makes of each worker
    told,       \* history: per worker, messages whose sender was told "delivered"
    begun       \* history: per worker, the calls a tool was started for

vars == <<worker, host, expired, saved, stopped, log, restored, told, begun>>

-----------------------------------------------------------------------------

\* "round": before the next model call.  "drained": the inbox is drained, the
\* history not yet replaced.  "model": in the model call.  "asked": the reply asks
\* for a tool.  "tool": the tool runs.  "failing": a tool returned an error.  The
\* rest is finishAgent: the result is set, reported, the leftover inbox drained,
\* and the done channel closed.
Running == {"round", "drained", "model", "asked", "tool", "failing"}
Places == Running \cup {"completed", "reported", "emptied", "done"}

\* What the history, or a receipt, says of a call.
Verdicts == {"none", "open", "ok", "failed", "unknown", "refused"}

Finished(w) == worker[w].pc \notin Running

Up == host \notin {"down", "up"}

Frozen == host # "serving"

NoCheckpoint == [w \in Workers |-> Nil]

NoReceipts == [finished |-> [w \in Workers |-> "none"],
               results |-> [w \in Workers |-> [c \in Calls |-> "none"]]]

Init == /\ worker = [w \in Workers |->
              [pc |-> "round", requested |-> FALSE, read |-> FALSE, cancelled |-> FALSE,
               inbox |-> {}, taken |-> {}, history |-> {}, calls |-> [c \in Calls |-> "none"],
               inFlight |-> {}, unsent |-> {}, err |-> "none"]]
        /\ host = "serving"
        /\ expired = FALSE
        /\ saved = NoCheckpoint
        /\ stopped = {}
        /\ log = [checkpoint |-> NoCheckpoint, final |-> FALSE, after |-> NoReceipts]
        /\ restored = NoCheckpoint
        /\ told = [w \in Workers |-> {}]
        /\ begun = [w \in Workers |-> {}]

-----------------------------------------------------------------------------
\* A worker's goroutines.

process == <<host, expired, saved, stopped, restored>>

At(w, place) == Up /\ worker[w].pc = place

Become(w, record) == worker' = [worker EXCEPT ![w] = record]

Verdict(w, c, v) == [worker[w].calls EXCEPT ![c] = v]

\* BeforeModelRewriteState: drainInbox ...
DrainInbox(w) ==
    /\ At(w, "round")
    /\ Become(w, [worker[w] EXCEPT !.pc = "drained", !.taken = worker[w].inbox, !.inbox = {}])
    /\ UNCHANGED <<process, log, told, begun>>

\* ... then injectHandoff and setHistory, in sections of their own.  The history
\* becomes the conversation of the run, which holds what a tool returned and not
\* the receipt finishTool appended.
SetHistory(w) ==
    /\ At(w, "drained")
    /\ Become(w, [worker[w] EXCEPT
                     !.pc = "model", !.read = worker[w].read \/ worker[w].requested,
                     !.history = worker[w].history \cup worker[w].taken, !.taken = {},
                     !.calls = [c \in Calls |-> IF worker[w].calls[c] = "unknown" THEN "failed"
                                                ELSE worker[w].calls[c]]])
    /\ UNCHANGED <<process, log, told, begun>>

\* AfterModelRewriteState: the reply with its tool call enters the history.
AskForTool(w, c) ==
    /\ At(w, "model")
    /\ worker[w].calls[c] = "none"
    /\ Become(w, [worker[w] EXCEPT !.pc = "asked", !.calls = Verdict(w, c, "open")])
    /\ UNCHANGED <<process, log, told, begun>>

\* mutant: a tool is admitted during the handoff.
BeginToolAnyway(w, c) ==
    /\ At(w, "asked")
    /\ worker[w].calls[c] = "open"
    /\ Become(w, [worker[w] EXCEPT !.pc = "tool"])
    /\ begun' = [begun EXCEPT ![w] = @ \cup {c}]
    /\ UNCHANGED <<process, log, told>>

\* beginWorkerTool, under Registry.mu: noted as in flight before the tool starts,
\* or refused.
BeginTool(w, c) ==
    /\ At(w, "asked")
    /\ worker[w].calls[c] = "open"
    /\ IF Frozen
       THEN /\ Become(w, [worker[w] EXCEPT !.pc = "round", !.unsent = worker[w].unsent \cup {c},
                                           !.calls = Verdict(w, c, "refused")])
            /\ UNCHANGED begun
       ELSE /\ Become(w, [worker[w] EXCEPT !.pc = "tool", !.inFlight = worker[w].inFlight \cup {c}])
            /\ begun' = [begun EXCEPT ![w] = @ \cup {c}]
    /\ UNCHANGED <<process, log, told>>

\* finishTool.  A tool that ends after its run was cancelled counts as failed
\* whatever it returned, and a call that failed stays noted as in flight.  The run
\* goes on when the tool itself returned no error.
FinishTool(w, c, ok) ==
    /\ At(w, "tool")
    /\ worker[w].calls[c] = "open"
    /\ ok => ~worker[w].cancelled
    /\ \E next \in IF ok THEN {"round"} ELSE IF worker[w].cancelled THEN {"round", "failing"}
                                             ELSE {"failing"} :
         Become(w, [worker[w] EXCEPT
                     !.pc = next, !.unsent = worker[w].unsent \cup {c},
                     !.calls = Verdict(w, c, IF ok THEN "ok"
                                             ELSE IF worker[w].requested THEN "unknown" ELSE "failed"),
                     !.inFlight = IF ok THEN worker[w].inFlight \ {c} ELSE worker[w].inFlight])
    /\ UNCHANGED <<process, log, told, begun>>

\* The reader of the run's events records the result: checkpointToolResult covers up
\* what an interrupted tool returned.
EmitResult(w, c) ==
    /\ Up /\ c \in worker[w].unsent
    /\ Become(w, [worker[w] EXCEPT !.unsent = worker[w].unsent \ {c}])
    /\ log' = [log EXCEPT !.after.results[w][c] =
                 IF worker[w].requested /\ c \in worker[w].inFlight THEN "unknown"
                 ELSE IF worker[w].calls[c] = "unknown" THEN "failed" ELSE worker[w].calls[c]]
    /\ UNCHANGED <<process, told, begun>>

\* A run ends with the reply of the model, or with an error anywhere; the results of
\* its tools come before its end.
Ends(w, failed) ==
    /\ Up /\ worker[w].unsent = {}
    /\ worker[w].pc \in IF failed THEN {"round", "model", "failing"} ELSE {"model"}

\* completeWorker: a life that was stopped for the handoff, or that answers after
\* it has read the handoff instruction, is paused and not completed.
Complete(w, failed) ==
    /\ Ends(w, failed)
    /\ Become(w, [worker[w] EXCEPT !.pc = "completed",
                     !.err = CASE worker[w].cancelled \/ (worker[w].read /\ ~failed) -> "handoff"
                               [] ~worker[w].cancelled /\ failed -> "error"
                               [] OTHER -> "result"])
    /\ UNCHANGED <<process, log, told, begun>>

\* The finish hook of startWorker: a durable receipt, except for a pause.
Report(w) ==
    /\ At(w, "completed")
    /\ Become(w, [worker[w] EXCEPT !.pc = "reported"])
    /\ log' = IF worker[w].err = "handoff" THEN log
              ELSE [log EXCEPT !.after.finished[w] = worker[w].err]
    /\ UNCHANGED <<process, told, begun>>

\* finishAgent: the leftover inbox is drained ...
EmptyInbox(w) ==
    /\ At(w, "reported")
    /\ Become(w, [worker[w] EXCEPT !.pc = "emptied", !.taken = worker[w].inbox, !.inbox = {}])
    /\ UNCHANGED <<process, log, told, begun>>

\* ... kept as undelivered (which a checkpoint lists with the inbox), and the done
\* channel is closed.
CloseDone(w) ==
    /\ At(w, "emptied")
    /\ Become(w, [worker[w] EXCEPT !.pc = "done", !.taken = {},
                                   !.inbox = worker[w].inbox \cup worker[w].taken])
    /\ UNCHANGED <<process, log, told, begun>>

\* send_message, from the manager or a worker whose run is still there.
Send(w, m) ==
    /\ Up
    /\ worker[w].pc # "done" /\ m \notin told[w]
    /\ Become(w, [worker[w] EXCEPT !.inbox = worker[w].inbox \cup {m}])
    /\ told' = [told EXCEPT ![w] = @ \cup {m}]
    /\ UNCHANGED <<process, log, begun>>

-----------------------------------------------------------------------------
\* prepareRestart, for one conversation.

memory == <<told, begun>>

\* restartTargets ends in BeginHandoff, one section of Registry.mu.
BeginHandoff ==
    /\ host = "serving"
    /\ host' = "frozen"
    /\ worker' = [w \in Workers |-> [worker[w] EXCEPT !.requested = ~Finished(w)]]
    /\ UNCHANGED <<expired, saved, stopped, log, restored, memory>>

\* checkpointLocked: the result of a call still noted as in flight is not trusted.
SafeCalls(w) == [c \in Calls |->
    IF worker[w].requested /\ c \in worker[w].inFlight /\ worker[w].calls[c] # "open"
    THEN "unknown" ELSE worker[w].calls[c]]

\* mutant: a paused worker is saved as finished.
CheckpointPaused(w) ==
    [finished |-> Finished(w), err |-> worker[w].err, history |-> worker[w].history,
     inbox |-> worker[w].inbox, calls |-> SafeCalls(w), sent |-> told[w]]

\* mutant: the unread inbox is left out.
CheckpointUnread(w) ==
    [finished |-> Finished(w) /\ worker[w].err # "handoff", err |-> worker[w].err,
     history |-> worker[w].history, inbox |-> {}, calls |-> SafeCalls(w), sent |-> told[w]]

\* The snapshot of one handle, and (for the properties) what it had been sent by then.
CheckpointOf(w) ==
    [finished |-> Finished(w) /\ worker[w].err # "handoff", err |-> worker[w].err,
     history |-> worker[w].history, inbox |-> worker[w].inbox, calls |-> SafeCalls(w),
     sent |-> told[w]]

AllSaved == \A w \in Workers : saved[w] # Nil

\* SnapshotWorkers, before the wait and after it: one handle at a time.
Snapshot(w) ==
    /\ host \in {"frozen", "collecting"}
    /\ saved[w] = Nil
    /\ saved' = [saved EXCEPT ![w] = CheckpointOf(w)]
    /\ UNCHANGED <<worker, host, expired, stopped, log, restored, memory>>

\* A checkpoint makes the receipts before it irrelevant.
WithCheckpoint(final) == [checkpoint |-> saved, final |-> final, after |-> NoReceipts]

\* The initial checkpoint; a failed write is only logged.  The managers are then
\* cancelled and PrepareRestart is called.
WriteInitial ==
    /\ host = "frozen" /\ AllSaved
    /\ host' = "waiting"
    /\ saved' = NoCheckpoint
    /\ \/ log' = WithCheckpoint(FALSE)
       \/ log' = log
    /\ UNCHANGED <<worker, expired, stopped, restored, memory>>

AllSettled ==
    /\ host = "waiting"
    /\ \A w \in Workers : worker[w].pc = "done"
    /\ host' = "collecting"
    /\ UNCHANGED <<worker, expired, saved, stopped, log, restored, memory>>

\* mutant: the wait for a worker does not watch the deadline.
DeadlinePatient ==
    /\ host = "waiting"
    /\ \A w \in Workers : worker[w].pc = "done"
    /\ host' = "stopping"
    /\ expired' = TRUE
    /\ UNCHANGED <<worker, saved, stopped, log, restored, memory>>

\* mutant: the workers are saved first and stopped by the exit.
DeadlineUnstopped ==
    /\ host = "waiting"
    /\ host' = "collecting"
    /\ expired' = TRUE
    /\ UNCHANGED <<worker, saved, stopped, log, restored, memory>>

Deadline ==
    /\ host = "waiting"
    /\ host' = "stopping"
    /\ expired' = TRUE
    /\ UNCHANGED <<worker, saved, stopped, log, restored, memory>>

\* stopForHandoff, one handle at a time.
StopWorker(w) ==
    /\ host = "stopping"
    /\ w \notin stopped
    /\ stopped' = stopped \cup {w}
    /\ worker' = [worker EXCEPT ![w].cancelled = ~Finished(w)]
    /\ UNCHANGED <<host, expired, saved, log, restored, memory>>

AllStopped ==
    /\ host = "stopping"
    /\ stopped = Workers
    /\ host' = "collecting"
    /\ UNCHANGED <<worker, expired, saved, stopped, log, restored, memory>>

\* The final checkpoint has to be durable before the engine reports that it is ready.
WriteFinal ==
    /\ host = "collecting" /\ AllSaved
    /\ \/ host' = "ready" /\ log' = WithCheckpoint(TRUE)
       \/ host' = "failed" /\ log' = log
    /\ UNCHANGED <<worker, expired, saved, stopped, restored, memory>>

\* A second PrepareRestart writes the retained snapshots.
Retry ==
    /\ host = "failed"
    /\ host' = "collecting"
    /\ UNCHANGED <<worker, expired, saved, stopped, log, restored, memory>>

\* The old process is gone: stopped once it is ready, or at any point before.
Leave ==
    /\ Up
    /\ host' = "down"
    /\ UNCHANGED <<worker, expired, saved, stopped, log, restored, memory>>

-----------------------------------------------------------------------------
\* orphanedWorkersFromCheckpoint and Restore, in the next process.

\* restoredWorkerMessages: what the checkpoint leaves open is answered by a later
\* receipt, or sealed.
Recovered(w, c) ==
    LET saidThen == log.checkpoint[w].calls[c]
        saidLater == log.after.results[w][c]
    IN  IF saidThen # "open" THEN saidThen ELSE IF saidLater # "none" THEN saidLater ELSE "unknown"

\* A later receipt ends a worker the checkpoint has running.  Without a checkpoint
\* there are only receipts, here without the conversation.
Restored(w) ==
    LET base == IF log.checkpoint[w] = Nil
                THEN [finished |-> FALSE, err |-> "none", history |-> {}, inbox |-> {},
                      calls |-> [c \in Calls |-> "none"], sent |-> {}]
                ELSE [log.checkpoint[w] EXCEPT !.calls = [c \in Calls |-> Recovered(w, c)]]
    IN  IF log.after.finished[w] # "none"
        THEN [base EXCEPT !.finished = TRUE, !.err = log.after.finished[w]]
        ELSE base

Recover ==
    /\ host = "down"
    /\ host' = "up"
    /\ restored' = [w \in Workers |-> Restored(w)]
    /\ UNCHANGED <<worker, expired, saved, stopped, log, memory>>

-----------------------------------------------------------------------------

WorkerStep(w) == \/ DrainInbox(w) \/ SetHistory(w) \/ Report(w) \/ EmptyInbox(w) \/ CloseDone(w)
                 \/ \E c \in Calls : AskForTool(w, c) \/ BeginTool(w, c) \/ EmitResult(w, c)
                 \/ \E c \in Calls, ok \in BOOLEAN : FinishTool(w, c, ok)
                 \/ \E failed \in BOOLEAN : Complete(w, failed)
                 \/ \E m \in Messages : Send(w, m)

HostStep == \/ WriteInitial \/ AllSettled \/ AllStopped \/ WriteFinal
            \/ \E w \in Workers : Snapshot(w) \/ StopWorker(w)

Next == \/ \E w \in Workers : WorkerStep(w)
        \/ BeginHandoff \/ HostStep \/ Deadline \/ Retry \/ Leave \/ Recover

Spec == Init /\ [][Next]_vars

\* The goroutine of prepareRestart goes on, and its timer fires.
FairSpec == Spec /\ WF_vars(HostStep) /\ WF_vars(Deadline)

-----------------------------------------------------------------------------

Outcomes == {"none", "result", "error", "handoff"}

WorkerRows == [pc : Places, requested : BOOLEAN, read : BOOLEAN, cancelled : BOOLEAN,
               inbox : SUBSET Messages, taken : SUBSET Messages, history : SUBSET Messages,
               calls : [Calls -> Verdicts], inFlight : SUBSET Calls, unsent : SUBSET Calls,
               err : Outcomes]

Checkpoints == [finished : BOOLEAN, err : Outcomes, history : SUBSET Messages,
                inbox : SUBSET Messages, calls : [Calls -> Verdicts], sent : SUBSET Messages]

Receipts == [finished : [Workers -> {"none", "result", "error"}],
             results : [Workers -> [Calls -> Verdicts]]]

\* Every variable keeps its type, and a worker has an outcome exactly when its life
\* has ended (completeWorker).
TypeOK ==
    /\ worker \in [Workers -> WorkerRows]
    /\ \A w \in Workers : Finished(w) <=> worker[w].err # "none"
    /\ host \in {"serving", "frozen", "waiting", "stopping", "collecting", "ready", "failed",
                 "down", "up"}
    /\ expired \in BOOLEAN
    /\ saved \in [Workers -> Checkpoints \cup {Nil}]
    /\ stopped \subseteq Workers
    /\ log \in [checkpoint : [Workers -> Checkpoints \cup {Nil}], final : BOOLEAN,
                after : Receipts]
    /\ restored \in [Workers -> Checkpoints \cup {Nil}]
    /\ told \in [Workers -> SUBSET Messages]
    /\ begun \in [Workers -> SUBSET Calls]

ReRun(w) == host = "up" /\ ~restored[w].finished

\* A worker that is re-run from a checkpoint is told of every tool it had started: either
\* the tool really succeeded, or its outcome is unknown and has to be verified.  The
\* freeze comes before the first snapshot, and a failed tool stays in flight.
EffectsAccounted ==
    \A w \in Workers : ReRun(w) /\ log.checkpoint[w] # Nil =>
        \A c \in begun[w] : \/ restored[w].calls[c] = "unknown"
                            \/ restored[w].calls[c] = "ok" /\ worker[w].calls[c] = "ok"

\* A worker comes back as finished only when its life really ended: a pause for the
\* handoff is never taken for completion, and no result is made up.
FinishedIsReal ==
    \A w \in Workers : host = "up" /\ restored[w].finished =>
        worker[w].err \in {"result", "error"} /\ restored[w].err = worker[w].err

\* Once the final checkpoint is durable no worker with a result of its own is re-run,
\* although workers may still be ending while it is taken and written.
ReadyKeepsFinished ==
    \A w \in Workers : ReRun(w) /\ log.final => worker[w].err \in {"none", "handoff"}

\* When every worker settled within the deadline, a re-run worker has every message
\* whose sender was told that it was delivered.
SteeringKeptWhenSettled ==
    \A w \in Workers : ReRun(w) /\ log.final /\ ~expired =>
        told[w] \subseteq restored[w].history \cup restored[w].inbox

\* prepareRestart comes to an end whatever the workers do.
HandoffEnds == host = "frozen" ~> host \in {"ready", "failed", "down", "up"}

\* ARCHITECTURE.md: "Recovery retains worker identities, finished results": a worker whose
\* finish was recorded is not run again.
FinishedNotRerun ==
    \A w \in Workers : ReRun(w) => worker[w].pc \in Running \cup {"completed"}
                                   \/ worker[w].err = "handoff"

\* docs/LIBRARY.md: "WorkerCheckpoint keeps original task/instruction, structured history,
\* unread inbox": a re-run worker has every message it was sent before its snapshot.
SteeringSurvives ==
    \A w \in Workers : ReRun(w) /\ log.checkpoint[w] # Nil =>
        log.checkpoint[w].sent \subseteq restored[w].history \cup restored[w].inbox

=============================================================================
