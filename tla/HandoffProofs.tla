--------------------------- MODULE HandoffProofs ---------------------------
(***************************************************************************)
(* The restart handoff for any number of workers, messages and tool calls.   *)
(***************************************************************************)
EXTENDS Handoff, TLAPS

\* What a run knows of itself: one call is open at a time, a call that was begun
\* and did not succeed is noted as in flight, and a message told to be delivered
\* is on the way into the history.
RunOK(x, started, sent) ==
    /\ x \in WorkerRows
    /\ x.pc \notin Running <=> x.err # "none"
    /\ \A c, d \in Calls : x.calls[c] = "open" /\ x.calls[d] = "open" => c = d
    /\ \A c \in Calls : x.calls[c] = "open" => x.pc \in {"asked", "tool"}
    /\ \A c \in started : /\ x.calls[c] \in {"open", "ok", "failed", "unknown"}
                          /\ x.calls[c] # "ok" => c \in x.inFlight
                          /\ x.calls[c] = "open" => x.pc = "tool"
    /\ sent \subseteq x.history \cup x.inbox \cup x.taken
    /\ x.pc \notin {"drained", "emptied"} => x.taken = {}

RunsOK == \A w \in Workers : RunOK(worker[w], begun[w], told[w])

\* The freeze asks every worker that has not finished, and nobody is paused before.
Asked ==
    \A w \in Workers :
        IF host = "serving"
        THEN ~worker[w].requested /\ ~worker[w].cancelled /\ ~worker[w].read
             /\ worker[w].err # "handoff"
        ELSE ~Up \/ worker[w].requested \/ worker[w].err \in {"result", "error"}

\* A snapshot, taken after the freeze, calls a worker finished with its real result,
\* and accounts for every call another one had begun.
Truthful(w, k) ==
    k # Nil =>
        /\ host # "serving"
        /\ k.finished => k.err \in {"result", "error"} /\ worker[w].err = k.err
        /\ ~k.finished =>
             /\ worker[w].requested
             /\ \A c \in begun[w] : \/ k.calls[c] \in {"open", "unknown"}
                                    \/ k.calls[c] = "ok" /\ worker[w].calls[c] = "ok"

Snapshots == \A w \in Workers : Truthful(w, saved[w]) /\ Truthful(w, log.checkpoint[w])

\* So do the receipts after it.
ReceiptsOK ==
    \A w \in Workers :
        /\ log.after.finished[w] # "none" => log.after.finished[w] = worker[w].err
        /\ log.checkpoint[w] # Nil /\ ~log.checkpoint[w].finished =>
             \A c \in begun[w] : \/ log.after.results[w][c] \in {"none", "unknown"}
                                 \/ /\ log.after.results[w][c] = "ok"
                                    /\ worker[w].calls[c] = "ok"

\* When the workers are collected, each has ended or is stopped, and each has ended
\* unless the deadline passed.
Settled ==
    /\ host \in {"waiting", "stopping"} => saved = NoCheckpoint
    /\ host = "stopping" => expired
    /\ \A w \in stopped : worker[w].err # "none" \/ worker[w].cancelled
    /\ host \in {"collecting", "ready", "failed"} =>
         \A w \in Workers : /\ worker[w].err # "none" \/ worker[w].cancelled
                            /\ expired \/ worker[w].pc = "done"

\* What a snapshot of a collected worker says.
Collected(w, k) ==
    /\ k.finished \/ worker[w].err = "handoff"
                  \/ (worker[w].err = "none" /\ worker[w].cancelled)
    /\ expired \/ told[w] \subseteq k.history \cup k.inbox

Collection ==
    host \in {"collecting", "ready", "failed"} =>
        \A w \in Workers : saved[w] # Nil => Collected(w, saved[w])

Final ==
    log.final => /\ host \in {"ready", "down", "up"}
                 /\ \A w \in Workers : log.checkpoint[w] # Nil /\ Collected(w, log.checkpoint[w])

AsRestored == host = "up" => restored = [w \in Workers |-> Restored(w)]

IInv == /\ TypeOK /\ RunsOK /\ Asked /\ Snapshots /\ ReceiptsOK
        /\ Settled /\ Collection /\ Final /\ AsRestored

-----------------------------------------------------------------------------
LEMMA InitInv == Init => IInv
<1> SUFFICES ASSUME Init PROVE IInv
  OBVIOUS
<1>1. ASSUME NEW w \in Workers
      PROVE  /\ worker[w] \in WorkerRows /\ worker[w].pc = "round" /\ worker[w].err = "none"
             /\ worker[w].taken = {} /\ \A c \in Calls : worker[w].calls[c] = "none"
             /\ ~worker[w].requested /\ ~worker[w].cancelled /\ ~worker[w].read
  BY DEF Init, WorkerRows, Places, Running, Outcomes, Verdicts
<1>2. \A w \in Workers : /\ begun[w] = {} /\ told[w] = {} /\ saved[w] = Nil
                         /\ log.checkpoint[w] = Nil /\ log.after.finished[w] = "none"
  BY DEF Init, NoCheckpoint, NoReceipts
<1>3. /\ log \in [checkpoint : [Workers -> Checkpoints \cup {Nil}], final : BOOLEAN, after : Receipts]
      /\ ~log.final /\ host = "serving" /\ stopped = {}
  BY DEF Init, NoCheckpoint, NoReceipts, Receipts, Verdicts
<1>4. /\ worker \in [Workers -> WorkerRows]
      /\ told \in [Workers -> SUBSET Messages] /\ begun \in [Workers -> SUBSET Calls]
      /\ saved \in [Workers -> Checkpoints \cup {Nil}] /\ restored \in [Workers -> Checkpoints \cup {Nil}]
  BY <1>1, Zenon DEF Init, NoCheckpoint
<1>5. TypeOK
  BY <1>1, <1>3, <1>4 DEF Init, TypeOK, Finished, Running
<1>6. RunsOK
  BY <1>1, <1>2 DEF RunsOK, RunOK, Running
<1>7. Asked /\ Snapshots /\ ReceiptsOK
  BY <1>1, <1>2, <1>3 DEF Asked, Snapshots, Truthful, ReceiptsOK
<1>8. Settled /\ Collection /\ Final /\ AsRestored
  BY <1>3 DEF Settled, Collection, Final, AsRestored
<1> QED
  BY <1>5, <1>6, <1>7, <1>8 DEF IInv

\* What no step of a run undoes.
Follows(x, y) ==
    /\ y.requested = x.requested /\ y.cancelled = x.cancelled
    /\ y.read => x.read \/ x.requested
    /\ x.err # "none" => y.err = x.err
    /\ y.err = "handoff" => x.err = "handoff" \/ x.cancelled \/ x.read
    /\ x.err = "none" /\ x.cancelled => y.err \in {"none", "handoff"}
    /\ x.pc = "done" => y.pc = "done"
    /\ \A c \in Calls : x.calls[c] = "ok" => y.calls[c] = "ok"

\* What a run may add to the log.
Logs(w) ==
    \/ log' = log
    \/ /\ worker[w].err \in {"result", "error"}
       /\ log' = [log EXCEPT !.after.finished[w] = worker[w].err]
    \/ \E c \in Calls, v \in Verdicts :
          /\ log' = [log EXCEPT !.after.results[w][c] = v]
          /\ worker[w].requested /\ c \in begun[w] =>
               v = "unknown" \/ (v = "ok" /\ worker[w].calls[c] = "ok")

\* A step of one run keeps everything when the run keeps what it knows of itself.
LEMMA RunStep ==
    ASSUME IInv, Up, NEW w \in Workers, NEW y \in WorkerRows, Become(w, y),
           RunOK(y, begun'[w], told'[w]), Follows(worker[w], y), Logs(w),
           UNCHANGED <<host, expired, saved, stopped, restored>>,
           begun' \in [Workers -> SUBSET Calls], told' \in [Workers -> SUBSET Messages],
           \A v \in Workers : v # w => begun'[v] = begun[v] /\ told'[v] = told[v],
           begun' = begun \/ host = "serving",
           told' = told \/ worker[w].pc # "done"
    PROVE  IInv'
<1>0. /\ worker' \in [Workers -> WorkerRows] /\ worker'[w] = y
      /\ \A v \in Workers : v # w => worker'[v] = worker[v]
      /\ worker[w] \in WorkerRows
  BY DEF IInv, TypeOK, Become
<1>1. /\ log' \in [checkpoint : [Workers -> Checkpoints \cup {Nil}], final : BOOLEAN, after : Receipts]
      /\ log'.checkpoint = log.checkpoint /\ log'.final = log.final
      /\ \A v \in Workers : log'.after.finished[v] = log.after.finished[v]
                             \/ (log'.after.finished[v] = worker[v].err /\ worker[v].err # "none")
      /\ \A v \in Workers, c \in Calls :
            \/ log'.after.results[v][c] = log.after.results[v][c]
            \/ worker[v].requested /\ c \in begun[v] =>
                 \/ log'.after.results[v][c] = "unknown"
                 \/ log'.after.results[v][c] = "ok" /\ worker[v].calls[c] = "ok"
  <2>0. /\ log \in [checkpoint : [Workers -> Checkpoints \cup {Nil}], final : BOOLEAN, after : Receipts]
        /\ log.after \in Receipts
    BY DEF IInv, TypeOK
  <2>1. CASE log' = log
    BY <2>0, <2>1
  <2>2. CASE /\ worker[w].err \in {"result", "error"}
             /\ log' = [log EXCEPT !.after.finished[w] = worker[w].err]
    BY <2>0, <2>2 DEF Receipts
  <2>3. ASSUME NEW c \in Calls, NEW v \in Verdicts,
               log' = [log EXCEPT !.after.results[w][c] = v],
               worker[w].requested /\ c \in begun[w] =>
                 v = "unknown" \/ (v = "ok" /\ worker[w].calls[c] = "ok")
        PROVE  <1>1!1 /\ <1>1!2 /\ <1>1!3 /\ <1>1!4
    BY <2>0, <2>3 DEF Receipts
  <2> QED
    BY <2>1, <2>2, <2>3 DEF Logs
<1>2. TypeOK'
  BY <1>0, <1>1 DEF IInv, TypeOK, RunOK, Finished, RunsOK
<1>3. RunsOK'
  BY <1>0 DEF IInv, RunsOK
<1>4. Asked'
  BY <1>0 DEF IInv, Asked, Follows, Up
<1>5. ASSUME NEW v \in Workers, NEW k \in Checkpoints \cup {Nil}, Truthful(v, k)
      PROVE  Truthful(v, k)'
  BY <1>0, <1>5 DEF Truthful, Follows
<1>6. Snapshots'
  BY <1>1, <1>5 DEF IInv, Snapshots, TypeOK
<1>7. ReceiptsOK'
  BY <1>0, <1>1 DEF IInv, ReceiptsOK, Follows, Snapshots, Truthful
<1>8. Settled'
  BY <1>0 DEF IInv, Settled, Follows, TypeOK
<1>9. ASSUME NEW v \in Workers, NEW k \in Checkpoints \cup {Nil}, Collected(v, k),
             expired \/ told' = told
      PROVE  Collected(v, k)'
  BY <1>0, <1>9 DEF Collected, Follows
<1>10. host \in {"collecting", "ready", "failed"} => expired \/ told' = told
  BY DEF IInv, Settled
<1>11. Collection'
  BY <1>9, <1>10 DEF IInv, Collection, TypeOK
<1>12. Final'
  BY <1>1, <1>9, <1>10 DEF IInv, Final, Up, TypeOK
<1>13. AsRestored'
  BY DEF AsRestored, Up
<1> QED
  BY <1>2, <1>3, <1>4, <1>6, <1>7, <1>8, <1>11, <1>12, <1>13 DEF IInv

\* A step that touches the worker alone.
LEMMA QuietStep ==
    ASSUME IInv, Up, NEW w \in Workers, NEW y, Become(w, y), RunOK(y, begun[w], told[w]),
           Follows(worker[w], y), UNCHANGED <<process, log, told, begun>>
    PROVE  IInv'
<1>1. y \in WorkerRows /\ Logs(w) /\ UNCHANGED <<host, expired, saved, stopped, restored>>
  BY DEF RunOK, Logs, process
<1>2. begun \in [Workers -> SUBSET Calls] /\ told \in [Workers -> SUBSET Messages]
  BY DEF IInv, TypeOK
<1> QED
  BY <1>1, <1>2, RunStep

LEMMA RunFacts ==
    ASSUME IInv, NEW w \in Workers
    PROVE  /\ RunOK(worker[w], begun[w], told[w]) /\ worker[w] \in WorkerRows
           /\ begun[w] \subseteq Calls /\ told[w] \subseteq Messages
BY DEF IInv, RunsOK, RunOK, TypeOK

\* The steps between two tools, and those of finishAgent.
LEMMA RoundStep ==
    ASSUME IInv, NEW w \in Workers,
           \/ DrainInbox(w) \/ SetHistory(w) \/ EmptyInbox(w) \/ CloseDone(w)
           \/ \E c \in Calls : AskForTool(w, c)
    PROVE  IInv'
<1>0. RunOK(worker[w], begun[w], told[w]) /\ worker[w] \in WorkerRows /\ begun[w] \subseteq Calls
  BY RunFacts
<1>1. CASE DrainInbox(w)
  <2> DEFINE y == [worker[w] EXCEPT !.pc = "drained", !.taken = worker[w].inbox, !.inbox = {}]
  <2>1. RunOK(y, begun[w], told[w]) /\ Follows(worker[w], y)
    BY <1>0, <1>1 DEF DrainInbox, At, RunOK, Follows, WorkerRows, Places, Running
  <2> QED
    BY <1>1, <2>1, QuietStep DEF DrainInbox, At
<1>2. CASE SetHistory(w)
  <2> DEFINE y == [worker[w] EXCEPT
                     !.pc = "model", !.read = worker[w].read \/ worker[w].requested,
                     !.history = worker[w].history \cup worker[w].taken, !.taken = {},
                     !.calls = [c \in Calls |-> IF worker[w].calls[c] = "unknown" THEN "failed"
                                                ELSE worker[w].calls[c]]]
  <2>1. RunOK(y, begun[w], told[w]) /\ Follows(worker[w], y)
    BY <1>0, <1>2 DEF SetHistory, At, RunOK, Follows, WorkerRows, Places, Running, Verdicts
  <2> QED
    BY <1>2, <2>1, QuietStep DEF SetHistory, At
<1>3. CASE EmptyInbox(w)
  <2> DEFINE y == [worker[w] EXCEPT !.pc = "emptied", !.taken = worker[w].inbox, !.inbox = {}]
  <2>1. RunOK(y, begun[w], told[w]) /\ Follows(worker[w], y)
    BY <1>0, <1>3 DEF EmptyInbox, At, RunOK, Follows, WorkerRows, Places, Running
  <2> QED
    BY <1>3, <2>1, QuietStep DEF EmptyInbox, At
<1>4. CASE CloseDone(w)
  <2> DEFINE y == [worker[w] EXCEPT !.pc = "done", !.taken = {},
                                    !.inbox = worker[w].inbox \cup worker[w].taken]
  <2>1. RunOK(y, begun[w], told[w]) /\ Follows(worker[w], y)
    BY <1>0, <1>4 DEF CloseDone, At, RunOK, Follows, WorkerRows, Places, Running
  <2> QED
    BY <1>4, <2>1, QuietStep DEF CloseDone, At
<1>5. ASSUME NEW c \in Calls, AskForTool(w, c) PROVE IInv'
  <2> DEFINE y == [worker[w] EXCEPT !.pc = "asked", !.calls = Verdict(w, c, "open")]
  <2>1. RunOK(y, begun[w], told[w]) /\ Follows(worker[w], y)
    BY <1>0, <1>5 DEF AskForTool, At, Verdict, RunOK, Follows, WorkerRows, Places, Running, Verdicts
  <2> QED
    BY <1>5, <2>1, QuietStep DEF AskForTool, At
<1> QED
  BY <1>1, <1>2, <1>3, <1>4, <1>5

\* A tool: admitted or refused, ended, its result recorded.
LEMMA ToolStep ==
    ASSUME IInv, NEW w \in Workers, NEW c \in Calls, NEW ok \in BOOLEAN,
           BeginTool(w, c) \/ FinishTool(w, c, ok) \/ EmitResult(w, c)
    PROVE  IInv'
<1>0. RunOK(worker[w], begun[w], told[w]) /\ worker[w] \in WorkerRows /\ begun[w] \subseteq Calls
  BY RunFacts
<1>1. CASE BeginTool(w, c) /\ Frozen
  <2> DEFINE y == [worker[w] EXCEPT !.pc = "round", !.unsent = worker[w].unsent \cup {c},
                                    !.calls = Verdict(w, c, "refused")]
  <2>1. RunOK(y, begun[w], told[w]) /\ Follows(worker[w], y)
    BY <1>0, <1>1 DEF BeginTool, At, Verdict, RunOK, Follows, WorkerRows, Places, Running, Verdicts
  <2> QED
    BY <1>1, <2>1, QuietStep DEF BeginTool, At
<1>2. CASE BeginTool(w, c) /\ ~Frozen
  <2> DEFINE y == [worker[w] EXCEPT !.pc = "tool", !.inFlight = worker[w].inFlight \cup {c}]
  <2>1. /\ begun' = [begun EXCEPT ![w] = @ \cup {c}] /\ Become(w, y) /\ host = "serving" /\ Up
        /\ UNCHANGED <<host, expired, saved, stopped, restored, log, told>>
        /\ worker[w].pc = "asked" /\ worker[w].calls[c] = "open"
    BY <1>2 DEF BeginTool, At, Frozen, process
  <2>2. /\ begun' \in [Workers -> SUBSET Calls] /\ begun'[w] = begun[w] \cup {c}
        /\ \A v \in Workers : v # w => begun'[v] = begun[v]
        /\ told' \in [Workers -> SUBSET Messages]
    BY <2>1 DEF IInv, TypeOK
  <2>3. /\ y \in WorkerRows /\ y.pc = "tool" /\ y.inFlight = worker[w].inFlight \cup {c}
        /\ y.calls = worker[w].calls /\ y.err = worker[w].err /\ y.taken = worker[w].taken
        /\ y.history = worker[w].history /\ y.inbox = worker[w].inbox
    BY <1>0 DEF WorkerRows, Places, Running
  <2>4. RunOK(y, begun[w] \cup {c}, told[w])
    <3> HIDE DEF y
    <3> QED
      BY <1>0, <2>1, <2>3 DEF RunOK, Running
  <2>5. Follows(worker[w], y) /\ Logs(w) /\ RunOK(y, begun'[w], told'[w])
    BY <1>0, <2>1, <2>2, <2>4 DEF Follows, WorkerRows, Logs
  <2> QED
    BY <2>1, <2>2, <2>3, <2>5, RunStep
<1>3. CASE FinishTool(w, c, ok)
  <2>1. PICK next \in {"round", "failing"} :
          Become(w, [worker[w] EXCEPT
                     !.pc = next, !.unsent = worker[w].unsent \cup {c},
                     !.calls = Verdict(w, c, IF ok THEN "ok"
                                             ELSE IF worker[w].requested THEN "unknown" ELSE "failed"),
                     !.inFlight = IF ok THEN worker[w].inFlight \ {c} ELSE worker[w].inFlight])
    BY <1>3 DEF FinishTool
  <2> DEFINE y == [worker[w] EXCEPT
                     !.pc = next, !.unsent = worker[w].unsent \cup {c},
                     !.calls = Verdict(w, c, IF ok THEN "ok"
                                             ELSE IF worker[w].requested THEN "unknown" ELSE "failed"),
                     !.inFlight = IF ok THEN worker[w].inFlight \ {c} ELSE worker[w].inFlight]
  <2>2. RunOK(y, begun[w], told[w]) /\ Follows(worker[w], y)
    BY <1>0, <1>3 DEF FinishTool, At, Verdict, RunOK, Follows, WorkerRows, Places, Running, Verdicts
  <2> QED
    BY <1>3, <2>1, <2>2, QuietStep DEF FinishTool, At
<1>4. CASE EmitResult(w, c)
  <2> DEFINE y == [worker[w] EXCEPT !.unsent = worker[w].unsent \ {c}]
             v == IF worker[w].requested /\ c \in worker[w].inFlight THEN "unknown"
                  ELSE IF worker[w].calls[c] = "unknown" THEN "failed" ELSE worker[w].calls[c]
  <2>1. /\ Become(w, y) /\ Up /\ log' = [log EXCEPT !.after.results[w][c] = v]
        /\ UNCHANGED <<host, expired, saved, stopped, restored, told, begun>>
    BY <1>4 DEF EmitResult, process
  <2>2. RunOK(y, begun[w], told[w]) /\ Follows(worker[w], y) /\ y \in WorkerRows
    BY <1>0 DEF RunOK, Follows, WorkerRows
  <2>3. v \in Verdicts /\ (worker[w].requested /\ c \in begun[w] =>
               v = "unknown" \/ (v = "ok" /\ worker[w].calls[c] = "ok"))
    BY <1>0 DEF RunOK, WorkerRows, Verdicts
  <2>4. Logs(w)
    BY <2>1, <2>3 DEF Logs
  <2>5. begun \in [Workers -> SUBSET Calls] /\ told \in [Workers -> SUBSET Messages]
    BY DEF IInv, TypeOK
  <2> QED
    BY <2>1, <2>2, <2>4, <2>5, RunStep
<1> QED
  BY <1>1, <1>2, <1>3, <1>4

\* The outcome, its receipt, and a message sent meanwhile.
LEMMA EndStep ==
    ASSUME IInv, NEW w \in Workers,
           \/ \E failed \in BOOLEAN : Complete(w, failed)
           \/ Report(w)
           \/ \E m \in Messages : Send(w, m)
    PROVE  IInv'
<1>0. /\ RunOK(worker[w], begun[w], told[w]) /\ worker[w] \in WorkerRows
      /\ begun \in [Workers -> SUBSET Calls] /\ told \in [Workers -> SUBSET Messages]
  BY RunFacts DEF IInv, TypeOK
<1>1. ASSUME NEW failed \in BOOLEAN, Complete(w, failed) PROVE IInv'
  <2> DEFINE e == CASE worker[w].cancelled \/ (worker[w].read /\ ~failed) -> "handoff"
                    [] ~worker[w].cancelled /\ failed -> "error"
                    [] OTHER -> "result"
             y == [worker[w] EXCEPT !.pc = "completed", !.err = e]
  <2>1. e \in {"handoff", "error", "result"} /\ (worker[w].cancelled => e = "handoff")
        /\ (e = "handoff" => worker[w].cancelled \/ worker[w].read)
    OBVIOUS
  <2>2. worker[w].pc \in {"round", "model", "failing"} /\ Up /\ Become(w, y)
        /\ UNCHANGED <<process, log, told, begun>>
    BY <1>1 DEF Complete, Ends
  <2>3. RunOK(y, begun[w], told[w]) /\ Follows(worker[w], y)
    <3> HIDE DEF e
    <3> QED
      BY <1>0, <2>1, <2>2 DEF RunOK, Follows, WorkerRows, Places, Running, Outcomes
  <2> QED
    BY <2>2, <2>3, QuietStep
<1>2. CASE Report(w)
  <2> DEFINE y == [worker[w] EXCEPT !.pc = "reported"]
  <2>1. /\ Become(w, y) /\ Up /\ worker[w].pc = "completed"
        /\ UNCHANGED <<host, expired, saved, stopped, restored, told, begun>>
    BY <1>2 DEF Report, At, process
  <2>2. RunOK(y, begun[w], told[w]) /\ Follows(worker[w], y) /\ y \in WorkerRows
    BY <1>0, <2>1 DEF RunOK, Follows, WorkerRows, Places, Running
  <2>3. worker[w].err \in {"result", "error", "handoff"}
    BY <1>0, <2>1 DEF RunOK, WorkerRows, Outcomes, Running
  <2>4. Logs(w)
    BY <1>2, <2>3 DEF Report, Logs
  <2> QED
    BY <1>0, <2>1, <2>2, <2>4, RunStep
<1>3. ASSUME NEW m \in Messages, Send(w, m) PROVE IInv'
  <2> DEFINE y == [worker[w] EXCEPT !.inbox = worker[w].inbox \cup {m}]
  <2>1. /\ Become(w, y) /\ Up /\ worker[w].pc # "done" /\ told' = [told EXCEPT ![w] = @ \cup {m}]
        /\ UNCHANGED <<host, expired, saved, stopped, restored, log, begun>>
    BY <1>3 DEF Send, process
  <2>2. /\ told' \in [Workers -> SUBSET Messages] /\ told'[w] = told[w] \cup {m}
        /\ \A v \in Workers : v # w => told'[v] = told[v]
    BY <1>0, <2>1
  <2>3. /\ RunOK(y, begun[w], told'[w]) /\ Follows(worker[w], y) /\ y \in WorkerRows
    BY <1>0, <2>1, <2>2 DEF RunOK, Follows, WorkerRows
  <2> QED
    BY <1>0, <2>1, <2>2, <2>3, RunStep DEF Logs
<1> QED
  BY <1>1, <1>2, <1>3

LEMMA WorkerKeeps == ASSUME IInv, NEW w \in Workers, WorkerStep(w) PROVE IInv'
BY RoundStep, ToolStep, EndStep DEF WorkerStep

-----------------------------------------------------------------------------
\* The host's steps.

\* A worker that is frozen is asked, unless its result is already there.
LEMMA FreezeStep == ASSUME IInv, BeginHandoff PROVE IInv'
<1>1. /\ host = "serving" /\ host' = "frozen"
      /\ \A w \in Workers : worker'[w] = [worker[w] EXCEPT !.requested = ~Finished(w)]
      /\ worker' = [w \in Workers |-> [worker[w] EXCEPT !.requested = ~Finished(w)]]
      /\ UNCHANGED <<expired, saved, stopped, log, restored, told, begun>>
  BY DEF BeginHandoff, memory
<1>2. ASSUME NEW w \in Workers
      PROVE  /\ RunOK(worker'[w], begun[w], told[w]) /\ worker'[w] \in WorkerRows
             /\ worker'[w].requested = ~Finished(w) /\ worker'[w].err = worker[w].err
             /\ worker'[w].pc = worker[w].pc /\ worker'[w].cancelled = worker[w].cancelled
             /\ worker'[w].calls = worker[w].calls
             /\ Finished(w) => worker[w].err \in {"result", "error"}
  <2>1. RunOK(worker[w], begun[w], told[w]) /\ worker[w] \in WorkerRows /\ worker[w].err # "handoff"
    BY <1>1, RunFacts DEF IInv, Asked
  <2>2. /\ worker'[w] \in WorkerRows
        /\ worker'[w].requested = ~Finished(w) /\ worker'[w].err = worker[w].err
        /\ worker'[w].pc = worker[w].pc /\ worker'[w].cancelled = worker[w].cancelled
        /\ worker'[w].calls = worker[w].calls /\ worker'[w].taken = worker[w].taken
        /\ worker'[w].history = worker[w].history /\ worker'[w].inbox = worker[w].inbox
        /\ worker'[w].inFlight = worker[w].inFlight
    BY <1>1, <2>1 DEF WorkerRows, Finished
  <2>3. RunOK(worker'[w], begun[w], told[w])
    BY <2>1, <2>2 DEF RunOK
  <2> QED
    BY <2>1, <2>2, <2>3 DEF RunOK, WorkerRows, Finished, Outcomes
<1>3. TypeOK'
  BY <1>1, <1>2 DEF IInv, TypeOK, Finished
<1>4. RunsOK' /\ Asked'
  BY <1>1, <1>2 DEF RunsOK, Asked
<1>5. \A w \in Workers : saved[w] = Nil /\ log.checkpoint[w] = Nil
  BY <1>1 DEF IInv, Snapshots, Truthful
<1>6. Snapshots' /\ ReceiptsOK'
  BY <1>1, <1>2, <1>5 DEF IInv, Snapshots, Truthful, ReceiptsOK
<1>7. Settled' /\ Collection' /\ Final' /\ AsRestored'
  BY <1>1, <1>2 DEF IInv, TypeOK, Settled, Collection, Final, AsRestored
<1> QED
  BY <1>3, <1>4, <1>6, <1>7 DEF IInv

\* What one snapshot of a handle holds.
LEMMA SnapshotTruthful ==
    ASSUME IInv, NEW w \in Workers, host \in {"frozen", "collecting"}
    PROVE  /\ CheckpointOf(w) \in Checkpoints
           /\ Truthful(w, CheckpointOf(w))
           /\ host = "collecting" => Collected(w, CheckpointOf(w))
<1> DEFINE k == CheckpointOf(w)
<1>1. /\ RunOK(worker[w], begun[w], told[w]) /\ worker[w] \in WorkerRows
      /\ begun[w] \subseteq Calls /\ told[w] \subseteq Messages
  BY RunFacts
<1>2. /\ k.finished = (Finished(w) /\ worker[w].err # "handoff") /\ k.err = worker[w].err
      /\ k.history = worker[w].history /\ k.inbox = worker[w].inbox /\ k.calls = SafeCalls(w)
  BY DEF CheckpointOf
<1>3. /\ SafeCalls(w) \in [Calls -> Verdicts]
      /\ \A c \in Calls : SafeCalls(w)[c] =
             IF worker[w].requested /\ c \in worker[w].inFlight /\ worker[w].calls[c] # "open"
             THEN "unknown" ELSE worker[w].calls[c]
  BY <1>1 DEF SafeCalls, WorkerRows, Verdicts
<1>4. k \in Checkpoints
  BY <1>1, <1>3 DEF CheckpointOf, Checkpoints, WorkerRows, Finished
<1>5. worker[w].requested \/ worker[w].err \in {"result", "error"}
  BY DEF IInv, Asked, Up
<1>6. Truthful(w, k)
  <2>1. k.finished => k.err \in {"result", "error"}
    BY <1>1, <1>2 DEF RunOK, WorkerRows, Outcomes, Finished
  <2>2. ~k.finished => worker[w].requested
    BY <1>1, <1>2, <1>5 DEF RunOK, Finished
  <2>3. ASSUME worker[w].requested, NEW c \in begun[w]
        PROVE  \/ SafeCalls(w)[c] \in {"open", "unknown"}
               \/ SafeCalls(w)[c] = "ok" /\ worker[w].calls[c] = "ok"
    BY <1>1, <1>3, <2>3 DEF RunOK
  <2> HIDE DEF k
  <2> QED
    BY <1>2, <2>1, <2>2, <2>3 DEF Truthful
<1>7. host = "collecting" => Collected(w, k)
  <2> HIDE DEF k
  <2> QED
    BY <1>1, <1>2 DEF Collected, RunOK, Finished, IInv, Settled, Running
<1> QED
  BY <1>4, <1>6, <1>7

\* What holds of the workers and the log stays when neither changes.
LEMMA QuietHost ==
    ASSUME IInv, UNCHANGED <<worker, told, begun>>, host' # "serving", host # "serving",
           host' \in {"down", "up"} \/ Up
    PROVE  /\ RunsOK' /\ Asked'
           /\ \A w \in Workers : Truthful(w, saved[w])' <=> Truthful(w, saved'[w])
           /\ \A w \in Workers : Finished(w)' <=> Finished(w)
           /\ log' = log => ReceiptsOK' /\ \A w \in Workers : Truthful(w, log.checkpoint[w])'
<1>1. RunsOK' /\ Asked'
  BY DEF IInv, RunsOK, Asked, Up
<1> QED
  BY <1>1 DEF IInv, Snapshots, ReceiptsOK, Truthful, Finished

\* The stages in between, which write nothing.
LEMMA StageStep ==
    ASSUME IInv, AllSettled \/ Deadline \/ AllStopped \/ Retry
    PROVE  IInv'
<1>0. /\ host \in {"waiting", "stopping", "failed"} /\ host' \in {"collecting", "stopping"}
      /\ UNCHANGED <<worker, saved, stopped, log, restored, told, begun>>
      /\ expired' \in BOOLEAN /\ (expired => expired')
  BY DEF AllSettled, Deadline, AllStopped, Retry, memory, IInv, TypeOK
<1>1. TypeOK' /\ RunsOK' /\ Asked' /\ Snapshots' /\ ReceiptsOK'
  BY <1>0, QuietHost DEF IInv, TypeOK, Snapshots, Truthful, Up, Finished
<1>2. Settled'
  <2>1. CASE AllSettled
    <3>1. \A w \in Workers : worker[w].pc = "done" /\ worker[w].err # "none"
      BY <2>1 DEF AllSettled, IInv, RunsOK, RunOK, Running
    <3> QED
      BY <1>0, <2>1, <3>1 DEF AllSettled, IInv, Settled
  <2>2. CASE Deadline \/ AllStopped \/ Retry
    BY <1>0, <2>2 DEF Deadline, AllStopped, Retry, IInv, Settled
  <2> QED
    BY <2>1, <2>2
<1>3. Collection'
  <2>1. CASE Retry
    BY <1>0, <2>1 DEF Retry, IInv, Collection, Collected
  <2>2. CASE ~Retry
    <3>1. \A w \in Workers : saved[w] = Nil
      BY <2>2 DEF AllSettled, Deadline, AllStopped, IInv, Settled, NoCheckpoint
    <3> QED
      BY <1>0, <3>1 DEF Collection
  <2> QED
    BY <2>1, <2>2
<1>4. Final' /\ AsRestored'
  BY <1>0 DEF IInv, Final, AsRestored
<1> QED
  BY <1>1, <1>2, <1>3, <1>4 DEF IInv

LEMMA StopStep == ASSUME IInv, NEW w \in Workers, StopWorker(w) PROVE IInv'
<1>0. /\ host = "stopping" /\ stopped' = stopped \cup {w}
      /\ worker' = [worker EXCEPT ![w].cancelled = ~Finished(w)]
      /\ UNCHANGED <<host, expired, saved, log, restored, told, begun>>
  BY DEF StopWorker, memory
<1>1. RunOK(worker[w], begun[w], told[w]) /\ worker[w] \in WorkerRows
  BY RunFacts
<1>2. /\ worker'[w] \in WorkerRows /\ worker'[w].cancelled = ~Finished(w)
      /\ worker'[w].requested = worker[w].requested /\ worker'[w].err = worker[w].err
      /\ worker'[w].pc = worker[w].pc /\ worker'[w].read = worker[w].read
      /\ worker'[w].calls = worker[w].calls /\ worker'[w].taken = worker[w].taken
      /\ worker'[w].history = worker[w].history /\ worker'[w].inbox = worker[w].inbox
      /\ worker'[w].inFlight = worker[w].inFlight
      /\ \A v \in Workers : v # w => worker'[v] = worker[v]
      /\ worker' \in [Workers -> WorkerRows]
  BY <1>0, <1>1 DEF WorkerRows, Finished, IInv, TypeOK
<1>3. RunOK(worker'[w], begun[w], told[w])
  BY <1>1, <1>2 DEF RunOK
<1>4. TypeOK' /\ RunsOK' /\ Asked'
  BY <1>0, <1>2, <1>3 DEF IInv, TypeOK, RunsOK, Asked, Finished, Up
<1>5. Snapshots' /\ ReceiptsOK'
  BY <1>0, <1>2 DEF IInv, Snapshots, Truthful, ReceiptsOK
<1>6. Settled'
  <2>1. worker'[w].err # "none" \/ worker'[w].cancelled
    BY <1>1, <1>2 DEF RunOK, Finished
  <2> QED
    BY <1>0, <1>2, <2>1 DEF IInv, Settled
<1>7. Collection' /\ Final' /\ AsRestored'
  BY <1>0 DEF IInv, Collection, Final, AsRestored
<1> QED
  BY <1>4, <1>5, <1>6, <1>7 DEF IInv

LEMMA SnapshotStep == ASSUME IInv, NEW w \in Workers, Snapshot(w) PROVE IInv'
<1>0. /\ host \in {"frozen", "collecting"} /\ saved' = [saved EXCEPT ![w] = CheckpointOf(w)]
      /\ UNCHANGED <<worker, host, expired, stopped, log, restored, told, begun>>
  BY DEF Snapshot, memory
<1>1. /\ CheckpointOf(w) \in Checkpoints /\ Truthful(w, CheckpointOf(w))
      /\ host = "collecting" => Collected(w, CheckpointOf(w))
  BY <1>0, SnapshotTruthful
<1>2. /\ saved' \in [Workers -> Checkpoints \cup {Nil}] /\ saved'[w] = CheckpointOf(w)
      /\ \A v \in Workers : v # w => saved'[v] = saved[v]
  BY <1>0, <1>1 DEF IInv, TypeOK
<1>3. TypeOK' /\ RunsOK' /\ Asked' /\ ReceiptsOK' /\ Final' /\ AsRestored'
  <2>1. TypeOK'
    BY <1>0, <1>2 DEF IInv, TypeOK, Finished
  <2>2. RunsOK' /\ Asked' /\ ReceiptsOK'
    BY <1>0 DEF IInv, RunsOK, Asked, ReceiptsOK, Up
  <2> QED
    BY <1>0, <2>1, <2>2 DEF IInv, Final, Collected, AsRestored
<1>4. Snapshots'
  <2>1. \A v \in Workers : Truthful(v, saved'[v]) /\ Truthful(v, log.checkpoint[v])
    BY <1>1, <1>2 DEF IInv, Snapshots
  <2> QED
    BY <1>0, <2>1 DEF Snapshots, Truthful
<1>5. Settled'
  BY <1>0 DEF IInv, Settled
<1>6. Collection'
  <2>1. host = "collecting" => \A v \in Workers : saved'[v] # Nil => Collected(v, saved'[v])
    BY <1>1, <1>2 DEF IInv, Collection
  <2> QED
    BY <1>0, <2>1 DEF Collection, Collected
<1> QED
  BY <1>3, <1>4, <1>5, <1>6 DEF IInv

\* A checkpoint that becomes durable takes the place of what was said before.
LEMMA WriteStep == ASSUME IInv, WriteInitial \/ WriteFinal PROVE IInv'
<1>0. /\ UNCHANGED <<worker, expired, stopped, restored, told, begun>>
      /\ host \in {"frozen", "collecting"} /\ host' \in {"waiting", "ready", "failed"}
      /\ \A w \in Workers : saved[w] # Nil
      /\ saved' \in [Workers -> Checkpoints \cup {Nil}]
      /\ \A w \in Workers : saved'[w] \in {saved[w], Nil}
  BY DEF WriteInitial, WriteFinal, memory, AllSaved, IInv, TypeOK, NoCheckpoint
<1>1. /\ log' \in [checkpoint : [Workers -> Checkpoints \cup {Nil}], final : BOOLEAN, after : Receipts]
      /\ \/ log' = log
         \/ log' = WithCheckpoint(FALSE)
         \/ log' = WithCheckpoint(TRUE) /\ host' = "ready" /\ host = "collecting"
  <2>1. WithCheckpoint(FALSE) \in [checkpoint : [Workers -> Checkpoints \cup {Nil}], final : BOOLEAN, after : Receipts]
    BY DEF WithCheckpoint, NoReceipts, Receipts, Verdicts, IInv, TypeOK
  <2>2. WithCheckpoint(TRUE) \in [checkpoint : [Workers -> Checkpoints \cup {Nil}], final : BOOLEAN, after : Receipts]
    BY DEF WithCheckpoint, NoReceipts, Receipts, Verdicts, IInv, TypeOK
  <2> QED
    BY <2>1, <2>2 DEF WriteInitial, WriteFinal, IInv, TypeOK
<1>2. /\ log' # log => log'.checkpoint = saved /\ log'.after = NoReceipts
                       /\ (log'.final => host = "collecting" /\ host' = "ready")
  BY <1>1 DEF WithCheckpoint
<1>3. TypeOK' /\ RunsOK' /\ Asked'
  BY <1>0, <1>1, QuietHost DEF IInv, TypeOK, Finished, Up
<1>4. \A w \in Workers : Truthful(w, saved'[w]) /\ Truthful(w, log'.checkpoint[w])
  BY <1>0, <1>2 DEF IInv, Snapshots, Truthful
<1>5. Snapshots'
  BY <1>0, <1>4 DEF Snapshots, Truthful
<1>6. ReceiptsOK'
  <2>1. CASE log' = log
    BY <1>0, <2>1 DEF IInv, ReceiptsOK
  <2>2. CASE log' # log
    BY <1>0, <1>2, <2>2 DEF ReceiptsOK, NoReceipts, IInv, TypeOK
  <2> QED
    BY <2>1, <2>2
<1>7. Settled' /\ Collection'
  BY <1>0 DEF WriteInitial, WriteFinal, IInv, Settled, Collection, Collected
<1>8. Final'
  <2>1. ~log.final
    BY <1>0 DEF IInv, Final
  <2>2. log'.final => \A w \in Workers : saved[w] # Nil /\ Collected(w, saved[w])
    BY <1>0, <1>2, <2>1 DEF IInv, Collection
  <2> QED
    BY <1>0, <1>2, <2>1, <2>2 DEF Final, Collected
<1>9. AsRestored'
  BY <1>0 DEF AsRestored
<1> QED
  BY <1>3, <1>5, <1>6, <1>7, <1>8, <1>9 DEF IInv

LEMMA LeaveStep == ASSUME IInv, Leave PROVE IInv'
<1>0. host' = "down" /\ UNCHANGED <<worker, expired, saved, stopped, log, restored, told, begun>>
  BY DEF Leave, memory
<1>1. TypeOK' /\ RunsOK' /\ Asked'
  BY <1>0 DEF IInv, TypeOK, RunsOK, Asked, Finished, Up
<1>2. Snapshots' /\ ReceiptsOK'
  BY <1>0 DEF IInv, Snapshots, Truthful, ReceiptsOK
<1>3. Settled' /\ Collection' /\ Final' /\ AsRestored'
  BY <1>0 DEF IInv, Settled, Collection, Final, Collected, AsRestored
<1> QED
  BY <1>1, <1>2, <1>3 DEF IInv

LEMMA RestoredType == ASSUME TypeOK, NEW w \in Workers PROVE Restored(w) \in Checkpoints
<1> DEFINE base == IF log.checkpoint[w] = Nil
                   THEN [finished |-> FALSE, err |-> "none", history |-> {}, inbox |-> {},
                         calls |-> [c \in Calls |-> "none"], sent |-> {}]
                   ELSE [log.checkpoint[w] EXCEPT !.calls = [c \in Calls |-> Recovered(w, c)]]
<1>1. log.checkpoint[w] # Nil => log.checkpoint[w] \in Checkpoints
  BY DEF TypeOK
<1>2. \A c \in Calls : log.after.results[w][c] \in Verdicts
  BY DEF TypeOK, Receipts
<1>3. log.checkpoint[w] # Nil => \A c \in Calls : Recovered(w, c) \in Verdicts
  BY <1>1, <1>2 DEF Recovered, Checkpoints, Verdicts
<1>4. base \in Checkpoints
  BY <1>1, <1>3 DEF Checkpoints, Outcomes, Verdicts
<1>5. log.after.finished[w] \in Outcomes
  BY DEF TypeOK, Receipts, Outcomes
<1>6. [base EXCEPT !.finished = TRUE, !.err = log.after.finished[w]] \in Checkpoints
  <2> HIDE DEF base
  <2> QED
    BY <1>4, <1>5 DEF Checkpoints
<1> QED
  BY <1>4, <1>6 DEF Restored

LEMMA RecoverStep == ASSUME IInv, Recover PROVE IInv'
<1>0. /\ host = "down" /\ host' = "up" /\ restored' = [w \in Workers |-> Restored(w)]
      /\ UNCHANGED <<worker, expired, saved, stopped, log, told, begun>>
  BY DEF Recover, memory
<1>1. restored' \in [Workers -> Checkpoints \cup {Nil}]
  BY <1>0, RestoredType DEF IInv
<1>2. TypeOK' /\ RunsOK' /\ Asked'
  BY <1>0, <1>1 DEF IInv, TypeOK, RunsOK, Asked, Finished, Up
<1>3. Snapshots' /\ ReceiptsOK'
  BY <1>0 DEF IInv, Snapshots, Truthful, ReceiptsOK
<1>4. Settled' /\ Collection' /\ Final'
  BY <1>0 DEF IInv, Settled, Collection, Final, Collected
<1>5. AsRestored'
  BY <1>0 DEF AsRestored, Restored, Recovered
<1> QED
  BY <1>2, <1>3, <1>4, <1>5 DEF IInv

LEMMA StepInv == IInv /\ [Next]_vars => IInv'
<1> SUFFICES ASSUME IInv, [Next]_vars PROVE IInv'
  OBVIOUS
<1>1. ASSUME NEW w \in Workers, WorkerStep(w) PROVE IInv'
  BY <1>1, WorkerKeeps
<1>2. CASE BeginHandoff
  BY <1>2, FreezeStep
<1>3. CASE HostStep
  BY <1>3, WriteStep, StageStep, SnapshotStep, StopStep DEF HostStep
<1>4. CASE Deadline \/ Retry
  BY <1>4, StageStep
<1>5. CASE Leave \/ Recover
  BY <1>5, LeaveStep, RecoverStep
<1>6. CASE UNCHANGED vars
  <2>1. TypeOK' /\ RunsOK' /\ Asked' /\ Snapshots' /\ ReceiptsOK'
    BY <1>6 DEF vars, IInv, TypeOK, RunsOK, Asked, Snapshots, Truthful, ReceiptsOK, Finished, Up
  <2>2. Settled' /\ Collection' /\ Final'
    BY <1>6 DEF vars, IInv, Settled, Collection, Final, Collected
  <2>3. AsRestored'
    BY <1>6 DEF vars, IInv, AsRestored, Restored, Recovered
  <2> QED
    BY <2>1, <2>2, <2>3 DEF IInv
<1> QED
  BY <1>1, <1>2, <1>3, <1>4, <1>5, <1>6 DEF Next

-----------------------------------------------------------------------------
LEMMA Invariance == Spec => []IInv
BY InitInv, StepInv, PTL DEF Spec

\* What the next process makes of a worker, field by field.
LEMMA RestoredFields ==
    ASSUME IInv, host = "up", NEW w \in Workers
    PROVE  /\ restored[w].finished <=>
                 log.after.finished[w] # "none" \/ (log.checkpoint[w] # Nil /\ log.checkpoint[w].finished)
           /\ log.after.finished[w] # "none" => restored[w].err = log.after.finished[w]
           /\ log.after.finished[w] = "none" /\ log.checkpoint[w] # Nil =>
                 /\ restored[w].err = log.checkpoint[w].err
                 /\ restored[w].history = log.checkpoint[w].history
                 /\ restored[w].inbox = log.checkpoint[w].inbox
                 /\ \A c \in Calls : restored[w].calls[c] = Recovered(w, c)
<1>1. restored[w] = Restored(w)
  BY DEF IInv, AsRestored
<1>2. log.checkpoint[w] # Nil => log.checkpoint[w] \in Checkpoints
  BY DEF IInv, TypeOK
<1>3. CASE log.checkpoint[w] = Nil
  BY <1>1, <1>3 DEF Restored
<1>4. CASE log.checkpoint[w] # Nil
  <2> DEFINE r == [c \in Calls |-> Recovered(w, c)]
             base == [log.checkpoint[w] EXCEPT !.calls = r]
  <2>1. /\ base.finished = log.checkpoint[w].finished /\ base.err = log.checkpoint[w].err
        /\ base.history = log.checkpoint[w].history /\ base.inbox = log.checkpoint[w].inbox
        /\ base.calls = r
    BY <1>2, <1>4 DEF Checkpoints
  <2>2. restored[w] = IF log.after.finished[w] # "none"
                      THEN [base EXCEPT !.finished = TRUE, !.err = log.after.finished[w]] ELSE base
    BY <1>1, <1>4 DEF Restored
  <2>3. base.finished \in BOOLEAN /\ [base EXCEPT !.finished = TRUE, !.err = log.after.finished[w]].finished
        /\ [base EXCEPT !.finished = TRUE, !.err = log.after.finished[w]].err = log.after.finished[w]
    BY <1>2, <1>4 DEF Checkpoints
  <2>4. \A c \in Calls : r[c] = Recovered(w, c)
    OBVIOUS
  <2> HIDE DEF base, r
  <2> QED
    BY <1>4, <2>1, <2>2, <2>3, <2>4
<1> QED
  BY <1>3, <1>4

\* The state of the workers, of the restart and of its log has the shape the code
\* gives it, and a worker has an outcome exactly when its life has ended.
THEOREM TypeCorrect == Spec => []TypeOK
BY Invariance, PTL DEF IInv

\* A worker comes back as finished only with the result its life really had
\* (completeWorker, startWorker, orphanedWorkersFromCheckpoint).
THEOREM NoResultMadeUp == Spec => []FinishedIsReal
<1>1. IInv => FinishedIsReal
  <2> SUFFICES ASSUME IInv, NEW w \in Workers, host = "up", restored[w].finished
               PROVE  worker[w].err \in {"result", "error"} /\ restored[w].err = worker[w].err
    BY DEF FinishedIsReal
  <2>1. CASE log.after.finished[w] # "none"
    <3>1. log.after.finished[w] \in {"result", "error"}
      BY <2>1 DEF IInv, TypeOK, Receipts
    <3> QED
      BY <2>1, <3>1, RestoredFields DEF IInv, ReceiptsOK
  <2>2. CASE log.after.finished[w] = "none"
    BY <2>2, RestoredFields DEF IInv, Snapshots, Truthful
  <2> QED
    BY <2>1, <2>2
<1> QED
  BY <1>1, Invariance, PTL

\* A worker re-run from a checkpoint is told of every tool it had started: it
\* succeeded, or it is to be verified (BeginHandoff, checkpointLocked, finishTool).
THEOREM NoEffectForgotten == Spec => []EffectsAccounted
<1>1. IInv => EffectsAccounted
  <2> SUFFICES ASSUME IInv, NEW w \in Workers, ReRun(w), log.checkpoint[w] # Nil, NEW c \in begun[w]
               PROVE  \/ restored[w].calls[c] = "unknown"
                      \/ restored[w].calls[c] = "ok" /\ worker[w].calls[c] = "ok"
    BY DEF EffectsAccounted
  <2>1. host = "up" /\ log.after.finished[w] = "none" /\ ~log.checkpoint[w].finished /\ c \in Calls
    BY RestoredFields, RunFacts DEF ReRun
  <2>2. restored[w].calls[c] = Recovered(w, c)
    BY <2>1, RestoredFields
  <2>3. \/ log.checkpoint[w].calls[c] \in {"open", "unknown"}
        \/ log.checkpoint[w].calls[c] = "ok" /\ worker[w].calls[c] = "ok"
    BY <2>1 DEF IInv, Snapshots, Truthful
  <2>4. \/ log.after.results[w][c] \in {"none", "unknown"}
        \/ log.after.results[w][c] = "ok" /\ worker[w].calls[c] = "ok"
    BY <2>1 DEF IInv, ReceiptsOK
  <2> QED
    BY <2>2, <2>3, <2>4 DEF Recovered
<1> QED
  BY <1>1, Invariance, PTL

\* Once the engine has reported that it is ready, no worker with a result of its
\* own is run again (stopForHandoff before the final SnapshotWorkers, prepareRestart).
THEOREM ReadyLosesNoResult == Spec => []ReadyKeepsFinished
<1>1. IInv => ReadyKeepsFinished
  BY RestoredFields DEF IInv, Final, Collected, ReadyKeepsFinished, ReRun
<1> QED
  BY <1>1, Invariance, PTL

\* When every worker settled in time, a re-run worker has every message whose
\* sender was told that it was delivered (drainInbox, finishAgent, checkpointLocked).
THEOREM SettledKeepsSteering == Spec => []SteeringKeptWhenSettled
<1>1. IInv => SteeringKeptWhenSettled
  <2> SUFFICES ASSUME IInv, NEW w \in Workers, ReRun(w), log.final, ~expired
               PROVE  told[w] \subseteq restored[w].history \cup restored[w].inbox
    BY DEF SteeringKeptWhenSettled
  <2>1. host = "up" /\ log.checkpoint[w] # Nil /\ log.after.finished[w] = "none"
    BY RestoredFields DEF IInv, Final, ReRun
  <2>2. told[w] \subseteq log.checkpoint[w].history \cup log.checkpoint[w].inbox
    BY DEF IInv, Final, Collected
  <2> QED
    BY <2>1, <2>2, RestoredFields
<1> QED
  BY <1>1, Invariance, PTL
=============================================================================
