---------------------------- MODULE EngineLease ----------------------------
(***************************************************************************)
(* One engine per data directory: the lock and the published record          *)
(* (internal/lease/lease.go), the life of the engine process                 *)
(* (cmd/zwai/engine.go serveEngine), its idle exit against shells that       *)
(* connect (internal/lease/idle.go, internal/server/presence.go), and a      *)
(* desktop shell that finds, replaces or launches an engine and holds it     *)
(* (ensureEngineRecord, spawnEngineContext, ensureDesktopEngine).            *)
(*                                                                         *)
(* Processes share the lock file, engine.json and HTTP; one action is one    *)
(* system call, request or critical section.  Pids are not reused, --mock is *)
(* the same everywhere, a turn keeps an engine up as a shell does.           *)
(***************************************************************************)
EXTENDS Naturals

CONSTANTS
    Shells,    \* desktop shells
    BuildOf,   \* the build each shell runs, and launches
    Nil,
    MaxEngine, \* bound: engine processes
    MaxFault   \* bound: processes that die or give up on their own

ASSUME BoundAssumption == MaxEngine \in Nat /\ MaxFault \in Nat
ASSUME ShellAssumption == Shells \cap Nat = {} /\ Nil \notin Shells \cup Nat

VARIABLES
    lock,     \* who has engine.lock
    file,     \* the pid engine.json names
    proc,     \* where each engine process is
    build,    \* what it runs
    quiet,    \* engines whose watcher last sampled no load for long enough
    stopping, \* engines whose idle shutdown has begun: presence.stopping
    term,     \* engines whose run was cancelled, by a signal or from within
    at,       \* where each shell is
    rec,      \* the record a shell acts on
    child,    \* the engine process a shell launched
    held,     \* the engine that counts a shell's presence
    faults

vars == <<lock, file, proc, build, quiet, stopping, term, at, rec, child, held, faults>>

Engines == 1..MaxEngine

Init == /\ lock = Nil
        /\ file = Nil
        /\ proc = [p \in Engines |-> "unborn"]
        /\ build = [p \in Engines |-> Nil]
        /\ quiet = {}
        /\ stopping = {}
        /\ term = {}
        /\ at = [s \in Shells |-> "away"]
        /\ rec = [s \in Shells |-> Nil]
        /\ child = [s \in Shells |-> Nil]
        /\ held = [s \in Shells |-> Nil]
        /\ faults = 0

Alive(p) == proc[p] \notin {"unborn", "dead"}

Answers(p) == proc[p] \in {"serve", "ready"}

\* Processes that have zwai.db open.
HasDatabase(p) == proc[p] \in {"open", "serve", "ready", "down"}

Idle(p) == \A s \in Shells : held[s] # p

-----------------------------------------------------------------------------
\* An engine process: serveEngine from Acquire to the deferred Release.

Step(p, label) == proc' = [proc EXCEPT ![p] = label]

ShellVars == <<at, rec, child, held>>

\* A process that ended has no watcher, no shutdown and no signal pending.
Ended(p) == /\ Step(p, "dead")
            /\ build' = [build EXCEPT ![p] = Nil]
            /\ quiet' = quiet \ {p}
            /\ stopping' = stopping \ {p}
            /\ term' = term \ {p}

\* mutant: a lock held by another process is taken for granted.
AcquireAnyway(p) ==
    /\ proc[p] = "born"
    /\ Step(p, "locked")
    /\ lock' = p
    /\ UNCHANGED <<file, build, quiet, stopping, term, ShellVars, faults>>

\* The lock is tried once; the loser exits.
Acquire(p) ==
    /\ proc[p] = "born"
    /\ IF lock = Nil
       THEN lock' = p /\ Step(p, "locked") /\ UNCHANGED <<build, quiet, stopping, term>>
       ELSE Ended(p) /\ UNCHANGED lock
    /\ UNCHANGED <<file, ShellVars, faults>>

\* assembleApp and Listen, or the error that ends the process.
OpenDatabase(p) ==
    /\ proc[p] = "locked"
    /\ \/ Step(p, "open") /\ UNCHANGED faults
       \/ faults < MaxFault /\ faults' = faults + 1 /\ Step(p, "closed")
    /\ UNCHANGED <<lock, file, build, quiet, stopping, term, ShellVars>>

\* The URL is published when the process listens, and again when it is ready.
Publish(p) ==
    /\ proc[p] \in {"open", "serve"}
    /\ file' = p
    /\ Step(p, IF proc[p] = "open" THEN "serve" ELSE "ready")
    /\ UNCHANGED <<lock, build, quiet, stopping, term, ShellVars, faults>>

\* The watcher's sample, taken without the presence lock.
Sample(p) ==
    /\ Answers(p) /\ p \notin stopping /\ p \notin quiet /\ Idle(p)
    /\ quiet' = quiet \cup {p}
    /\ UNCHANGED <<lock, file, proc, build, stopping, term, ShellVars, faults>>

\* mutant: the sample is not checked again.
TryIdleStale(p) ==
    /\ Answers(p) /\ p \in quiet
    /\ quiet' = quiet \ {p}
    /\ stopping' = stopping \cup {p}
    /\ UNCHANGED <<lock, file, proc, build, term, ShellVars, faults>>

\* TryIdleShutdown, under the lock that admits shells.
TryIdleShutdown(p) ==
    /\ Answers(p) /\ p \in quiet
    /\ quiet' = quiet \ {p}
    /\ stopping' = IF Idle(p) THEN stopping \cup {p} ELSE stopping
    /\ UNCHANGED <<lock, file, proc, build, term, ShellVars, faults>>

Dropped(p) == held' = [s \in Shells |-> IF held[s] = p THEN Nil ELSE held[s]]

\* Shutdown: HTTP goes first, and with it every hold; the database is last.
Down(p) ==
    /\ Answers(p) /\ p \in stopping \cup term
    /\ Step(p, "down")
    /\ Dropped(p)
    /\ UNCHANGED <<lock, file, build, quiet, stopping, term, at, rec, child, faults>>

CloseDatabase(p) ==
    /\ proc[p] = "down"
    /\ Step(p, "closed")
    /\ UNCHANGED <<lock, file, build, quiet, stopping, term, ShellVars, faults>>

\* mutant: the lock is dropped before the record is removed.
UnlockFirst(p) ==
    /\ proc[p] = "closed"
    /\ lock' = Nil
    /\ Step(p, "removed")
    /\ UNCHANGED <<file, build, quiet, stopping, term, ShellVars, faults>>
RemoveLast(p) ==
    /\ proc[p] = "removed"
    /\ file' = Nil
    /\ Ended(p)
    /\ UNCHANGED <<lock, ShellVars, faults>>
ReleaseSwapped(p) == UnlockFirst(p) \/ RemoveLast(p)

\* Release: the record is removed, then the lock dropped, then the process ends.
Release(p) ==
    \/ /\ proc[p] = "closed"
       /\ file' = Nil
       /\ Step(p, "removed")
       /\ UNCHANGED <<lock, build, quiet, stopping, term, ShellVars, faults>>
    \/ /\ proc[p] = "removed"
       /\ lock' = Nil
       /\ Ended(p)
       /\ UNCHANGED <<file, ShellVars, faults>>

\* The kernel drops the lock and the connections of a dead process; the record
\* stays.
Die(p) ==
    /\ Alive(p)
    /\ Ended(p)
    /\ lock' = IF lock = p THEN Nil ELSE lock
    /\ Dropped(p)
    /\ UNCHANGED file

Crash(p) ==
    /\ faults < MaxFault /\ faults' = faults + 1
    /\ Die(p)
    /\ UNCHANGED <<at, rec, child>>

\* cancelRun: recovery failed, the listener broke, or somebody pressed ^C.
Interrupt(p) ==
    /\ Answers(p) /\ p \notin term
    /\ faults < MaxFault /\ faults' = faults + 1
    /\ term' = term \cup {p}
    /\ UNCHANGED <<lock, file, proc, build, quiet, stopping, ShellVars>>

-----------------------------------------------------------------------------
\* A shell.

EngineVars == <<proc, build, quiet, stopping, term>>

Go(s, label) == at' = [at EXCEPT ![s] = label]

Open(s) ==
    /\ at[s] = "away"
    /\ Go(s, "look")
    /\ UNCHANGED <<lock, file, EngineVars, rec, child, held, faults>>

\* Discover, first half: the record, and whether its process lives.
Look(s) ==
    LET found == file # Nil /\ Alive(file) IN
    /\ at[s] \in {"look", "boot"}
    /\ rec' = [rec EXCEPT ![s] = IF found THEN file ELSE Nil]
    /\ Go(s, CASE at[s] = "look" /\ found -> "ask"
               [] at[s] = "look" /\ ~found -> "probe"
               [] at[s] = "boot" /\ found -> "askBoot"
               [] at[s] = "boot" /\ ~found -> IF Alive(child[s]) THEN "boot" ELSE "probeBoot")
    /\ UNCHANGED <<lock, file, EngineVars, child, held, faults>>

\* Second half: /api/meta.  A record that does not answer is an error; one of
\* another build is replaced.
Ask(s) ==
    /\ at[s] = "ask"
    /\ Go(s, IF ~Answers(rec[s]) THEN "error"
             ELSE IF build[rec[s]] = BuildOf[s] THEN "reserve" ELSE "handoff")
    /\ UNCHANGED <<lock, file, EngineVars, rec, child, held, faults>>

\* Busy tries the lock: a free one is taken for an instant.
Probe(s) ==
    /\ at[s] \in {"probe", "probeBoot"}
    /\ IF lock = Nil
       THEN /\ lock' = s
            /\ Go(s, IF at[s] = "probe" THEN "free" ELSE "freeBoot")
       ELSE /\ Go(s, IF at[s] = "probe" THEN "look" ELSE "boot")
            /\ UNCHANGED lock
    /\ UNCHANGED <<file, EngineVars, rec, child, held, faults>>

\* Nobody starts: launch.  The launched child is gone and nobody starts: error.
ProbeEnd(s) ==
    /\ at[s] \in {"free", "freeBoot"}
    /\ lock' = Nil
    /\ Go(s, IF at[s] = "free" THEN "launch" ELSE "error")
    /\ UNCHANGED <<file, EngineVars, rec, child, held, faults>>

\* Starting a process; with none left in the model's bound, it fails.
Launch(s) ==
    /\ at[s] = "launch"
    /\ \/ /\ \A p \in Engines : proc[p] # "unborn"
          /\ Go(s, "error")
          /\ UNCHANGED <<proc, build, child>>
       \/ \E p \in Engines :
            /\ proc[p] = "unborn" /\ \A q \in Engines : proc[q] = "unborn" => p <= q
            /\ Step(p, "born")
            /\ build' = [build EXCEPT ![p] = BuildOf[s]]
            /\ child' = [child EXCEPT ![s] = p]
            /\ Go(s, "boot")
    /\ UNCHANGED <<lock, file, quiet, stopping, term, rec, held, faults>>

\* The launching shell meets an engine that answers: if it is not its own child
\* the child is killed, and the record is looked at as any other.  One that
\* does not answer is waited for only when it is the child.
AskBoot(s) ==
    LET c == child[s]
        ok == Answers(rec[s])
        label == IF ok THEN "look" ELSE IF rec[s] = c /\ Alive(c) THEN "boot" ELSE "error"
    IN
    /\ at[s] = "askBoot"
    /\ Go(s, label)
    /\ IF label # "boot" /\ ~(ok /\ rec[s] = c) /\ Alive(c)
       THEN Die(c) ELSE UNCHANGED <<lock, file, EngineVars, held>>
    /\ child' = [child EXCEPT ![s] = IF label = "boot" THEN c ELSE Nil]
    /\ UNCHANGED <<rec, faults>>

\* replaceEngine: only an acknowledged handoff permits the kill; one that is
\* refused, fails or times out ends the shell and leaves the engine running.
Handoff(s) ==
    /\ at[s] = "handoff"
    /\ \/ Answers(rec[s]) /\ Go(s, "kill")
       \/ Alive(rec[s]) /\ Go(s, "error")
       \/ ~Alive(rec[s]) /\ Go(s, "look")
    /\ UNCHANGED <<lock, file, EngineVars, rec, child, held, faults>>

\* lease.Kill: ask, and after a while insist; return when the pid is gone.
Kill(s) ==
    \/ /\ at[s] = "kill"
       /\ term' = term \cup {rec[s]}
       /\ Go(s, "killing")
       /\ UNCHANGED <<lock, file, proc, build, quiet, stopping, rec, child, held, faults>>
    \/ /\ at[s] = "killing" /\ Alive(rec[s])
       /\ Die(rec[s])
       /\ UNCHANGED <<at, rec, child, faults>>
    \/ /\ at[s] = "killing" /\ ~Alive(rec[s])
       /\ Go(s, "look")
       /\ UNCHANGED <<lock, file, EngineVars, rec, child, held, faults>>

\* holdDesktopPresence: reserve, then attach; only the second counts.
Reserve(s) ==
    /\ at[s] = "reserve"
    /\ Go(s, IF Answers(rec[s]) /\ rec[s] \notin stopping THEN "attach" ELSE "depart")
    /\ UNCHANGED <<lock, file, EngineVars, rec, child, held, faults>>

Attach(s) ==
    /\ at[s] = "attach"
    /\ IF Answers(rec[s]) /\ rec[s] \notin stopping
       THEN Go(s, "attached") /\ held' = [held EXCEPT ![s] = rec[s]]
       ELSE Go(s, "depart") /\ UNCHANGED held
    /\ UNCHANGED <<lock, file, EngineVars, rec, child, faults>>

\* mutant: the shell waits for the record to go, whoever it names and whether
\* or not that process lives.
DepartRecord(s) ==
    /\ at[s] = "depart"
    /\ file = Nil
    /\ Go(s, "look")
    /\ UNCHANGED <<lock, file, EngineVars, rec, child, held, faults>>

\* waitDesktopEngineDeparture: the holder is gone, or another one is there.
Depart(s) ==
    /\ at[s] = "depart"
    /\ file # rec[s] \/ ~Alive(rec[s])
    /\ Go(s, "look")
    /\ UNCHANGED <<lock, file, EngineVars, rec, child, held, faults>>

\* The stream ended: reconnecting to the same engine fails.
LoseHold(s) ==
    /\ at[s] = "attached" /\ held[s] = Nil
    /\ Go(s, "error")
    /\ UNCHANGED <<lock, file, EngineVars, rec, child, held, faults>>

\* mutant: the engine goes on counting a shell that is gone.
LeaveCounted(s) ==
    /\ at[s] \in {"attached", "error"}
    /\ Go(s, "gone")
    /\ UNCHANGED <<lock, file, EngineVars, rec, child, held, faults>>

\* The window closes, or the shell dies wherever it is.
Leave(s) ==
    /\ at[s] \notin {"away", "gone"}
    /\ IF at[s] \in {"attached", "error"} THEN UNCHANGED faults
       ELSE faults < MaxFault /\ faults' = faults + 1
    /\ Go(s, "gone")
    /\ lock' = IF lock = s THEN Nil ELSE lock
    /\ held' = [held EXCEPT ![s] = Nil]
    /\ child' = [child EXCEPT ![s] = Nil]
    /\ rec' = [rec EXCEPT ![s] = Nil]
    /\ UNCHANGED <<file, EngineVars>>

\* A deadline passes while the shell waits: a child it launched is killed, or
\* left to finish alone when the shell had replaced an engine (forwardOnly,
\* which is a choice here).
GiveUp(s) ==
    /\ at[s] \in {"look", "boot", "depart"}
    /\ faults < MaxFault /\ faults' = faults + 1
    /\ Go(s, "error")
    /\ \/ child[s] # Nil /\ Alive(child[s]) /\ Die(child[s])
       \/ UNCHANGED <<lock, file, EngineVars, held>>
    /\ child' = [child EXCEPT ![s] = Nil]
    /\ UNCHANGED rec

-----------------------------------------------------------------------------
Engine(p) == \/ Acquire(p) \/ OpenDatabase(p) \/ Publish(p) \/ Down(p)
             \/ CloseDatabase(p) \/ Release(p)

Watcher(p) == Sample(p) \/ TryIdleShutdown(p)

Shell(s) == \/ Look(s) \/ Ask(s) \/ Probe(s) \/ ProbeEnd(s) \/ Launch(s) \/ AskBoot(s)
            \/ Handoff(s) \/ Kill(s) \/ Reserve(s) \/ Attach(s) \/ Depart(s) \/ LoseHold(s)

Next == \/ \E p \in Engines : Engine(p) \/ Watcher(p) \/ Crash(p) \/ Interrupt(p)
        \/ \E s \in Shells : Shell(s) \/ Open(s) \/ Leave(s) \/ GiveUp(s)

Spec == Init /\ [][Next]_vars

\* Processes run on; nobody has to open or close a window, and nothing has to
\* fail.
FairSpec == /\ Spec
            /\ \A p \in Engines : WF_vars(Engine(p)) /\ WF_vars(Watcher(p))
            /\ \A s \in Shells : WF_vars(Shell(s))

-----------------------------------------------------------------------------
Owners == Shells \cup Engines

Stages == {"unborn", "born", "locked", "open", "serve", "ready", "down", "closed", "removed", "dead"}

Places == {"away", "look", "ask", "probe", "free", "launch", "boot", "askBoot", "probeBoot", "freeBoot",
           "handoff", "kill", "killing", "reserve", "attach", "attached", "depart", "error", "gone"}

\* The state has the shape the code gives it: the lock, the record, where each
\* process is and what each shell acts on.
TypeOK ==
    /\ lock \in Owners \cup {Nil}
    /\ file \in Engines \cup {Nil}
    /\ proc \in [Engines -> Stages]
    /\ build \in [Engines -> {BuildOf[s] : s \in Shells} \cup {Nil}]
    /\ quiet \subseteq Engines
    /\ stopping \subseteq Engines
    /\ term \subseteq Engines
    /\ at \in [Shells -> Places]
    /\ rec \in [Shells -> Engines \cup {Nil}]
    /\ child \in [Shells -> Engines \cup {Nil}]
    /\ held \in [Shells -> Engines \cup {Nil}]
    /\ faults \in 0..MaxFault

\* Two processes never have the database open, whatever shells launch, kill
\* and probe and wherever processes die (lease.go:1-7).
OneDatabase == \A p, q \in Engines : HasDatabase(p) /\ HasDatabase(q) => p = q

\* An engine that serves can be found: a predecessor that is on its way out
\* never removes or overwrites its record (Hold.Release, Publish).
ServingIsPublished == \A p \in Engines : Answers(p) => file = p

\* A shell whose hold was acknowledged keeps the engine up: idle shutdown and
\* the hold never both succeed (TryIdleShutdown, presence.attach).
HoldStopsIdleExit == \A s \in Shells : held[s] # Nil => held[s] \notin stopping

\* To the shells of a data directory the processes are the service of module
\* EngineService: lock, record, probes, launches and replacements do not show.
Using == {p \in Engines : HasDatabase(p)}

Serving == {p \in Engines : Answers(p)}

Service == INSTANCE EngineService WITH using <- Using, serving <- Serving, leaving <- stopping

ImplementsService == Service!Spec

\* A shell that is opened ends attached, told of an error, or closed: it never
\* waits for ever for an engine that is gone, lost the race or is leaving.
ShellSettles ==
    \A s \in Shells : at[s] = "look" ~> at[s] \in {"attached", "error", "gone"}

\* An engine that no shell comes to hold goes away.
UnusedEngineExits ==
    \A p \in Engines : Alive(p) ~> (~Alive(p) \/ \E s \in Shells : at[s] = "attached" /\ held[s] = p)
=============================================================================
