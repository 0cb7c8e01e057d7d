--------------------------- MODULE FollowupQueue ---------------------------
(***************************************************************************)
(* The waiting messages of one conversation and everybody who starts a turn *)
(* of it (internal/engine/followup.go, the start and the end of a turn in   *)
(* internal/engine/turn.go, internal/store/followups.go): clients that queue,*)
(* edit, delete, inject and send, and the goroutine of each turn, which at   *)
(* its end runs unread steering or the oldest waiting message as the next    *)
(* turn.                                                                     *)
(*                                                                         *)
(* One action is one SQL statement, or one critical section of runtime.mu.   *)
(* The goroutine of turn t is the actor t.  Texts are model values.  Starts  *)
(* by a standing objective or a schedule compete like a client's.            *)
(***************************************************************************)
EXTENDS Integers, Sequences, FiniteSets

CONSTANTS
    Messages,    \* texts a client may queue
    Clients,     \* callers of the HTTP and phone handlers
    Nil,
    Errors,      \* whether starts, live steering and the writes that close a row may fail
    MaxTries,    \* attempts of a flush while the database is locked
    MaxTurn,     \* bound: turn rows
    MaxFault,    \* bound: turn rows whose closing fails
    MaxSeq,      \* bound: place numbers, both ways
    MaxCrash     \* bound: crashes

ASSUME BoundAssumption == MaxTurn \in Nat /\ MaxSeq \in Nat /\ MaxCrash \in Nat
ASSUME RetryAssumption == MaxTries \in Nat /\ MaxFault \in Nat
ASSUME ActorAssumption == Clients \cap Nat = {}
ASSUME FlagAssumption == Errors \in BOOLEAN
ASSUME NilAssumption == Nil \notin Int

VARIABLES
    row,      \* followups: the seq of each waiting message, Nil for no row
    counter,  \* Store.followupSeq, Nil until it is seeded
    turns,    \* turn rows: the messages of each, its status, whether its end was told,
              \* and (history) which failures left it running
    running,  \* runtime.running and turnID
    asking,   \* runtime.ask
    inbox,    \* steering the running manager has not read
    at,       \* where each actor is
    hand,     \* what each actor holds
    fate,     \* history: where a message that left for good went
    crashes

vars == <<row, counter, turns, running, asking, inbox, at, hand, fate, crashes>>

Actors == Clients \cup 1..MaxTurn

Empty == [msgs |-> {}, why |-> "none", turn |-> Nil,
          pick |-> Nil, seq |-> Nil, status |-> "none", tries |-> 0]

Init == /\ row = [m \in Messages |-> Nil]
        /\ counter = Nil
        /\ turns = <<>>
        /\ running = Nil
        /\ asking = FALSE
        /\ inbox = {}
        /\ at = [a \in Actors |-> "idle"]
        /\ hand = [a \in Actors |-> Empty]
        /\ fate = [m \in Messages |-> "none"]
        /\ crashes = 0

-----------------------------------------------------------------------------
\* The rows.

Waiting == {m \in Messages : row[m] # Nil}

\* Ordered by seq alone: two rows with one seq come in any order.
Heads == {m \in Waiting : \A k \in Waiting : row[m] <= row[k]}

MaxRow == IF \E m \in Waiting : \A k \in Waiting : row[k] <= row[m]
          THEN row[CHOOSE m \in Waiting : \A k \in Waiting : row[k] <= row[m]] ELSE 0

MinRow == IF Heads = {} THEN 1 ELSE row[CHOOSE m \in Heads : TRUE]

NextSeq == (IF counter = Nil THEN MaxRow ELSE counter) + 1

Set(M, value) == [m \in Messages |-> IF m \in M THEN value ELSE fate[m]]

Go(a, label) == at' = [at EXCEPT ![a] = label]

\* The actor is done with its call, or the goroutine of its turn ends.
Return(a) == /\ at' = [at EXCEPT ![a] = "idle"]
             /\ hand' = [hand EXCEPT ![a] = Empty]

\* A row another actor is about to claim the runtime for is that actor's.
Bound(t) == \E a \in Actors : hand[a].turn = t

\* Every place a message is in, but for the rows of starts that failed: their
\* text went back to the sender.
Places(m) == (IF row[m] # Nil THEN {<<"row", 0>>} ELSE {})
             \cup (IF m \in inbox THEN {<<"inbox", 0>>} ELSE {})
             \cup (IF fate[m] # "none" THEN {<<"fate", 0>>} ELSE {})
             \cup {<<"hand", a>> : a \in {b \in Actors : m \in hand[b].msgs}}
             \cup {<<"turn", t>> : t \in {u \in DOMAIN turns : /\ m \in turns[u].msgs
                                                             /\ turns[u].status # "refused"
                                                             /\ "start" \notin turns[u].faults
                                                             /\ ~Bound(u)}}

Unsaid(m) == Places(m) = {}

-----------------------------------------------------------------------------
\* What a client does.

\* EnqueueFollowup: the status is read, then the row is written.
EnqueueCheck(c, m) ==
    /\ at[c] = "idle" /\ running # Nil
    /\ Unsaid(m) /\ NextSeq <= MaxSeq
    /\ Go(c, "enqueue")
    /\ hand' = [hand EXCEPT ![c] = [Empty EXCEPT !.msgs = {m}, !.why = "enqueue"]]
    /\ UNCHANGED <<row, counter, turns, running, asking, inbox, fate, crashes>>

EnqueueWrite(c) ==
    /\ at[c] = "enqueue"
    /\ row' = [m \in Messages |-> IF m \in hand[c].msgs THEN NextSeq ELSE row[m]]
    /\ counter' = NextSeq
    /\ Return(c)
    /\ UNCHANGED <<turns, running, asking, inbox, fate, crashes>>

DeleteFollowup(c, m) ==
    /\ at[c] = "idle" /\ row[m] # Nil
    /\ row' = [row EXCEPT ![m] = Nil]
    /\ fate' = [fate EXCEPT ![m] = "deleted"]
    /\ UNCHANGED <<counter, turns, running, asking, inbox, at, hand, crashes>>

\* An edited message goes to the back.  The row is updated by id: one that
\* was claimed meanwhile is not found.
RequeueFollowup(c, m) ==
    /\ at[c] = "idle" /\ row[m] # Nil /\ NextSeq <= MaxSeq
    /\ row' = [row EXCEPT ![m] = NextSeq]
    /\ counter' = NextSeq
    /\ UNCHANGED <<turns, running, asking, inbox, at, hand, fate, crashes>>

\* SteerFollowup: whoever deletes the row delivers the message.
TakeFollowup(c, m) ==
    /\ at[c] = "idle" /\ row[m] # Nil /\ -MaxSeq < MinRow
    /\ row' = [row EXCEPT ![m] = Nil]
    /\ Go(c, "steer")
    /\ hand' = [hand EXCEPT ![c] = [Empty EXCEPT !.msgs = {m}, !.why = "steer"]]
    /\ UNCHANGED <<counter, turns, running, asking, inbox, fate, crashes>>

\* Into the running turn, or, when nothing runs, a turn of its own; back to
\* the queue when the steering is not accepted for any other reason.
SteerOrStart(c) ==
    /\ at[c] = "steer"
    /\ \/ running # Nil /\ inbox' = inbox \cup hand[c].msgs /\ Return(c)
       \/ running = Nil /\ Go(c, "check") /\ UNCHANGED <<inbox, hand>>
       \/ Errors /\ Go(c, "restore") /\ UNCHANGED <<inbox, hand>>
    /\ UNCHANGED <<row, counter, turns, running, asking, fate, crashes>>

Send(c) ==
    /\ at[c] = "idle" /\ Len(turns) < MaxTurn
    /\ Go(c, "check")
    /\ hand' = [hand EXCEPT ![c] = [Empty EXCEPT !.why = "send"]]
    /\ UNCHANGED <<row, counter, turns, running, asking, inbox, fate, crashes>>

-----------------------------------------------------------------------------
\* A start: StartTurn as clients and finished turns call it.

\* mutant: a queued message whose start failed is not put back.
RefusedDrop(a) ==
    /\ Return(a)
    /\ fate' = IF hand[a].why = "late" THEN Set(hand[a].msgs, "unread") ELSE fate

\* What the caller does with its message when the start failed: a sender is
\* told, unread steering was said once already, a queued message goes back.
Refused(a) ==
    \/ hand[a].why = "send" /\ Return(a) /\ UNCHANGED fate
    \/ hand[a].why = "late" /\ Return(a) /\ fate' = Set(hand[a].msgs, "unread")
    \/ /\ hand[a].why \in {"steer", "flush"}
       /\ Go(a, "restore")
       /\ hand' = [hand EXCEPT ![a].turn = Nil, ![a].tries = 0]
       /\ UNCHANGED fate

\* After an error other than busy; a flush that met a locked database tries
\* the whole start again first.
Failed(a) ==
    \/ Refused(a)
    \/ /\ hand[a].why = "flush" /\ hand[a].tries + 1 < MaxTries
       /\ Go(a, "check")
       /\ hand' = [hand EXCEPT ![a].turn = Nil, ![a].tries = @ + 1]
       /\ UNCHANGED fate

Faulty == {t \in DOMAIN turns : turns[t].faults # {}}

\* The write that closes row t fails, or there is none.
LeftRunning(t, fault) ==
    /\ Errors /\ Cardinality(Faulty \cup {t}) <= MaxFault
    /\ turns' = [turns EXCEPT ![t].faults = @ \cup {fault}]

\* The row of a start that failed is closed; after a failed AppendMessages no
\* write closes it.
Abandon(t) ==
    \/ turns' = [turns EXCEPT ![t].status = "refused"]
    \/ LeftRunning(t, "start")

\* While the running turn asks, a text is its answer; while one runs, busy.
StartCheck(a) ==
    /\ at[a] = "check"
    /\ IF asking
       THEN asking' = FALSE /\ fate' = Set(hand[a].msgs, "answer") /\ Return(a)
       ELSE /\ UNCHANGED asking
            /\ IF running # Nil THEN Refused(a)
               ELSE Go(a, "create") /\ UNCHANGED <<hand, fate>>
    /\ UNCHANGED <<row, counter, turns, running, inbox, crashes>>

\* No model, no history, no row.
StartFail(a) ==
    /\ at[a] = "create"
    /\ Errors \/ Len(turns) = MaxTurn
    /\ Failed(a)
    /\ UNCHANGED <<row, counter, turns, running, asking, inbox, crashes>>

StartCreate(a) ==
    /\ at[a] = "create" /\ Len(turns) < MaxTurn
    /\ turns' = Append(turns, [msgs |-> hand[a].msgs, status |-> "running",
                               told |-> FALSE, faults |-> {}])
    /\ hand' = [hand EXCEPT ![a].turn = Len(turns) + 1]
    /\ Go(a, "claim")
    /\ UNCHANGED <<row, counter, running, asking, inbox, fate, crashes>>

\* The row exists, but its attachments, its message or its model cannot be
\* bound, stored or built.
StartAbort(a) ==
    /\ at[a] = "claim" /\ Errors
    /\ Abandon(hand[a].turn)
    /\ Failed(a)
    /\ UNCHANGED <<row, counter, running, asking, inbox, crashes>>

\* mutant: a start that loses the runtime leaves its row running.
StartClaimOpen(a) ==
    LET t == hand[a].turn IN
    /\ at[a] = "claim"
    /\ IF running = Nil
       THEN /\ running' = t
            /\ at' = [at EXCEPT ![a] = "idle", ![t] = "run"]
            /\ hand' = [hand EXCEPT ![a] = Empty]
            /\ UNCHANGED fate
       ELSE Refused(a) /\ UNCHANGED running
    /\ UNCHANGED <<row, counter, turns, asking, inbox, crashes>>

\* claimRegistry: the slot is free and becomes this turn's, whose goroutine
\* starts, or the row ends cancelled and the call is busy.
StartClaim(a) ==
    LET t == hand[a].turn IN
    /\ at[a] = "claim"
    /\ IF running = Nil
       THEN /\ running' = t
            /\ at' = [at EXCEPT ![a] = "idle", ![t] = "run"]
            /\ hand' = [hand EXCEPT ![a] = Empty]
            /\ UNCHANGED <<turns, fate>>
       ELSE /\ Abandon(t)
            /\ Refused(a)
            /\ UNCHANGED running
    /\ UNCHANGED <<row, counter, asking, inbox, crashes>>

\* UnshiftFollowup: the lowest place is read, then the row is written.
RestoreRead(a) ==
    /\ at[a] = "restore"
    /\ hand' = [hand EXCEPT ![a].seq = MinRow - 1]
    /\ Go(a, "unshift")
    /\ UNCHANGED <<row, counter, turns, running, asking, inbox, fate, crashes>>

RestoreWrite(a) ==
    /\ at[a] = "unshift"
    /\ row' = [m \in Messages |-> IF m \in hand[a].msgs THEN hand[a].seq ELSE row[m]]
    /\ Return(a)
    /\ UNCHANGED <<counter, turns, running, asking, inbox, fate, crashes>>

-----------------------------------------------------------------------------
\* The running turn and its end.

Ask(t) ==
    /\ at[t] = "run" /\ ~asking
    /\ asking' = TRUE
    /\ UNCHANGED <<row, counter, turns, running, inbox, at, hand, fate, crashes>>

ReadInbox(t) ==
    /\ at[t] = "run" /\ ~asking /\ inbox # {}
    /\ inbox' = {}
    /\ fate' = Set(inbox, "read")
    /\ UNCHANGED <<row, counter, turns, running, asking, at, hand, crashes>>

\* The manager returns: unread steering is taken and the outcome decided.  An
\* open question ends only with an error or a stop.
Conclude(t, outcome) ==
    /\ at[t] = "run" /\ (asking => outcome # "done")
    /\ asking' = FALSE
    /\ inbox' = {}
    /\ hand' = [hand EXCEPT ![t] = [Empty EXCEPT !.msgs = inbox, !.why = "late", !.status = outcome]]
    /\ Go(t, "release")
    /\ UNCHANGED <<row, counter, turns, running, fate, crashes>>

\* The slot is free before the terminal event.  Steering that came in between
\* went into an inbox nobody reads any more.
Release(t) ==
    /\ at[t] = "release"
    /\ running' = Nil
    /\ inbox' = {}
    /\ fate' = Set(inbox, "unread")
    /\ Go(t, "record")
    /\ UNCHANGED <<row, counter, turns, asking, hand, crashes>>

RecordOutcome(t) ==
    /\ at[t] = "record"
    /\ turns' = [turns EXCEPT ![t].told = TRUE]
    /\ Go(t, "finish")
    /\ UNCHANGED <<row, counter, running, asking, inbox, hand, fate, crashes>>

\* FinishTurn, whose failure is only logged, then unread steering becomes a turn
\* after a clean end; else the queue is looked at, after a clean end and after
\* an error, never after a stop.
FinishTurn(t) ==
    LET s == hand[t].status IN
    /\ at[t] = "finish"
    /\ \/ turns' = [turns EXCEPT ![t].status = "ended"]
       \/ LeftRunning(t, "end")
    /\ IF s = "done" /\ hand[t].msgs # {}
       THEN /\ Go(t, "check")
            /\ hand' = [hand EXCEPT ![t].status = "none"]
            /\ UNCHANGED fate
       ELSE /\ fate' = Set(hand[t].msgs, "unread")
            /\ hand' = [hand EXCEPT ![t] = Empty]
            /\ Go(t, IF s \in {"done", "error"} THEN "flush" ELSE "idle")
    /\ UNCHANGED <<row, counter, running, asking, inbox, crashes>>

\* PopFollowup reads the head and deletes it only where it still is; else it
\* looks again.
PopSelect(t) ==
    /\ at[t] = "flush"
    /\ IF Waiting = {}
       THEN Return(t)
       ELSE \E m \in Heads :
              /\ hand' = [hand EXCEPT ![t] = [Empty EXCEPT !.pick = m, !.seq = row[m]]]
              /\ at' = [at EXCEPT ![t] = "pop"]
    /\ UNCHANGED <<row, counter, turns, running, asking, inbox, fate, crashes>>

\* mutant: the message read is delivered whether or not its row was there.
PopClaimUnchecked(t) ==
    /\ at[t] = "pop"
    /\ row' = [row EXCEPT ![hand[t].pick] = Nil]
    /\ hand' = [hand EXCEPT ![t] = [Empty EXCEPT !.msgs = {hand[t].pick}, !.why = "flush"]]
    /\ Go(t, "check")
    /\ UNCHANGED <<counter, turns, running, asking, inbox, fate, crashes>>

\* mutant: the delete is tried again without looking at the queue again.
PopClaimStubborn(t) ==
    /\ at[t] = "pop"
    /\ IF row[hand[t].pick] = hand[t].seq
       THEN /\ row' = [row EXCEPT ![hand[t].pick] = Nil]
            /\ hand' = [hand EXCEPT ![t] = [Empty EXCEPT !.msgs = {hand[t].pick}, !.why = "flush"]]
            /\ Go(t, "check")
       ELSE UNCHANGED <<row, hand, at>>
    /\ UNCHANGED <<counter, turns, running, asking, inbox, fate, crashes>>

PopClaim(t) ==
    /\ at[t] = "pop"
    /\ IF row[hand[t].pick] = hand[t].seq
       THEN /\ row' = [row EXCEPT ![hand[t].pick] = Nil]
            /\ hand' = [hand EXCEPT ![t] = [Empty EXCEPT !.msgs = {hand[t].pick}, !.why = "flush"]]
            /\ Go(t, "check")
       ELSE Go(t, "flush") /\ UNCHANGED <<row, hand>>
    /\ UNCHANGED <<counter, turns, running, asking, inbox, fate, crashes>>

-----------------------------------------------------------------------------
\* The process dies and the next one resumes the latest turn left running,
\* with the steering it had not read; a turn whose outcome was told is closed,
\* an older one superseded.  What a sender held in memory is gone.

Unfinished == {t \in DOMAIN turns : turns[t].status = "running"}

Latest(t) == t \in Unfinished /\ \A u \in Unfinished : u <= t

Resumed(t) == Latest(t) /\ ~turns[t].told

\* Unread steering of a turn that had not finished is stored with it.
Stored(t) == (IF running = t THEN inbox ELSE {})
             \cup (IF at[t] \in {"release", "record", "finish"} THEN hand[t].msgs ELSE {})

Crash ==
    /\ crashes < MaxCrash
    /\ crashes' = crashes + 1
    /\ turns' = [t \in DOMAIN turns |->
                   IF t \in Unfinished /\ ~Resumed(t) THEN [turns[t] EXCEPT !.status = "ended"]
                   ELSE turns[t]]
    /\ running' = IF \E t \in Unfinished : Resumed(t)
                  THEN CHOOSE t \in Unfinished : Resumed(t) ELSE Nil
    /\ at' = [a \in Actors |-> IF a \in Unfinished /\ Resumed(a) THEN "run" ELSE "idle"]
    /\ hand' = [a \in Actors |-> Empty]
    /\ inbox' = UNION {Stored(t) : t \in {u \in Unfinished : Resumed(u)}}
    /\ fate' = [m \in Messages |->
                  IF m \in inbox \cup UNION {hand[a].msgs : a \in {b \in Actors : hand[b].why = "late" /\ hand[b].turn = Nil}}
                  THEN IF m \in inbox' THEN fate[m] ELSE "unread"
                  ELSE IF \E a \in Actors : m \in hand[a].msgs /\ hand[a].why \in {"steer", "flush"} /\ hand[a].turn = Nil
                       THEN "lost" ELSE fate[m]]
    /\ asking' = FALSE
    /\ counter' = Nil
    /\ UNCHANGED row

-----------------------------------------------------------------------------
Client(c) == \/ \E m \in Messages : \/ EnqueueCheck(c, m) \/ DeleteFollowup(c, m)
                                     \/ RequeueFollowup(c, m) \/ TakeFollowup(c, m)
             \/ EnqueueWrite(c) \/ SteerOrStart(c) \/ Send(c)

Start(a) == \/ StartCheck(a) \/ StartFail(a) \/ StartCreate(a) \/ StartAbort(a) \/ StartClaim(a)
            \/ RestoreRead(a) \/ RestoreWrite(a)

Turn(t) == \/ Ask(t) \/ ReadInbox(t)
           \/ \E outcome \in {"done", "error", "cancelled"} : Conclude(t, outcome)
           \/ Release(t) \/ RecordOutcome(t) \/ FinishTurn(t) \/ PopSelect(t) \/ PopClaim(t)

Next == \/ \E c \in Clients : Client(c)
        \/ \E a \in Actors : Start(a)
        \/ \E t \in 1..MaxTurn : Turn(t)
        \/ Crash

Spec == Init /\ [][Next]_vars

\* A call in progress and the end of a turn are code that runs on; a turn may
\* run, and a client stay away, for ever.
FairSpec == /\ Spec
            /\ \A a \in Actors : WF_vars(Start(a))
            /\ \A c \in Clients : WF_vars(EnqueueWrite(c) \/ SteerOrStart(c))
            /\ \A t \in 1..MaxTurn :
                 WF_vars(Release(t) \/ RecordOutcome(t) \/ FinishTurn(t) \/ PopSelect(t) \/ PopClaim(t))

-----------------------------------------------------------------------------
Statuses == {"none", "done", "error", "cancelled"}

Hands == [msgs : SUBSET Messages, why : {"none", "enqueue", "steer", "send", "late", "flush"},
          turn : (1..MaxTurn) \cup {Nil}, pick : Messages \cup {Nil}, seq : Int \cup {Nil},
          status : Statuses, tries : Nat]

Labels == {"idle", "enqueue", "steer", "check", "create", "claim", "restore", "unshift",
           "run", "release", "record", "finish", "flush", "pop"}

TurnRows == [msgs : SUBSET Messages, told : BOOLEAN, status : {"running", "refused", "ended"},
             faults : SUBSET {"start", "end"}]

Fates == {"none", "deleted", "read", "unread", "answer", "lost"}

\* The state has the shape the code gives it: the waiting rows, the turn rows
\* and what each goroutine of followup.go and turn.go holds.
TypeOK == /\ row \in [Messages -> Int \cup {Nil}]
          /\ counter \in Int \cup {Nil}
          /\ turns \in Seq(TurnRows) /\ Len(turns) <= MaxTurn
          /\ running \in DOMAIN turns \cup {Nil}
          /\ asking \in BOOLEAN
          /\ inbox \subseteq Messages
          /\ at \in [Actors -> Labels]
          /\ hand \in [Actors -> Hands]
          /\ fate \in [Messages -> Fates]
          /\ crashes \in 0..MaxCrash

\* However senders, edits, lost starts, retries and crashes interleave, a
\* message is in one place only: its row, one sender's hand, one turn, an inbox,
\* or gone.  The row of a start that failed is no such place: its text went back
\* to the sender, though the row may still be running (see OneTurnPerMessage).
MessageInOnePlace == \A m \in Messages : \A p, q \in Places(m) : p = q

Owned(t) == \/ at[t] \in {"run", "release", "record", "finish"}
            \/ \E a \in Actors : at[a] = "claim" /\ hand[a].turn = t

\* A turn row left running has a goroutine that will finish it, the start that
\* is about to claim the runtime or the turn's own (StartTurn, run), and only a
\* failed start or a failed closing write ever breaks that: no interleaving of
\* claims, ends, flushes and crashes does.
RunningRowOwned == \A t \in Unfinished : Owned(t) \/ turns[t].faults # {}

\* Without that exception.  Does not hold once AppendMessages fails after
\* CreateTurn (turn.go): nobody closes the row.
EveryRunningRowOwned == \A t \in Unfinished : Owned(t)

\* A message is the request of one turn that ran or will run.  Does not hold
\* after the same failure: the sender retries or puts the message back, and the
\* next process resumes the row that was left running.
OneTurnPerMessage ==
    \A t, u \in DOMAIN turns :
        /\ turns[t].status # "refused" /\ turns[u].status # "refused"
        /\ turns[t].msgs \cap turns[u].msgs # {}
        => t = u

\* Where a message is, for Mailbox.
Where(m) ==
    IF row[m] # Nil THEN "waiting"
    ELSE IF fate[m] \in {"deleted", "lost"} THEN "dropped"
    ELSE IF \E a \in Actors : m \in hand[a].msgs /\ hand[a].why \in {"steer", "flush"} THEN "out"
    ELSE IF Unsaid(m) \/ \E a \in Actors : m \in hand[a].msgs /\ hand[a].why = "enqueue" THEN "new"
    ELSE "delivered"

Box == INSTANCE Mailbox WITH where <- [m \in Messages |-> Where(m)]

\* The queue keeps Mailbox's promise: only the sender that took a message
\* delivers it, a start that loses brings it back, delivered is for good
\* (followups.go, followup.go).
ImplementsMailbox == Box!Spec

\* Every call returns and every ended turn's goroutine ends, however often the
\* row it looked at was edited or taken, once clients make no more new calls.
CallsReturn ==
    <>[][\A c \in Clients : at[c] = "idle" => at'[c] = "idle" /\ counter' \in {counter, Nil}]_vars
        => <>[](\A a \in Actors : at[a] \in {"idle", "run"})
=============================================================================
