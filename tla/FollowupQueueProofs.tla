------------------------ MODULE FollowupQueueProofs ------------------------
(***************************************************************************)
(* Any messages and clients, and a conversation of any length.               *)
(***************************************************************************)
EXTENDS FollowupQueue, SequenceTheorems, TLAPS

Senders == {"steer", "send", "late", "flush"}

\* A row whose end nobody failed to write, and one whose text is nowhere else.
Open(r) == r.status = "running" /\ r.faults = {}
Counts(r) == r.status # "refused" /\ "start" \notin r.faults

\* The label and the hand of an actor agree with each other and with the rows.
HandFits(l, h, ts) ==
    /\ l \in {"idle", "run", "flush", "pop"} => h.msgs = {} /\ h.why = "none"
    /\ l # "claim" => h.turn = Nil
    /\ l = "claim" => /\ h.turn \in DOMAIN ts
                      /\ ts[h.turn].msgs = h.msgs /\ Open(ts[h.turn])
    /\ l = "enqueue" <=> h.why = "enqueue"
    /\ l = "steer" => h.why = "steer"
    /\ l \in {"check", "create", "claim"} => h.why \in Senders
    /\ l \in {"restore", "unshift"} => h.why \in {"steer", "flush"}
    /\ l \in {"unshift", "pop"} => h.seq \in Int
    /\ l \in {"release", "record", "finish"} => h.why = "late"
    /\ l = "pop" => h.pick \in Messages
    /\ h.why = "send" => h.msgs = {}
    /\ h.why \in {"enqueue", "steer", "flush"} => \E m \in Messages : h.msgs = {m}

HandsSound == \A a \in Actors : HandFits(at[a], hand[a], turns)

\* One start per row.
OneStart == \A a, b \in Actors : hand[a].turn = hand[b].turn /\ hand[a].turn # Nil => a = b

Running == {"run", "release", "record", "finish"}

\* A turn's goroutine, its row and the runtime agree.
TurnsSound ==
    \A t \in 1..MaxTurn :
        /\ t \notin DOMAIN turns \/ Bound(t) => at[t] = "idle"
        /\ at[t] \in {"run", "release"} <=> running = t
        /\ at[t] \in Running => turns[t].status = "running"

Shape == TypeOK /\ HandsSound /\ OneStart /\ TurnsSound /\ RunningRowOwned

LEMMA EmptyHand ==
    /\ Empty \in Hands /\ Empty.msgs = {} /\ Empty.why = "none" /\ Empty.turn = Nil
BY NilAssumption DEF Empty, Hands, Statuses

LEMMA InitShape == Init => Shape
<1> SUFFICES ASSUME Init PROVE Shape
  OBVIOUS
<1> USE DEF Init
<1>1. TypeOK
  <2>1. turns \in Seq(TurnRows) /\ Len(turns) <= MaxTurn /\ crashes \in 0..MaxCrash
    BY BoundAssumption
  <2>2. at \in [Actors -> Labels] /\ fate \in [Messages -> Fates] /\ hand \in [Actors -> Hands]
    BY EmptyHand DEF Labels, Fates
  <2>3. row \in [Messages -> Int \cup {Nil}]
    OBVIOUS
  <2> QED
    BY <2>1, <2>2, <2>3 DEF TypeOK
<1>2. HandsSound /\ OneStart
  BY EmptyHand DEF HandsSound, HandFits, OneStart
<1>3. TurnsSound
  BY NilAssumption DEF TurnsSound, Running, Actors
<1>4. RunningRowOwned
  BY DEF RunningRowOwned, Unfinished
<1> QED
  BY <1>1, <1>2, <1>3, <1>4 DEF Shape

\* What an actor knows of itself.
LEMMA Actor ==
    ASSUME Shape, NEW a \in Actors
    PROVE  /\ hand[a] \in Hands /\ HandFits(at[a], hand[a], turns)
           /\ at \in [Actors -> Labels] /\ hand \in [Actors -> Hands]
           /\ turns \in Seq(TurnRows) /\ Len(turns) \in Nat /\ DOMAIN turns = 1..Len(turns)
           /\ DOMAIN turns \subseteq 1..MaxTurn /\ 1..MaxTurn \subseteq Actors
           /\ Nil \notin 1..MaxTurn
<1>1. turns \in Seq(TurnRows) /\ Len(turns) <= MaxTurn
  BY DEF Shape, TypeOK
<1>2. Len(turns) \in Nat /\ DOMAIN turns = 1..Len(turns)
  BY <1>1
<1>3. DOMAIN turns \subseteq 1..MaxTurn
  BY <1>1, <1>2, BoundAssumption
<1>4. hand[a] \in Hands /\ HandFits(at[a], hand[a], turns)
      /\ at \in [Actors -> Labels] /\ hand \in [Actors -> Hands]
  BY DEF Shape, TypeOK, HandsSound
<1> QED
  BY <1>1, <1>2, <1>3, <1>4, NilAssumption, BoundAssumption DEF Actors

\* An actor goes on; it starts no turn.  A row it changes is its own, or the
\* one it was about to claim the runtime for.
LEMMA ActorGoes ==
    ASSUME Shape, NEW a \in Actors, NEW l \in Labels, NEW h \in Hands,
           at[a] = "idle" => a \in Clients \/ l = "idle",
           Go(a, l), hand' = [hand EXCEPT ![a] = h], HandFits(l, h, turns'),
           l # "claim", at[a] = "claim" => ~Open(turns'[hand[a].turn]),
           l \in Running => at[a] \in Running /\ turns'[a].status = "running",
           at[a] \in Running /\ l \notin Running => ~Open(turns'[a]),
           a \in 1..MaxTurn => (l \in {"run", "release"} <=> running' = a),
           running' = running \/ (running = a /\ running' = Nil),
           turns' \in Seq(TurnRows), Len(turns') = Len(turns), DOMAIN turns' = DOMAIN turns,
           \A t \in DOMAIN turns : /\ turns'[t].msgs = turns[t].msgs
                                   /\ \/ turns'[t] = turns[t]
                                      \/ t = a /\ at[a] \in Running
                                      \/ t = hand[a].turn,
           row' \in [Messages -> Int \cup {Nil}], counter' \in Int \cup {Nil},
           asking' \in BOOLEAN, inbox' \in SUBSET Messages,
           fate' \in [Messages -> Fates], crashes' = crashes
    PROVE  Shape'
<1>0. hand[a] \in Hands /\ HandFits(at[a], hand[a], turns)
      /\ DOMAIN turns \subseteq 1..MaxTurn /\ 1..MaxTurn \subseteq Actors /\ Nil \notin 1..MaxTurn
      /\ at \in [Actors -> Labels] /\ hand \in [Actors -> Hands]
  BY Actor
<1>1. /\ at' \in [Actors -> Labels] /\ hand' \in [Actors -> Hands]
      /\ at'[a] = l /\ hand'[a] = h
      /\ \A b \in Actors : b # a => at'[b] = at[b] /\ hand'[b] = hand[b]
  BY <1>0 DEF Go
<1>2. TypeOK'
  BY <1>1 DEF Shape, TypeOK
<1>3. h.turn = Nil
  BY DEF HandFits
<1>4. \A t \in 1..MaxTurn : Bound(t) => at[t] = "idle" /\ t \in DOMAIN turns
  <2> SUFFICES ASSUME NEW t \in 1..MaxTurn, NEW b \in Actors, hand[b].turn = t
               PROVE  at[t] = "idle" /\ t \in DOMAIN turns
    BY DEF Bound
  <2>1. HandFits(at[b], hand[b], turns)
    BY DEF Shape, HandsSound
  <2> QED
    BY <1>0, <2>1 DEF HandFits, Bound, Shape, TurnsSound
<1>5. HandsSound'
  <2> SUFFICES ASSUME NEW b \in Actors PROVE HandFits(at'[b], hand'[b], turns')
    BY DEF HandsSound
  <2>1. CASE b = a
    BY <1>1, <2>1
  <2>2. CASE b # a
    <3>1. HandFits(at[b], hand[b], turns) /\ at'[b] = at[b] /\ hand'[b] = hand[b]
      BY <1>1, <2>2 DEF Shape, HandsSound
    <3>2. ASSUME at[b] = "claim" PROVE turns'[hand[b].turn] = turns[hand[b].turn]
      <4>1. hand[b].turn \in DOMAIN turns
        BY <3>1, <3>2 DEF HandFits
      <4>2. hand[b].turn # hand[a].turn
        BY <1>0, <2>2, <4>1 DEF Shape, OneStart
      <4>3. at[hand[b].turn] = "idle"
        BY <1>0, <1>4, <4>1 DEF Bound
      <4> QED
        BY <4>1, <4>2, <4>3 DEF Running
    <3> QED
      BY <3>1, <3>2 DEF HandFits
  <2> QED
    BY <2>1, <2>2
<1>6. OneStart'
  BY <1>1, <1>3 DEF Shape, OneStart
<1>7. \A t \in 1..MaxTurn : Bound(t)' => Bound(t)
  BY <1>0, <1>1, <1>3 DEF Bound
<1>8. TurnsSound'
  <2> SUFFICES ASSUME NEW t \in 1..MaxTurn
               PROVE  /\ t \notin DOMAIN turns' \/ Bound(t)' => at'[t] = "idle"
                      /\ at'[t] \in {"run", "release"} <=> running' = t
                      /\ at'[t] \in Running => turns'[t].status = "running"
    BY DEF TurnsSound
  <2>0. /\ t \notin DOMAIN turns \/ Bound(t) => at[t] = "idle"
        /\ at[t] \in {"run", "release"} <=> running = t
        /\ at[t] \in Running => turns[t].status = "running"
    BY DEF Shape, TurnsSound
  <2>1. CASE t = a
    <3>1. a \notin Clients
      BY <2>1, ActorAssumption
    <3> QED
      BY <1>1, <1>7, <2>0, <2>1, <3>1
  <2>2. CASE t # a
    <3>1. at'[t] = at[t]
      BY <1>0, <1>1, <2>2
    <3>2. at[t] \in Running => turns'[t] = turns[t]
      BY <1>0, <2>0, <2>2 DEF Bound, Running
    <3> QED
      BY <1>0, <1>7, <2>0, <2>2, <3>1, <3>2
  <2> QED
    BY <2>1, <2>2
<1>9. RunningRowOwned'
  <2> SUFFICES ASSUME NEW t \in DOMAIN turns, Open(turns'[t])
               PROVE  \/ at'[t] \in Running
                      \/ \E b \in Actors : at'[b] = "claim" /\ hand'[b].turn = t
    BY DEF RunningRowOwned, Owned, Open, Unfinished, Running
  <2>1. CASE t = a /\ at[a] \in Running
    BY <1>0, <1>1, <2>1
  <2>2. CASE t = hand[a].turn
    BY <1>0, <2>2 DEF HandFits
  <2>3. CASE turns'[t] = turns[t] /\ ~(t = a /\ at[a] \in Running) /\ t # hand[a].turn
    <3>1. \/ at[t] \in Running
          \/ \E b \in Actors : at[b] = "claim" /\ hand[b].turn = t
      BY <2>3 DEF Shape, RunningRowOwned, Owned, Open, Unfinished, Running
    <3>2. CASE at[t] \in Running
      <4>1. t # a /\ t \in Actors
        BY <1>0, <2>3, <3>2
      <4> QED
        BY <1>1, <3>2, <4>1
    <3>3. CASE \E b \in Actors : at[b] = "claim" /\ hand[b].turn = t
      <4>1. PICK b \in Actors : at[b] = "claim" /\ hand[b].turn = t
        BY <3>3
      <4>2. b # a
        BY <2>3, <4>1
      <4> QED
        BY <1>1, <4>1, <4>2
    <3> QED
      BY <3>1, <3>2, <3>3
  <2> QED
    BY <2>1, <2>2, <2>3
<1> QED
  BY <1>2, <1>5, <1>6, <1>8, <1>9 DEF Shape

\* An actor goes on and no turn is touched.
LEMMA ActorMoves ==
    ASSUME Shape, NEW a \in Actors, NEW l \in Labels \ (Running \cup {"claim"}), NEW h \in Hands,
           at[a] \notin Running \cup {"claim"}, at[a] = "idle" => a \in Clients \/ l = "idle",
           Go(a, l), hand' = [hand EXCEPT ![a] = h], HandFits(l, h, turns),
           UNCHANGED <<turns, running, crashes>>,
           row' \in [Messages -> Int \cup {Nil}], counter' \in Int \cup {Nil},
           asking' \in BOOLEAN, inbox' \in SUBSET Messages, fate' \in [Messages -> Fates]
    PROVE  Shape'
<1>1. a \in 1..MaxTurn => (l \in {"run", "release"} <=> running' = a)
  BY DEF Shape, TurnsSound, Running
<1>2. turns' \in Seq(TurnRows) /\ Len(turns') = Len(turns) /\ DOMAIN turns' = DOMAIN turns
  BY Actor
<1>3. l \notin Running /\ l # "claim" /\ l \in Labels /\ at[a] \notin Running /\ at[a] # "claim"
  OBVIOUS
<1>4. HandFits(l, h, turns')
  OBVIOUS
<1> QED
  BY <1>1, <1>2, <1>3, <1>4, ActorGoes

\* Nothing of the turns or the actors changes.
LEMMA NobodyGoes ==
    ASSUME Shape, UNCHANGED <<turns, running, at, hand>>,
           row' \in [Messages -> Int \cup {Nil}], counter' \in Int \cup {Nil},
           asking' \in BOOLEAN, inbox' \in SUBSET Messages, fate' \in [Messages -> Fates],
           crashes' \in 0..MaxCrash
    PROVE  Shape'
<1>1. TypeOK'
  BY DEF Shape, TypeOK
<1>2. HandsSound' /\ OneStart' /\ TurnsSound' /\ RunningRowOwned'
  BY DEF Shape, HandsSound, OneStart, TurnsSound, RunningRowOwned, Owned, Unfinished, Bound
<1> QED
  BY <1>1, <1>2 DEF Shape

LEMMA Typed ==
    ASSUME Shape
    PROVE  /\ row \in [Messages -> Int \cup {Nil}] /\ counter \in Int \cup {Nil} /\ NextSeq \in Int
           /\ asking \in BOOLEAN /\ inbox \subseteq Messages /\ fate \in [Messages -> Fates]
           /\ MinRow \in Int
           /\ \A M \in SUBSET Messages, f \in Fates : Set(M, f) \in [Messages -> Fates]
<1>1. row \in [Messages -> Int \cup {Nil}] /\ counter \in Int \cup {Nil}
      /\ asking \in BOOLEAN /\ inbox \subseteq Messages /\ fate \in [Messages -> Fates]
  BY DEF Shape, TypeOK
<1>2. \A m \in Waiting : m \in Messages /\ row[m] \in Int
  BY <1>1 DEF Waiting
<1>3. MaxRow \in Int
  BY <1>2 DEF MaxRow
<1>4. MinRow \in Int
  BY <1>2 DEF MinRow, Heads
<1> QED
  BY <1>1, <1>3, <1>4 DEF NextSeq, Set

LEMMA Returned ==
    ASSUME Shape, NEW a \in Actors, Return(a)
    PROVE  /\ Go(a, "idle") /\ hand' = [hand EXCEPT ![a] = Empty]
           /\ HandFits("idle", Empty, turns) /\ HandFits("idle", Empty, turns')
BY EmptyHand DEF Return, Go, HandFits

LEMMA FailedOne ==
    ASSUME Shape, NEW a \in Actors, at[a] \in {"check", "create", "claim"}, Failed(a)
    PROVE  \E l \in {"idle", "restore", "check"}, h \in Hands :
               /\ Go(a, l) /\ hand' = [hand EXCEPT ![a] = h]
               /\ HandFits(l, h, turns) /\ HandFits(l, h, turns')
               /\ fate' \in [Messages -> Fates]
<1>0. hand[a] \in Hands /\ HandFits(at[a], hand[a], turns) /\ fate \in [Messages -> Fates]
      /\ hand[a].msgs \subseteq Messages
  BY Actor, Typed DEF Hands
<1>1. CASE hand[a].why \in {"send", "late"}
  <2>1. Return(a) /\ fate' \in [Messages -> Fates]
    BY <1>0, <1>1, Typed DEF Failed, Refused, Fates
  <2> QED
    BY <2>1, Returned, EmptyHand
<1>2. CASE Refused(a) /\ hand[a].why \in {"steer", "flush"}
  <2> DEFINE h == [hand[a] EXCEPT !.turn = Nil, !.tries = 0]
  <2>1. h \in Hands /\ h.turn = Nil /\ h.msgs = hand[a].msgs /\ h.why = hand[a].why
    BY <1>0 DEF Hands
  <2>2. Go(a, "restore") /\ hand' = [hand EXCEPT ![a] = h] /\ fate' = fate
    BY <1>2 DEF Refused
  <2>3. HandFits("restore", h, turns) /\ HandFits("restore", h, turns')
    BY <1>0, <1>2, <2>1 DEF HandFits
  <2> HIDE DEF h
  <2> QED
    BY <1>0, <2>1, <2>2, <2>3
<1>3. CASE ~Refused(a)
  <2> DEFINE h == [hand[a] EXCEPT !.turn = Nil, !.tries = @ + 1]
  <2>0. hand[a].tries + 1 \in Nat
    BY <1>0 DEF Hands
  <2>1. h \in Hands /\ h.turn = Nil /\ h.msgs = hand[a].msgs /\ h.why = hand[a].why
    BY <1>0, <2>0 DEF Hands
  <2>2. Go(a, "check") /\ hand' = [hand EXCEPT ![a] = h] /\ fate' = fate /\ hand[a].why = "flush"
    BY <1>3 DEF Failed
  <2>3. HandFits("check", h, turns) /\ HandFits("check", h, turns')
    BY <1>0, <2>1, <2>2 DEF HandFits, Senders
  <2> HIDE DEF h
  <2> QED
    BY <1>0, <2>1, <2>2, <2>3
<1> QED
  BY <1>0, <1>1, <1>2, <1>3 DEF HandFits, Senders

\* The row of a start that failed neither waits for its owner nor holds its text.
LEMMA Abandoned ==
    ASSUME Shape, NEW t \in DOMAIN turns, Abandon(t)
    PROVE  /\ turns' \in Seq(TurnRows) /\ Len(turns') = Len(turns) /\ DOMAIN turns' = DOMAIN turns
           /\ turns'[t].msgs = turns[t].msgs /\ ~Open(turns'[t]) /\ ~Counts(turns'[t])
           /\ \A u \in DOMAIN turns : u # t => turns'[u] = turns[u]
<1>0. turns \in Seq(TurnRows)
  BY DEF Shape, TypeOK
<1>1. turns[t] \in TurnRows
  BY <1>0, ElementOfSeq
<1>2. PICK x \in TurnRows : /\ turns' = [turns EXCEPT ![t] = x] /\ x.msgs = turns[t].msgs
                            /\ ~Open(x) /\ ~Counts(x)
  <2>1. CASE turns' = [turns EXCEPT ![t].status = "refused"]
    <3> DEFINE x == [turns[t] EXCEPT !.status = "refused"]
    <3>1. x \in TurnRows /\ x.msgs = turns[t].msgs /\ x.status = "refused" /\ turns' = [turns EXCEPT ![t] = x]
      BY <1>1, <2>1 DEF TurnRows
    <3> HIDE DEF x
    <3> QED
      BY <3>1 DEF Open, Counts
  <2>2. CASE LeftRunning(t, "start")
    <3> DEFINE x == [turns[t] EXCEPT !.faults = @ \cup {"start"}]
    <3>1. x \in TurnRows /\ x.msgs = turns[t].msgs /\ "start" \in x.faults /\ turns' = [turns EXCEPT ![t] = x]
      BY <1>1, <2>2 DEF TurnRows, LeftRunning
    <3> HIDE DEF x
    <3> QED
      BY <3>1 DEF Open, Counts
  <2> QED
    BY <2>1, <2>2 DEF Abandon
<1>3. /\ turns' \in Seq(TurnRows) /\ Len(turns') = Len(turns) /\ DOMAIN turns' = DOMAIN turns
      /\ turns'[t] = x /\ \A u \in DOMAIN turns : u # t => turns'[u] = turns[u]
  BY <1>0, <1>2, ExceptSeq
<1> QED
  BY <1>2, <1>3

\* The row of a turn that ended has no more owner; its text is where it was.
LEMMA Ended ==
    ASSUME Shape, NEW t \in 1..MaxTurn, FinishTurn(t)
    PROVE  /\ t \in DOMAIN turns
           /\ \E x \in TurnRows : /\ turns' = [turns EXCEPT ![t] = x] /\ x.msgs = turns[t].msgs
                                   /\ ~Open(x) /\ (Counts(x) <=> Counts(turns[t]))
           /\ DOMAIN turns' = DOMAIN turns
           /\ \A u \in DOMAIN turns : turns'[u].msgs = turns[u].msgs /\ (Counts(turns'[u]) <=> Counts(turns[u]))
<1>1. turns \in Seq(TurnRows) /\ t \in DOMAIN turns /\ turns[t].status = "running"
  BY DEF FinishTurn, Shape, TypeOK, TurnsSound, Running
<1>2. turns[t] \in TurnRows
  BY <1>1, ElementOfSeq
<1>3. PICK x \in TurnRows : /\ turns' = [turns EXCEPT ![t] = x] /\ x.msgs = turns[t].msgs
                            /\ ~Open(x) /\ (Counts(x) <=> Counts(turns[t]))
  <2>1. CASE turns' = [turns EXCEPT ![t].status = "ended"]
    <3> DEFINE x == [turns[t] EXCEPT !.status = "ended"]
    <3>1. /\ x \in TurnRows /\ x.msgs = turns[t].msgs /\ x.status = "ended" /\ x.faults = turns[t].faults
          /\ turns' = [turns EXCEPT ![t] = x]
      BY <1>2, <2>1 DEF TurnRows
    <3> HIDE DEF x
    <3> QED
      BY <1>1, <3>1 DEF Open, Counts
  <2>2. CASE LeftRunning(t, "end")
    <3> DEFINE x == [turns[t] EXCEPT !.faults = @ \cup {"end"}]
    <3>1. /\ x \in TurnRows /\ x.msgs = turns[t].msgs /\ x.status = "running"
          /\ x.faults = turns[t].faults \cup {"end"} /\ turns' = [turns EXCEPT ![t] = x]
      BY <1>1, <1>2, <2>2 DEF TurnRows, LeftRunning
    <3> HIDE DEF x
    <3> QED
      BY <1>1, <3>1 DEF Open, Counts
  <2> QED
    BY <2>1, <2>2 DEF FinishTurn
<1>4. /\ DOMAIN turns' = DOMAIN turns /\ turns'[t] = x
      /\ \A u \in DOMAIN turns : u # t => turns'[u] = turns[u]
  BY <1>1, <1>3, ExceptSeq
<1> QED
  BY <1>1, <1>3, <1>4

LEMMA LabelsFree ==
    /\ {"idle", "enqueue", "steer", "check", "create", "restore", "unshift", "flush", "pop"}
          = Labels \ (Running \cup {"claim"})
    /\ Running \cup {"claim"} \subseteq Labels
BY DEF Labels, Running

-----------------------------------------------------------------------------
LEMMA ClientShape == ASSUME Shape, NEW c \in Clients, Client(c) PROVE Shape'
<1>0. /\ c \in Actors /\ hand[c] \in Hands /\ HandFits(at[c], hand[c], turns) /\ hand \in [Actors -> Hands]
      /\ crashes \in 0..MaxCrash
  BY Actor DEF Actors, Shape, TypeOK
<1>t. /\ row \in [Messages -> Int \cup {Nil}] /\ counter \in Int \cup {Nil} /\ NextSeq \in Int
      /\ asking \in BOOLEAN /\ inbox \subseteq Messages /\ fate \in [Messages -> Fates]
  BY Typed
<1>1. ASSUME NEW m \in Messages, NEW why \in {"enqueue", "steer"},
             hand' = [hand EXCEPT ![c] = [Empty EXCEPT !.msgs = {m}, !.why = why]],
             Go(c, why), at[c] = "idle", UNCHANGED <<turns, running, crashes, counter, asking, inbox>>,
             row' \in [Messages -> Int \cup {Nil}], fate' \in [Messages -> Fates]
      PROVE  Shape'
  <2> DEFINE h == [Empty EXCEPT !.msgs = {m}, !.why = why]
  <2>1. /\ h \in Hands /\ h.msgs = {m} /\ h.why = why /\ h.turn = Nil
        /\ hand' = [hand EXCEPT ![c] = h]
    BY <1>1, EmptyHand DEF Hands
  <2>2. HandFits(why, h, turns)
    BY <2>1 DEF HandFits
  <2> HIDE DEF h
  <2> QED
    BY <1>0, <1>t, <1>1, <2>1, <2>2, LabelsFree, ActorMoves
<1>2. ASSUME NEW m \in Messages, EnqueueCheck(c, m) PROVE Shape'
  BY <1>1, <1>2, <1>t DEF EnqueueCheck
<1>3. ASSUME NEW m \in Messages, TakeFollowup(c, m) PROVE Shape'
  BY <1>1, <1>3, <1>t DEF TakeFollowup
<1>4. ASSUME NEW m \in Messages, DeleteFollowup(c, m) \/ RequeueFollowup(c, m) PROVE Shape'
  BY <1>0, <1>4, <1>t, NobodyGoes DEF DeleteFollowup, RequeueFollowup, Fates
<1>5. CASE EnqueueWrite(c)
  <2>1. row' \in [Messages -> Int \cup {Nil}] /\ counter' \in Int
    BY <1>5, <1>t DEF EnqueueWrite
  <2> QED
    BY <1>0, <1>5, <1>t, <2>1, LabelsFree, EmptyHand, Returned, ActorMoves DEF EnqueueWrite
<1>6. CASE SteerOrStart(c)
  <2>0. /\ at[c] = "steer" /\ at[c] \notin Running \cup {"claim"}
        /\ UNCHANGED <<row, counter, turns, running, asking, fate, crashes>>
    BY <1>6 DEF SteerOrStart, Running
  <2>1. CASE inbox' = inbox \cup hand[c].msgs /\ Return(c)
    <3>1. inbox' \in SUBSET Messages
      BY <1>0, <1>t, <2>1 DEF Hands
    <3> QED
      BY <1>0, <1>t, <2>0, <2>1, <3>1, LabelsFree, EmptyHand, Returned, ActorMoves
  <2>2. ASSUME NEW l \in {"check", "restore"}, Go(c, l), UNCHANGED <<inbox, hand>> PROVE Shape'
    <3>1. HandFits(l, hand[c], turns) /\ hand' = [hand EXCEPT ![c] = hand[c]]
      BY <1>0, <2>0, <2>2 DEF HandFits, Senders
    <3> QED
      BY <1>0, <1>t, <2>0, <2>2, <3>1, LabelsFree, ActorMoves
  <2> QED
    BY <1>6, <2>1, <2>2 DEF SteerOrStart
<1>7. CASE Send(c)
  <2> DEFINE h == [Empty EXCEPT !.why = "send"]
  <2>1. /\ h \in Hands /\ h.msgs = {} /\ h.why = "send" /\ h.turn = Nil
        /\ hand' = [hand EXCEPT ![c] = h]
    BY <1>7, EmptyHand DEF Hands, Send
  <2>2. HandFits("check", h, turns)
    BY <2>1 DEF HandFits, Senders
  <2> HIDE DEF h
  <2> QED
    BY <1>0, <1>7, <1>t, <2>1, <2>2, LabelsFree, ActorMoves DEF Send
<1> QED
  BY <1>2, <1>3, <1>4, <1>5, <1>6, <1>7 DEF Client

\* A failed start of an actor that had no row.
LEMMA FailedShape ==
    ASSUME Shape, NEW a \in Actors, at[a] \in {"check", "create"}, Failed(a),
           UNCHANGED <<row, counter, turns, running, inbox, crashes>>, asking' \in BOOLEAN
    PROVE  Shape'
<1>1. PICK l \in {"idle", "restore", "check"}, h \in Hands :
           /\ Go(a, l) /\ hand' = [hand EXCEPT ![a] = h] /\ HandFits(l, h, turns)
           /\ fate' \in [Messages -> Fates]
  BY FailedOne
<1>2. at[a] \notin Running \cup {"claim"} /\ at[a] # "idle"
  BY DEF Running
<1>3. l \in Labels \ (Running \cup {"claim"})
  BY LabelsFree
<1> QED
  BY <1>1, <1>2, <1>3, Typed, ActorMoves

LEMMA StartCreateShape == ASSUME Shape, NEW a \in Actors, StartCreate(a) PROVE Shape'
<1> DEFINE x == [msgs |-> hand[a].msgs, status |-> "running", told |-> FALSE, faults |-> {}]
           n == Len(turns) + 1
           h == [hand[a] EXCEPT !.turn = n]
<1>0. /\ hand[a] \in Hands /\ HandFits("create", hand[a], turns) /\ hand \in [Actors -> Hands]
      /\ at \in [Actors -> Labels] /\ DOMAIN turns \subseteq 1..MaxTurn /\ 1..MaxTurn \subseteq Actors
      /\ turns \in Seq(TurnRows) /\ Len(turns) \in Nat /\ DOMAIN turns = 1..Len(turns) /\ Nil \notin 1..MaxTurn
  BY Actor DEF StartCreate
<1>1. x \in TurnRows /\ x.msgs = hand[a].msgs /\ Open(x)
  BY <1>0 DEF TurnRows, Hands, Open
<1>2. /\ turns' = Append(turns, x) /\ Go(a, "claim") /\ hand' = [hand EXCEPT ![a] = h]
      /\ UNCHANGED <<row, counter, running, asking, inbox, fate, crashes>>
  BY <1>0 DEF StartCreate
<1> HIDE DEF x
<1>3. /\ turns' \in Seq(TurnRows) /\ Len(turns') = n /\ turns'[n] = x
      /\ \A t \in DOMAIN turns : turns'[t] = turns[t]
  BY <1>0, <1>1, <1>2, AppendProperties
<1>4. n \in 1..MaxTurn /\ n \notin DOMAIN turns /\ DOMAIN turns' = DOMAIN turns \cup {n} /\ n # Nil
  BY <1>0, <1>3, BoundAssumption DEF StartCreate
<1>5. h \in Hands /\ h.turn = n /\ h.msgs = hand[a].msgs /\ h.why = hand[a].why
  BY <1>0, <1>4 DEF Hands
<1> HIDE DEF h, n
<1>6. /\ at' \in [Actors -> Labels] /\ hand' \in [Actors -> Hands]
      /\ at'[a] = "claim" /\ hand'[a] = h
      /\ \A b \in Actors : b # a => at'[b] = at[b] /\ hand'[b] = hand[b]
  BY <1>0, <1>2, <1>5 DEF Go, Labels
<1>7. TypeOK'
  BY <1>2, <1>3, <1>4, <1>6 DEF Shape, TypeOK
<1>8. HandsSound'
  <2> SUFFICES ASSUME NEW b \in Actors PROVE HandFits(at'[b], hand'[b], turns')
    BY DEF HandsSound
  <2>1. CASE b = a
    BY <1>0, <1>1, <1>3, <1>4, <1>5, <1>6, <2>1 DEF HandFits
  <2>2. CASE b # a
    BY <1>3, <1>4, <1>6, <2>2 DEF HandFits, Shape, HandsSound
  <2> QED
    BY <2>1, <2>2
<1>9. \A b \in Actors : hand[b].turn # n
  BY <1>4 DEF HandFits, Shape, HandsSound
<1>10. OneStart'
  BY <1>5, <1>6, <1>9 DEF Shape, OneStart
<1>11. TurnsSound'
  <2> SUFFICES ASSUME NEW t \in 1..MaxTurn
               PROVE  /\ t \notin DOMAIN turns' \/ Bound(t)' => at'[t] = "idle"
                      /\ at'[t] \in {"run", "release"} <=> running' = t
                      /\ at'[t] \in Running => turns'[t].status = "running"
    BY DEF TurnsSound
  <2>0. /\ t \notin DOMAIN turns \/ Bound(t) => at[t] = "idle"
        /\ at[t] \in {"run", "release"} <=> running = t
        /\ at[t] \in Running => turns[t].status = "running"
    BY DEF Shape, TurnsSound
  <2>1. at[a] = "create"
    BY DEF StartCreate
  <2>2. Bound(t)' => Bound(t) \/ t = n
    BY <1>5, <1>6 DEF Bound
  <2>3. CASE t = a
    BY <1>0, <1>2, <1>4, <1>6, <2>0, <2>1, <2>2, <2>3 DEF Running
  <2>4. CASE t # a
    BY <1>0, <1>2, <1>3, <1>4, <1>6, <2>0, <2>2, <2>4 DEF Running
  <2> QED
    BY <2>3, <2>4
<1>12. RunningRowOwned'
  <2> SUFFICES ASSUME NEW t \in DOMAIN turns', Open(turns'[t])
               PROVE  \/ at'[t] \in Running
                      \/ \E b \in Actors : at'[b] = "claim" /\ hand'[b].turn = t
    BY DEF RunningRowOwned, Owned, Open, Unfinished, Running
  <2>1. CASE t = n
    BY <1>5, <1>6, <2>1
  <2>2. CASE t # n
    <3>1. t \in DOMAIN turns /\ Open(turns[t]) /\ at[a] = "create"
      BY <1>3, <1>4, <2>2 DEF StartCreate
    <3>2. at[t] \in Running \/ \E b \in Actors : at[b] = "claim" /\ hand[b].turn = t
      BY <3>1 DEF Shape, RunningRowOwned, Owned, Open, Unfinished, Running
    <3>3. CASE at[t] \in Running
      BY <1>0, <1>6, <3>1, <3>3 DEF Running
    <3>4. CASE \E b \in Actors : at[b] = "claim" /\ hand[b].turn = t
      BY <1>6, <3>1, <3>4
    <3> QED
      BY <3>2, <3>3, <3>4
  <2> QED
    BY <2>1, <2>2
<1> QED
  BY <1>7, <1>8, <1>10, <1>11, <1>12 DEF Shape

\* A start that had its row and failed.
LEMMA AbandonShape ==
    ASSUME Shape, NEW a \in Actors, at[a] = "claim", Abandon(hand[a].turn), Failed(a),
           UNCHANGED <<running, row, counter, asking, inbox, crashes>>
    PROVE  Shape'
<1>0. HandFits("claim", hand[a], turns)
  BY Actor
<1>1. PICK t \in DOMAIN turns : t = hand[a].turn
  BY <1>0 DEF HandFits
<1>2. /\ turns' \in Seq(TurnRows) /\ Len(turns') = Len(turns) /\ DOMAIN turns' = DOMAIN turns
      /\ ~Open(turns'[hand[a].turn])
      /\ \A u \in DOMAIN turns : turns'[u].msgs = turns[u].msgs /\ (turns'[u] = turns[u] \/ u = hand[a].turn)
  BY <1>1, Abandoned
<1>3. PICK l \in {"idle", "restore", "check"}, h \in Hands :
           /\ Go(a, l) /\ hand' = [hand EXCEPT ![a] = h]
           /\ HandFits(l, h, turns) /\ HandFits(l, h, turns')
           /\ fate' \in [Messages -> Fates]
  BY FailedOne
<1>4. l \in Labels /\ l \notin Running /\ l # "claim" /\ at[a] \notin Running
  BY LabelsFree DEF Running
<1>5. a \in 1..MaxTurn => (l \in {"run", "release"} <=> running' = a)
  BY <1>4 DEF Shape, TurnsSound, Running
<1>6. /\ row' \in [Messages -> Int \cup {Nil}] /\ counter' \in Int \cup {Nil}
      /\ asking' \in BOOLEAN /\ inbox' \in SUBSET Messages
  BY Typed
<1>7. /\ at[a] = "idle" => a \in Clients \/ l = "idle"
      /\ at[a] = "claim" => ~Open(turns'[hand[a].turn])
      /\ l \in Running => at[a] \in Running /\ turns'[a].status = "running"
      /\ at[a] \in Running /\ l \notin Running => ~Open(turns'[a])
      /\ running' = running \/ (running = a /\ running' = Nil)
      /\ \A u \in DOMAIN turns : /\ turns'[u].msgs = turns[u].msgs
                                /\ \/ turns'[u] = turns[u]
                                   \/ u = a /\ at[a] \in Running
                                   \/ u = hand[a].turn
      /\ crashes' = crashes
  BY <1>2, <1>4
<1> QED
  BY <1>2, <1>3, <1>4, <1>5, <1>6, <1>7, ActorGoes

LEMMA StartClaimShape == ASSUME Shape, NEW a \in Actors, StartClaim(a) PROVE Shape'
<1> DEFINE t == hand[a].turn
<1>0. /\ hand[a] \in Hands /\ HandFits("claim", hand[a], turns) /\ hand \in [Actors -> Hands]
      /\ at \in [Actors -> Labels] /\ DOMAIN turns \subseteq 1..MaxTurn /\ 1..MaxTurn \subseteq Actors
      /\ turns \in Seq(TurnRows) /\ Len(turns) \in Nat /\ DOMAIN turns = 1..Len(turns) /\ Nil \notin 1..MaxTurn
      /\ at[a] = "claim"
  BY Actor DEF StartClaim
<1>1. t \in DOMAIN turns /\ turns[t].status = "running" /\ t \in Actors /\ t # Nil
  BY <1>0 DEF HandFits, Open
<1>2. at[t] = "idle" /\ t # a
  BY <1>0, <1>1 DEF Shape, TurnsSound, Bound
<1>3. CASE running = Nil
  <2>1. /\ running' = t /\ at' = [at EXCEPT ![a] = "idle", ![t] = "run"]
        /\ hand' = [hand EXCEPT ![a] = Empty]
        /\ UNCHANGED <<turns, fate, row, counter, asking, inbox, crashes>>
    BY <1>3 DEF StartClaim
  <2>2. /\ at' \in [Actors -> Labels] /\ hand' \in [Actors -> Hands]
        /\ at'[a] = "idle" /\ at'[t] = "run" /\ hand'[a] = Empty
        /\ \A b \in Actors : b # a => hand'[b] = hand[b]
        /\ \A b \in Actors : b # a /\ b # t => at'[b] = at[b]
    BY <1>0, <1>1, <1>2, <2>1, EmptyHand DEF Labels
  <2>3. TypeOK'
    BY <1>1, <2>1, <2>2 DEF Shape, TypeOK
  <2>4. HandsSound'
    <3> SUFFICES ASSUME NEW b \in Actors PROVE HandFits(at'[b], hand'[b], turns')
      BY DEF HandsSound
    <3>1. HandFits(at[b], hand[b], turns)
      BY DEF Shape, HandsSound
    <3>2. CASE b = a
      BY <2>2, <3>2, EmptyHand DEF HandFits
    <3>3. CASE b = t
      BY <1>2, <2>1, <2>2, <3>1, <3>3 DEF HandFits
    <3>4. CASE b # a /\ b # t
      BY <2>1, <2>2, <3>1, <3>4
    <3> QED
      BY <3>2, <3>3, <3>4
  <2>5. OneStart'
    BY <2>2, EmptyHand DEF Shape, OneStart
  <2>6. \A u \in 1..MaxTurn : Bound(u)' => Bound(u) /\ u # t
    BY <1>0, <1>1, <2>2, EmptyHand DEF Bound, Shape, OneStart
  <2>7. TurnsSound'
    <3> SUFFICES ASSUME NEW u \in 1..MaxTurn
                 PROVE  /\ u \notin DOMAIN turns' \/ Bound(u)' => at'[u] = "idle"
                        /\ at'[u] \in {"run", "release"} <=> running' = u
                        /\ at'[u] \in Running => turns'[u].status = "running"
      BY DEF TurnsSound
    <3>0. /\ u \notin DOMAIN turns \/ Bound(u) => at[u] = "idle"
          /\ at[u] \in {"run", "release"} <=> running = u
          /\ at[u] \in Running => turns[u].status = "running"
      BY DEF Shape, TurnsSound
    <3>1. CASE u = t
      BY <1>0, <1>1, <2>1, <2>2, <2>6, <3>1 DEF Running
    <3>2. CASE u = a
      BY <1>2, <2>1, <2>2, <3>2 DEF Running
    <3>3. CASE u # a /\ u # t
      BY <1>0, <1>3, <2>1, <2>2, <2>6, <3>0, <3>3
    <3> QED
      BY <3>1, <3>2, <3>3
  <2>8. RunningRowOwned'
    <3> SUFFICES ASSUME NEW u \in DOMAIN turns, Open(turns[u])
                 PROVE  \/ at'[u] \in Running
                        \/ \E b \in Actors : at'[b] = "claim" /\ hand'[b].turn = u
      BY <2>1 DEF RunningRowOwned, Owned, Open, Unfinished, Running
    <3>1. CASE u = t
      BY <2>2, <3>1 DEF Running
    <3>2. CASE u # t
      <4>1. at[u] \in Running \/ \E b \in Actors : at[b] = "claim" /\ hand[b].turn = u
        BY DEF Shape, RunningRowOwned, Owned, Open, Unfinished, Running
      <4>2. CASE at[u] \in Running
        BY <1>0, <2>2, <3>2, <4>2 DEF Running
      <4>3. CASE \E b \in Actors : at[b] = "claim" /\ hand[b].turn = u
        BY <1>2, <2>2, <3>2, <4>3
      <4> QED
        BY <4>1, <4>2, <4>3
    <3> QED
      BY <3>1, <3>2
  <2> QED
    BY <2>3, <2>4, <2>5, <2>7, <2>8 DEF Shape
<1>4. CASE running # Nil
  <2>1. /\ Abandon(hand[a].turn) /\ Failed(a) /\ at[a] = "claim"
        /\ UNCHANGED <<running, row, counter, asking, inbox, crashes>>
    BY <1>4 DEF StartClaim, Failed
  <2> QED
    BY <2>1, AbandonShape
<1> QED
  BY <1>3, <1>4

LEMMA StartShape == ASSUME Shape, NEW a \in Actors, Start(a) PROVE Shape'
<1>0. /\ hand[a] \in Hands /\ HandFits(at[a], hand[a], turns) /\ hand \in [Actors -> Hands]
      /\ hand[a].msgs \subseteq Messages
  BY Actor DEF Hands
<1>t. /\ row \in [Messages -> Int \cup {Nil}] /\ counter \in Int \cup {Nil} /\ MinRow \in Int
      /\ asking \in BOOLEAN /\ inbox \subseteq Messages /\ fate \in [Messages -> Fates]
      /\ Set(hand[a].msgs, "answer") \in [Messages -> Fates]
  BY <1>0, Typed DEF Fates
<1>1. CASE StartCheck(a)
  <2>1. CASE asking
    <3>1. at[a] \notin Running \cup {"claim"} /\ at[a] # "idle"
      BY <1>1 DEF StartCheck, Running
    <3> QED
      BY <1>t, <1>1, <2>1, <3>1, LabelsFree, EmptyHand, Returned, ActorMoves DEF StartCheck
  <2>2. CASE ~asking /\ running # Nil
    BY <1>1, <1>t, <2>2, FailedShape DEF StartCheck, Failed
  <2>3. CASE ~asking /\ running = Nil
    <3>1. at[a] \notin Running \cup {"claim"} /\ at[a] # "idle"
      BY <1>1 DEF StartCheck, Running
    <3>2. HandFits("create", hand[a], turns) /\ hand' = [hand EXCEPT ![a] = hand[a]]
      BY <1>0, <1>1, <2>3 DEF StartCheck, HandFits, Senders
    <3> QED
      BY <1>0, <1>t, <1>1, <2>3, <3>1, <3>2, LabelsFree, ActorMoves DEF StartCheck
  <2> QED
    BY <1>t, <2>1, <2>2, <2>3
<1>2. CASE StartFail(a)
  BY <1>t, <1>2, FailedShape DEF StartFail
<1>3. CASE RestoreRead(a)
  <2> DEFINE h == [hand[a] EXCEPT !.seq = MinRow - 1]
  <2>1. /\ h \in Hands /\ h.msgs = hand[a].msgs /\ h.why = hand[a].why /\ h.turn = hand[a].turn
        /\ h.seq \in Int /\ hand' = [hand EXCEPT ![a] = h]
    BY <1>0, <1>t, <1>3 DEF Hands, RestoreRead
  <2>2. HandFits("unshift", h, turns)
    BY <1>0, <1>3, <2>1 DEF HandFits, RestoreRead
  <2>3. at[a] \notin Running \cup {"claim"} /\ at[a] # "idle"
    BY <1>3 DEF RestoreRead, Running
  <2> HIDE DEF h
  <2> QED
    BY <1>t, <1>3, <2>1, <2>2, <2>3, LabelsFree, ActorMoves DEF RestoreRead
<1>4. CASE RestoreWrite(a)
  <2>1. at[a] \notin Running \cup {"claim"} /\ at[a] # "idle"
    BY <1>4 DEF RestoreWrite, Running
  <2>2. row' \in [Messages -> Int \cup {Nil}]
    BY <1>0, <1>t, <1>4 DEF RestoreWrite, HandFits
  <2> QED
    BY <1>t, <1>4, <2>1, <2>2, LabelsFree, EmptyHand, Returned, ActorMoves DEF RestoreWrite
<1>5. CASE StartAbort(a)
  BY <1>5, AbandonShape DEF StartAbort
<1> QED
  BY <1>1, <1>2, <1>3, <1>4, <1>5, StartCreateShape, StartClaimShape DEF Start

\* A turn goes on with its own end; the row it changes is its own.
LEMMA TurnGoes ==
    ASSUME Shape, NEW t \in 1..MaxTurn, at[t] \in Running,
           NEW l \in {"release", "record", "finish", "check", "flush", "idle"}, NEW h \in Hands,
           Go(t, l), hand' = [hand EXCEPT ![t] = h], HandFits(l, h, turns'),
           l = "release" <=> running' = t,
           running' = running \/ (running = t /\ running' = Nil),
           NEW x \in TurnRows, turns' = [turns EXCEPT ![t] = x], x.msgs = turns[t].msgs,
           l \in Running => x.status = "running", l \notin Running => ~Open(x),
           asking' \in BOOLEAN, inbox' \in SUBSET Messages, fate' \in [Messages -> Fates],
           UNCHANGED <<row, counter, crashes>>
    PROVE  Shape'
<1>0. /\ t \in Actors /\ turns \in Seq(TurnRows) /\ hand[t] \in Hands /\ HandFits(at[t], hand[t], turns)
      /\ DOMAIN turns = 1..Len(turns) /\ Len(turns) \in Nat /\ Nil \notin 1..MaxTurn
  BY Actor DEF Actors
<1>1. t \in DOMAIN turns /\ at[t] # "idle" /\ at[t] # "claim"
  BY DEF Shape, TurnsSound, Running
<1>2. /\ turns' \in Seq(TurnRows) /\ Len(turns') = Len(turns) /\ DOMAIN turns' = DOMAIN turns
      /\ turns'[t] = x /\ \A u \in DOMAIN turns : u # t => turns'[u] = turns[u]
  BY <1>0, <1>1, ExceptSeq
<1>3. l \in Labels /\ l # "claim" /\ l # "run"
  BY DEF Labels
<1>4. /\ row' \in [Messages -> Int \cup {Nil}] /\ counter' \in Int \cup {Nil}
      /\ crashes' = crashes
  BY Typed
<1>5. /\ at[t] = "idle" => t \in Clients \/ l = "idle"
      /\ at[t] = "claim" => ~Open(turns'[hand[t].turn])
      /\ l \in Running => at[t] \in Running /\ turns'[t].status = "running"
      /\ at[t] \in Running /\ l \notin Running => ~Open(turns'[t])
      /\ t \in 1..MaxTurn => (l \in {"run", "release"} <=> running' = t)
      /\ \A u \in DOMAIN turns : /\ turns'[u].msgs = turns[u].msgs
                                 /\ \/ turns'[u] = turns[u]
                                    \/ u = t /\ at[t] \in Running
                                    \/ u = hand[t].turn
  BY <1>1, <1>2, <1>3
<1> QED
  BY <1>0, <1>2, <1>3, <1>4, <1>5, ActorGoes

LEMMA TurnShape == ASSUME Shape, NEW t \in 1..MaxTurn, Turn(t) PROVE Shape'
<1>0. /\ t \in Actors /\ hand[t] \in Hands /\ HandFits(at[t], hand[t], turns) /\ hand \in [Actors -> Hands]
      /\ turns \in Seq(TurnRows) /\ DOMAIN turns = 1..Len(turns) /\ Len(turns) \in Nat
      /\ Nil \notin 1..MaxTurn /\ crashes \in 0..MaxCrash
      /\ hand[t].msgs \subseteq Messages
  BY Actor DEF Actors, Shape, TypeOK, Hands
<1>t. /\ row \in [Messages -> Int \cup {Nil}] /\ counter \in Int \cup {Nil}
      /\ asking \in BOOLEAN /\ inbox \subseteq Messages /\ fate \in [Messages -> Fates]
      /\ \A M \in SUBSET Messages : Set(M, "unread") \in [Messages -> Fates]
                                    /\ Set(M, "read") \in [Messages -> Fates]
  BY Typed DEF Fates
<1>1. at[t] \in Running => /\ t \in DOMAIN turns /\ turns[t] \in TurnRows /\ turns[t].status = "running"
                           /\ turns = [turns EXCEPT ![t] = turns[t]]
  <2> SUFFICES ASSUME at[t] \in Running
               PROVE  /\ t \in DOMAIN turns /\ turns[t] \in TurnRows /\ turns[t].status = "running"
                      /\ turns = [turns EXCEPT ![t] = turns[t]]
    OBVIOUS
  <2>1. t \in DOMAIN turns /\ turns[t].status = "running"
    BY DEF Shape, TurnsSound, Running
  <2> QED
    BY <1>0, <2>1, ElementOfSeq
<1>2. at[t] \in {"run", "release"} <=> running = t
  BY DEF Shape, TurnsSound
<1>3. CASE Ask(t) \/ ReadInbox(t)
  BY <1>0, <1>t, <1>3, NobodyGoes DEF Ask, ReadInbox
<1>4. ASSUME NEW outcome \in {"done", "error", "cancelled"}, Conclude(t, outcome) PROVE Shape'
  <2> DEFINE h == [Empty EXCEPT !.msgs = inbox, !.why = "late", !.status = outcome]
  <2>1. h \in Hands /\ h.why = "late" /\ h.turn = Nil /\ hand' = [hand EXCEPT ![t] = h]
    BY <1>t, <1>4, EmptyHand DEF Hands, Statuses, Conclude
  <2>2. HandFits("release", h, turns')
    BY <2>1 DEF HandFits
  <2>3. /\ at[t] \in Running /\ Go(t, "release") /\ running' = t /\ running' = running
        /\ turns' = [turns EXCEPT ![t] = turns[t]] /\ "release" \in Running
        /\ asking' \in BOOLEAN /\ inbox' \in SUBSET Messages /\ fate' \in [Messages -> Fates]
        /\ UNCHANGED <<row, counter, crashes>>
        /\ turns[t] \in TurnRows /\ turns[t].status = "running"
    BY <1>t, <1>1, <1>2, <1>4 DEF Conclude, Running
  <2> HIDE DEF h
  <2> QED
    BY <2>1, <2>2, <2>3, TurnGoes
<1>5. CASE Release(t)
  <2>1. HandFits("record", hand[t], turns') /\ hand' = [hand EXCEPT ![t] = hand[t]]
    BY <1>0, <1>5 DEF Release, HandFits
  <2>2. /\ at[t] \in Running /\ Go(t, "record") /\ running' # t /\ running = t /\ running' = Nil
        /\ turns' = [turns EXCEPT ![t] = turns[t]] /\ "record" \in Running
        /\ asking' \in BOOLEAN /\ inbox' \in SUBSET Messages /\ fate' \in [Messages -> Fates]
        /\ UNCHANGED <<row, counter, crashes>>
        /\ turns[t] \in TurnRows /\ turns[t].status = "running"
    BY <1>0, <1>t, <1>1, <1>2, <1>5 DEF Release, Running
  <2> QED
    BY <1>0, <2>1, <2>2, TurnGoes
<1>6. CASE RecordOutcome(t)
  <2> DEFINE x == [turns[t] EXCEPT !.told = TRUE]
  <2>0. at[t] \in Running /\ at[t] = "record" /\ turns[t] \in TurnRows /\ turns[t].status = "running"
    BY <1>1, <1>6 DEF RecordOutcome, Running
  <2>1. x \in TurnRows /\ x.msgs = turns[t].msgs /\ x.status = "running" /\ turns' = [turns EXCEPT ![t] = x]
    BY <1>6, <2>0 DEF RecordOutcome, TurnRows
  <2> HIDE DEF x
  <2>2. HandFits("finish", hand[t], turns') /\ hand' = [hand EXCEPT ![t] = hand[t]]
    BY <1>0, <1>6 DEF RecordOutcome, HandFits
  <2>3. /\ Go(t, "finish") /\ running' # t /\ running' = running /\ "finish" \in Running
        /\ asking' \in BOOLEAN /\ inbox' \in SUBSET Messages /\ fate' \in [Messages -> Fates]
        /\ UNCHANGED <<row, counter, crashes>>
    BY <1>t, <1>2, <1>6 DEF RecordOutcome, Running
  <2> QED
    BY <1>0, <2>0, <2>1, <2>2, <2>3, TurnGoes
<1>7. CASE FinishTurn(t)
  <2>0. at[t] \in Running /\ at[t] = "finish" /\ turns[t] \in TurnRows
    BY <1>1, <1>7 DEF FinishTurn, Running
  <2>1. PICK x \in TurnRows : turns' = [turns EXCEPT ![t] = x] /\ x.msgs = turns[t].msgs /\ ~Open(x)
    BY <1>7, Ended
  <2>2. /\ running' # t /\ running' = running /\ asking' \in BOOLEAN /\ inbox' \in SUBSET Messages
        /\ fate' \in [Messages -> Fates] /\ UNCHANGED <<row, counter, crashes>>
    BY <1>0, <1>t, <1>2, <1>7 DEF FinishTurn
  <2>3. \E l \in {"check", "flush", "idle"}, h \in Hands :
           Go(t, l) /\ hand' = [hand EXCEPT ![t] = h] /\ HandFits(l, h, turns')
    <3>1. CASE hand[t].status = "done" /\ hand[t].msgs # {}
      <4> DEFINE h == [hand[t] EXCEPT !.status = "none"]
      <4>1. /\ h \in Hands /\ h.turn = hand[t].turn /\ h.why = hand[t].why /\ h.msgs = hand[t].msgs
            /\ hand' = [hand EXCEPT ![t] = h] /\ Go(t, "check")
        BY <1>0, <1>7, <3>1 DEF Hands, Statuses, FinishTurn
      <4>2. HandFits("check", h, turns')
        BY <1>0, <2>0, <4>1 DEF HandFits, Senders
      <4> HIDE DEF h
      <4> QED
        BY <4>1, <4>2
    <3>2. CASE ~(hand[t].status = "done" /\ hand[t].msgs # {})
      <4> DEFINE l == IF hand[t].status \in {"done", "error"} THEN "flush" ELSE "idle"
      <4>1. hand' = [hand EXCEPT ![t] = Empty] /\ Go(t, l) /\ l \in {"flush", "idle"}
        BY <1>7, <3>2 DEF FinishTurn
      <4> HIDE DEF l
      <4>2. HandFits(l, Empty, turns')
        BY <4>1, EmptyHand DEF HandFits
      <4> QED
        BY <4>1, <4>2, EmptyHand
    <3> QED
      BY <3>1, <3>2
  <2>4. PICK l \in {"check", "flush", "idle"}, h \in Hands :
           Go(t, l) /\ hand' = [hand EXCEPT ![t] = h] /\ HandFits(l, h, turns')
    BY <2>3
  <2>5. l \notin Running /\ l # "release"
    BY DEF Running
  <2> QED
    BY <2>0, <2>1, <2>2, <2>4, <2>5, TurnGoes
<1>8. CASE PopSelect(t)
  <2>0. at[t] = "flush" /\ at[t] \notin Running \cup {"claim"}
    BY <1>8 DEF PopSelect, Running
  <2>1. CASE Waiting = {}
    BY <1>0, <1>t, <1>8, <2>0, <2>1, LabelsFree, EmptyHand, Returned, ActorMoves DEF PopSelect
  <2>2. CASE Waiting # {}
    <3>1. PICK m \in Heads : /\ hand' = [hand EXCEPT ![t] = [Empty EXCEPT !.pick = m, !.seq = row[m]]]
                             /\ Go(t, "pop")
      BY <1>8, <2>2 DEF PopSelect, Go
    <3> DEFINE h == [Empty EXCEPT !.pick = m, !.seq = row[m]]
    <3>2. m \in Messages /\ row[m] \in Int
      BY <1>t DEF Heads, Waiting
    <3>3. h \in Hands /\ h.msgs = {} /\ h.why = "none" /\ h.turn = Nil /\ h.pick = m /\ h.seq \in Int
      BY <3>2, EmptyHand DEF Hands
    <3>4. HandFits("pop", h, turns)
      BY <3>2, <3>3 DEF HandFits
    <3>5. hand' = [hand EXCEPT ![t] = h]
      BY <3>1
    <3> HIDE DEF h
    <3> QED
      BY <1>0, <1>t, <1>8, <2>0, <3>1, <3>3, <3>4, <3>5, LabelsFree, ActorMoves DEF PopSelect
  <2> QED
    BY <2>1, <2>2
<1>9. CASE PopClaim(t)
  <2>0. at[t] = "pop" /\ at[t] \notin Running \cup {"claim"} /\ hand[t].pick \in Messages
    BY <1>0, <1>9 DEF PopClaim, Running, HandFits
  <2>1. CASE row[hand[t].pick] = hand[t].seq
    <3> DEFINE h == [Empty EXCEPT !.msgs = {hand[t].pick}, !.why = "flush"]
    <3>1. /\ h \in Hands /\ h.msgs = {hand[t].pick} /\ h.why = "flush" /\ h.turn = Nil
          /\ hand' = [hand EXCEPT ![t] = h]
      BY <1>9, <2>0, <2>1, EmptyHand DEF Hands, PopClaim
    <3>2. HandFits("check", h, turns)
      BY <2>0, <3>1 DEF HandFits, Senders
    <3>3. row' \in [Messages -> Int \cup {Nil}]
      BY <1>t, <1>9, <2>1 DEF PopClaim
    <3> HIDE DEF h
    <3> QED
      BY <1>0, <1>t, <1>9, <2>0, <2>1, <3>1, <3>2, <3>3, LabelsFree, ActorMoves DEF PopClaim
  <2>2. CASE row[hand[t].pick] # hand[t].seq
    <3>1. HandFits("flush", hand[t], turns) /\ hand' = [hand EXCEPT ![t] = hand[t]]
      BY <1>0, <1>9, <2>0, <2>2 DEF HandFits, PopClaim
    <3> QED
      BY <1>0, <1>t, <1>9, <2>0, <2>2, <3>1, LabelsFree, ActorMoves DEF PopClaim
  <2> QED
    BY <2>1, <2>2
<1> QED
  BY <1>3, <1>4, <1>5, <1>6, <1>7, <1>8, <1>9 DEF Turn

-----------------------------------------------------------------------------
\* The next process.

LEMMA SameLength ==
    ASSUME NEW S, NEW s \in Seq(S), NEW f \in [DOMAIN s -> S]
    PROVE  f \in Seq(S) /\ Len(f) = Len(s) /\ DOMAIN f = DOMAIN s
<1>1. Len(s) \in Nat /\ DOMAIN s = 1..Len(s)
  BY LenProperties
<1>2. f \in Seq(S)
  BY <1>1, SeqDef
<1> QED
  BY <1>1, <1>2, LenProperties

\* Rows keep their number and their messages; only the resumed one runs.
LEMMA CrashRows ==
    ASSUME Shape, Crash
    PROVE  /\ turns' \in Seq(TurnRows) /\ Len(turns') = Len(turns) /\ DOMAIN turns' = DOMAIN turns
           /\ \A t \in DOMAIN turns :
                /\ turns'[t].msgs = turns[t].msgs
                /\ turns'[t].status = "running" <=> t \in Unfinished /\ Resumed(t)
                /\ Counts(turns'[t]) <=> Counts(turns[t])
           /\ \A t, u \in Unfinished : Resumed(t) /\ Resumed(u) => t = u
           /\ Unfinished \subseteq DOMAIN turns /\ DOMAIN turns \subseteq 1..MaxTurn
           /\ 1..MaxTurn \subseteq Actors
<1>0. /\ turns \in Seq(TurnRows) /\ Len(turns) \in Nat /\ DOMAIN turns = 1..Len(turns)
      /\ DOMAIN turns \subseteq 1..MaxTurn /\ 1..MaxTurn \subseteq Actors
  <2>1. turns \in Seq(TurnRows) /\ Len(turns) <= MaxTurn
    BY DEF Shape, TypeOK
  <2>2. Len(turns) \in Nat /\ DOMAIN turns = 1..Len(turns)
    BY <2>1
  <2> QED
    BY <2>1, <2>2, BoundAssumption DEF Actors
<1>1. \A t \in DOMAIN turns : turns[t] \in TurnRows
  BY <1>0, ElementOfSeq
<1>2. turns' = [t \in DOMAIN turns |->
                  IF t \in Unfinished /\ ~Resumed(t) THEN [turns[t] EXCEPT !.status = "ended"] ELSE turns[t]]
  BY DEF Crash
<1>3. \A t \in DOMAIN turns : [turns[t] EXCEPT !.status = "ended"] \in TurnRows
  BY <1>1 DEF TurnRows
<1>4. turns' \in [DOMAIN turns -> TurnRows]
  BY <1>1, <1>2, <1>3
<1>5. turns' \in Seq(TurnRows) /\ Len(turns') = Len(turns) /\ DOMAIN turns' = DOMAIN turns
  BY <1>0, <1>4, SameLength
<1>6. ASSUME NEW t \in DOMAIN turns
      PROVE  /\ turns'[t].msgs = turns[t].msgs
             /\ turns'[t].status = "running" <=> t \in Unfinished /\ Resumed(t)
             /\ Counts(turns'[t]) <=> Counts(turns[t])
  BY <1>1, <1>2 DEF Unfinished, TurnRows, Counts
<1>7. \A t, u \in Unfinished : Resumed(t) /\ Resumed(u) => t = u
  BY <1>0 DEF Unfinished, Resumed, Latest
<1> QED
  BY <1>0, <1>5, <1>6, <1>7 DEF Unfinished

LEMMA CrashShape == ASSUME Shape, Crash PROVE Shape'
<1>0. /\ turns' \in Seq(TurnRows) /\ Len(turns') = Len(turns) /\ DOMAIN turns' = DOMAIN turns
      /\ \A t \in DOMAIN turns : turns'[t].status = "running" <=> t \in Unfinished /\ Resumed(t)
      /\ \A t, u \in Unfinished : Resumed(t) /\ Resumed(u) => t = u
      /\ Unfinished \subseteq DOMAIN turns /\ DOMAIN turns \subseteq 1..MaxTurn /\ 1..MaxTurn \subseteq Actors
  BY CrashRows
<1>1. /\ \A a \in Actors : at'[a] = IF a \in Unfinished /\ Resumed(a) THEN "run" ELSE "idle"
      /\ \A a \in Actors : hand'[a] = Empty
      /\ running' = IF \E t \in Unfinished : Resumed(t)
                    THEN CHOOSE t \in Unfinished : Resumed(t) ELSE Nil
      /\ at' \in [Actors -> Labels] /\ hand' \in [Actors -> Hands]
  BY EmptyHand DEF Crash, Labels
<1>2. \A t \in Unfinished : Resumed(t) => running' = t
  BY <1>0, <1>1
<1>3. running' \in Unfinished \/ running' = Nil
  BY <1>1
<1>4. TypeOK'
  <2>1. \A t \in DOMAIN turns : Stored(t) \subseteq Messages
    <3> SUFFICES ASSUME NEW t \in DOMAIN turns PROVE Stored(t) \subseteq Messages
      OBVIOUS
    <3>1. t \in Actors /\ inbox \subseteq Messages
      BY <1>0 DEF Shape, TypeOK
    <3>2. hand[t].msgs \subseteq Messages
      BY <3>1, Actor DEF Hands
    <3> QED
      BY <3>1, <3>2 DEF Stored
  <2>2. inbox' \subseteq Messages
    BY <1>0, <2>1 DEF Crash
  <2>3. fate' \in [Messages -> Fates]
    BY Typed DEF Crash, Fates
  <2>4. crashes' \in 0..MaxCrash
    BY BoundAssumption DEF Crash, Shape, TypeOK
  <2>5. row' \in [Messages -> Int \cup {Nil}] /\ counter' \in Int \cup {Nil} /\ asking' \in BOOLEAN
    BY Typed DEF Crash
  <2>6. Len(turns') <= MaxTurn
    BY <1>0 DEF Shape, TypeOK
  <2> QED
    BY <1>0, <1>1, <1>3, <2>2, <2>3, <2>4, <2>5, <2>6 DEF TypeOK
<1>5. HandsSound' /\ OneStart'
  <2>1. \A a \in Actors : HandFits(at'[a], hand'[a], turns')
    BY <1>1, EmptyHand DEF HandFits
  <2> QED
    BY <1>1, <2>1, EmptyHand DEF HandsSound, OneStart
<1>6. TurnsSound'
  <2> SUFFICES ASSUME NEW t \in 1..MaxTurn
               PROVE  /\ t \notin DOMAIN turns' \/ Bound(t)' => at'[t] = "idle"
                      /\ at'[t] \in {"run", "release"} <=> running' = t
                      /\ at'[t] \in Running => turns'[t].status = "running"
    BY DEF TurnsSound
  <2>1. ~Bound(t)' /\ t # Nil /\ t \in Actors
    BY <1>0, <1>1, EmptyHand, NilAssumption DEF Bound
  <2>2. running' = t => t \in Unfinished /\ Resumed(t)
    BY <1>1, <1>3, <2>1
  <2> QED
    BY <1>0, <1>1, <1>2, <2>1, <2>2 DEF Running
<1>7. RunningRowOwned'
  <2> SUFFICES ASSUME NEW t \in DOMAIN turns, turns'[t].status = "running"
               PROVE  at'[t] \in Running
    BY <1>0 DEF RunningRowOwned, Owned, Unfinished, Running
  <2> QED
    BY <1>0, <1>1 DEF Running
<1> QED
  BY <1>4, <1>5, <1>6, <1>7 DEF Shape

LEMMA NextShape == ASSUME Shape, [Next]_vars PROVE Shape'
<1>1. CASE \E c \in Clients : Client(c)
  BY <1>1, ClientShape
<1>2. CASE \E a \in Actors : Start(a)
  BY <1>2, StartShape
<1>3. CASE \E t \in 1..MaxTurn : Turn(t)
  BY <1>3, TurnShape
<1>4. CASE Crash
  BY <1>4, CrashShape
<1>5. CASE UNCHANGED vars
  BY <1>5 DEF vars, Shape, TypeOK, HandsSound, OneStart, TurnsSound, RunningRowOwned, Owned, Unfinished, Bound
<1> QED
  BY <1>1, <1>2, <1>3, <1>4, <1>5 DEF Next

-----------------------------------------------------------------------------
\* Where messages are.

InTurn(m, t) == /\ t \in DOMAIN turns /\ m \in turns[t].msgs
                /\ Counts(turns[t]) /\ ~Bound(t)

\* Two places of one message are the same place.
Alone(m) ==
    /\ row[m] # Nil => m \notin inbox /\ fate[m] = "none"
    /\ m \in inbox => fate[m] = "none"
    /\ \A a \in Actors :
         m \in hand[a].msgs => /\ row[m] = Nil /\ m \notin inbox /\ fate[m] = "none"
                               /\ \A b \in Actors : m \in hand[b].msgs => a = b
    /\ \A t \in DOMAIN turns :
         InTurn(m, t) => /\ row[m] = Nil /\ m \notin inbox /\ fate[m] = "none"
                         /\ \A a \in Actors : m \notin hand[a].msgs
                         /\ \A u \in DOMAIN turns : InTurn(m, u) => t = u

AllAlone == \A m \in Messages : Alone(m)

LEMMA PlacesOf ==
    ASSUME NEW m
    PROVE  /\ <<"row", 0>> \in Places(m) <=> row[m] # Nil
           /\ <<"inbox", 0>> \in Places(m) <=> m \in inbox
           /\ <<"fate", 0>> \in Places(m) <=> fate[m] # "none"
           /\ \A a \in Actors : <<"hand", a>> \in Places(m) <=> m \in hand[a].msgs
           /\ \A t \in DOMAIN turns : <<"turn", t>> \in Places(m) <=> InTurn(m, t)
           /\ \A p \in Places(m) :
                \/ p = <<"row", 0>> \/ p = <<"inbox", 0>> \/ p = <<"fate", 0>>
                \/ \E a \in Actors : p = <<"hand", a>> /\ m \in hand[a].msgs
                \/ \E t \in DOMAIN turns : p = <<"turn", t>> /\ InTurn(m, t)
BY DEF Places, InTurn, Counts

LEMMA AloneIsOnePlace == ASSUME AllAlone PROVE MessageInOnePlace
<1> SUFFICES ASSUME NEW m \in Messages, NEW p \in Places(m), NEW q \in Places(m) PROVE p = q
  BY DEF MessageInOnePlace
<1>1. Alone(m)
  BY DEF AllAlone
<1> QED
  BY <1>1, PlacesOf DEF Alone

LEMMA UnsaidNowhere ==
    ASSUME NEW m, Unsaid(m)
    PROVE  /\ row[m] = Nil /\ m \notin inbox /\ fate[m] = "none"
           /\ \A a \in Actors : m \notin hand[a].msgs
           /\ \A t \in DOMAIN turns : ~InTurn(m, t)
BY PlacesOf DEF Unsaid

LEMMA InitAlone == Init => AllAlone
<1> SUFFICES ASSUME Init, NEW m \in Messages PROVE Alone(m)
  BY DEF AllAlone
<1>1. /\ row[m] = Nil /\ m \notin inbox /\ fate[m] = "none"
      /\ \A a \in Actors : hand[a] = Empty
      /\ DOMAIN turns = {}
  BY DEF Init
<1> QED
  BY <1>1, EmptyHand DEF Alone

\* A message that comes nowhere new.
LEMMA Stays ==
    ASSUME NEW m, Alone(m), row'[m] # Nil => row[m] # Nil, m \in inbox' => m \in inbox,
           fate'[m] # "none" => fate[m] # "none",
           \A a \in Actors : m \in hand'[a].msgs => m \in hand[a].msgs,
           \A t \in DOMAIN turns' : InTurn(m, t)' => t \in DOMAIN turns /\ InTurn(m, t)
    PROVE  Alone(m)'
BY DEF Alone

\* The frame of a step of one actor whose hand binds no other row than before.
LEMMA OneHand ==
    ASSUME Shape, NEW a \in Actors, NEW h \in Hands, hand' = [hand EXCEPT ![a] = h],
           h.turn = hand[a].turn, DOMAIN turns' = DOMAIN turns,
           \A t \in DOMAIN turns : /\ turns'[t].msgs = turns[t].msgs
                                   /\ Counts(turns'[t]) => Counts(turns[t])
    PROVE  /\ hand'[a] = h /\ \A b \in Actors : b # a => hand'[b] = hand[b]
           /\ \A m \in Messages : \A t \in DOMAIN turns' : InTurn(m, t)' => InTurn(m, t)
<1>1. hand \in [Actors -> Hands]
  BY Actor
<1>2. hand'[a] = h /\ \A b \in Actors : b # a => hand'[b] = hand[b]
  BY <1>1
<1>3. \A t : Bound(t) => Bound(t)'
  BY <1>2 DEF Bound
<1> QED
  BY <1>2, <1>3 DEF InTurn

LEMMA ClientAlone ==
    ASSUME Shape, AllAlone, NEW c \in Clients, Client(c) PROVE AllAlone'
<1>0. c \in Actors /\ hand[c] \in Hands /\ HandFits(at[c], hand[c], turns)
      /\ row \in [Messages -> Int \cup {Nil}] /\ fate \in [Messages -> Fates] /\ NextSeq \in Int
  BY Actor, Typed DEF Actors
<1> SUFFICES ASSUME NEW k \in Messages PROVE Alone(k)'
  BY DEF AllAlone
<1>a. Alone(k)
  BY DEF AllAlone
<1>1. ASSUME NEW m \in Messages, NEW why \in {"enqueue", "steer"}, at[c] = "idle",
             hand' = [hand EXCEPT ![c] = [Empty EXCEPT !.msgs = {m}, !.why = why]], UNCHANGED turns
      PROVE  /\ hand[c].msgs = {} /\ hand'[c].msgs = {m}
             /\ \A b \in Actors : b # c => hand'[b] = hand[b]
             /\ \A t \in DOMAIN turns' : InTurn(k, t)' => InTurn(k, t)
  <2> DEFINE h == [Empty EXCEPT !.msgs = {m}, !.why = why]
  <2>1. h \in Hands /\ h.msgs = {m} /\ h.turn = hand[c].turn /\ hand[c].msgs = {} /\ hand' = [hand EXCEPT ![c] = h]
    BY <1>0, <1>1, EmptyHand DEF Hands, HandFits
  <2>2. DOMAIN turns' = DOMAIN turns /\ \A t \in DOMAIN turns : turns'[t] = turns[t]
    BY <1>1
  <2> HIDE DEF h
  <2> QED
    BY <1>0, <2>1, <2>2, OneHand
<1>2. ASSUME NEW m \in Messages, EnqueueCheck(c, m) PROVE Alone(k)'
  <2>1. /\ hand[c].msgs = {} /\ hand'[c].msgs = {m} /\ \A b \in Actors : b # c => hand'[b] = hand[b]
        /\ \A t \in DOMAIN turns' : InTurn(k, t)' => InTurn(k, t)
        /\ UNCHANGED <<row, turns, inbox, fate>> /\ Unsaid(m)
    BY <1>1, <1>2 DEF EnqueueCheck
  <2>2. CASE k = m
    BY <1>0, <2>1, <2>2, UnsaidNowhere DEF Alone
  <2>3. CASE k # m
    BY <1>a, <2>1, <2>3, Stays
  <2> QED
    BY <2>2, <2>3
<1>3. ASSUME NEW m \in Messages, TakeFollowup(c, m) PROVE Alone(k)'
  <2>1. /\ hand[c].msgs = {} /\ hand'[c].msgs = {m} /\ \A b \in Actors : b # c => hand'[b] = hand[b]
        /\ \A t \in DOMAIN turns' : InTurn(k, t)' => InTurn(k, t)
        /\ UNCHANGED <<turns, inbox, fate>> /\ row[m] # Nil
        /\ row'[m] = Nil /\ \A n \in Messages : n # m => row'[n] = row[n]
    BY <1>0, <1>1, <1>3 DEF TakeFollowup
  <2>2. CASE k = m
    BY <1>0, <1>a, <2>1, <2>2 DEF Alone
  <2>3. CASE k # m
    BY <1>a, <2>1, <2>3, Stays
  <2> QED
    BY <2>2, <2>3
<1>4. ASSUME NEW m \in Messages, DeleteFollowup(c, m) \/ RequeueFollowup(c, m) PROVE Alone(k)'
  <2>1. /\ UNCHANGED <<turns, inbox, hand>> /\ row[m] # Nil
        /\ \A n \in Messages : n # m => row'[n] = row[n] /\ fate'[n] = fate[n]
        /\ row'[m] = Nil \/ fate'[m] = fate[m]
    BY <1>0, <1>4 DEF DeleteFollowup, RequeueFollowup
  <2>2. /\ \A t \in DOMAIN turns' : t \in DOMAIN turns /\ (InTurn(k, t)' => InTurn(k, t))
        /\ \A a \in Actors : hand'[a] = hand[a]
    BY <2>1 DEF InTurn, Bound
  <2>t. DOMAIN turns' = DOMAIN turns /\ inbox' = inbox
    BY <2>1
  <2>3. CASE k = m
    <3>1. /\ row[k] # Nil /\ (row'[k] = Nil \/ fate'[k] = fate[k]) /\ fate[k] = "none" /\ k \notin inbox
          /\ \A a \in Actors : k \notin hand[a].msgs
          /\ \A t \in DOMAIN turns : ~InTurn(k, t)
      BY <1>a, <2>1, <2>3 DEF Alone
    <3>2. /\ row'[k] = Nil \/ fate'[k] = "none"
          /\ \A a \in Actors : k \notin hand'[a].msgs
          /\ \A t \in DOMAIN turns' : ~InTurn(k, t)'
      BY <2>2, <2>t, <3>1
    <3> QED
      BY <2>t, <3>1, <3>2 DEF Alone
  <2>4. CASE k # m
    <3>1. /\ row'[k] # Nil => row[k] # Nil
          /\ fate'[k] # "none" => fate[k] # "none"
          /\ k \in inbox' => k \in inbox
          /\ \A a \in Actors : k \in hand'[a].msgs => k \in hand[a].msgs
      BY <2>1, <2>2, <2>t, <2>4
    <3> QED
      BY <1>a, <2>2, <3>1, Stays
  <2> QED
    BY <2>3, <2>4
<1>5. ASSUME Return(c), at[c] # "claim", UNCHANGED turns
      PROVE  /\ hand'[c].msgs = {} /\ \A b \in Actors : b # c => hand'[b] = hand[b]
             /\ \A t \in DOMAIN turns' : InTurn(k, t)' => InTurn(k, t)
  <2>1. hand' = [hand EXCEPT ![c] = Empty] /\ Empty.turn = hand[c].turn
    BY <1>0, <1>5, EmptyHand DEF Return, HandFits
  <2>2. DOMAIN turns' = DOMAIN turns /\ \A t \in DOMAIN turns : turns'[t] = turns[t]
    BY <1>5
  <2> QED
    BY <1>0, <2>1, <2>2, EmptyHand, OneHand
<1>6. CASE EnqueueWrite(c)
  <2>1. /\ hand'[c].msgs = {} /\ \A b \in Actors : b # c => hand'[b] = hand[b]
        /\ \A t \in DOMAIN turns' : InTurn(k, t)' => InTurn(k, t)
        /\ UNCHANGED <<turns, inbox, fate>>
        /\ row'[k] # row[k] => k \in hand[c].msgs
    BY <1>0, <1>5, <1>6 DEF EnqueueWrite
  <2> QED
    BY <1>0, <1>a, <2>1 DEF Alone
<1>7. CASE SteerOrStart(c)
  <2>0. at[c] = "steer" /\ UNCHANGED <<turns, row, fate>>
    BY <1>7 DEF SteerOrStart
  <2>1. CASE inbox' = inbox \cup hand[c].msgs /\ Return(c)
    <3>1. /\ hand'[c].msgs = {} /\ \A b \in Actors : b # c => hand'[b] = hand[b]
          /\ \A t \in DOMAIN turns' : InTurn(k, t)' => InTurn(k, t)
      BY <1>5, <2>0, <2>1
    <3> QED
      BY <1>0, <1>a, <2>0, <2>1, <3>1 DEF Alone
  <2>2. CASE UNCHANGED <<inbox, hand>>
    BY <1>a, <2>0, <2>2 DEF Alone, InTurn, Bound
  <2> QED
    BY <1>7, <2>1, <2>2 DEF SteerOrStart
<1>8. CASE Send(c)
  <2> DEFINE h == [Empty EXCEPT !.why = "send"]
  <2>1. h \in Hands /\ h.msgs = {} /\ h.turn = hand[c].turn /\ hand' = [hand EXCEPT ![c] = h]
        /\ UNCHANGED <<turns, row, fate, inbox>>
    BY <1>0, <1>8, EmptyHand DEF Send, Hands, HandFits
  <2>2. DOMAIN turns' = DOMAIN turns /\ \A t \in DOMAIN turns : turns'[t] = turns[t]
    BY <2>1
  <2> HIDE DEF h
  <2>3. /\ hand'[c].msgs = {} /\ \A b \in Actors : b # c => hand'[b] = hand[b]
        /\ \A t \in DOMAIN turns' : InTurn(k, t)' => InTurn(k, t)
    BY <1>0, <2>1, <2>2, OneHand
  <2> QED
    BY <1>a, <2>1, <2>3, Stays
<1> QED
  BY <1>2, <1>3, <1>4, <1>6, <1>7, <1>8 DEF Client

\* A queued message whose start failed stays with its sender.
LEMMA FailedHand ==
    ASSUME Shape, NEW a \in Actors, hand[a].why \in {"steer", "flush"}, Failed(a)
    PROVE  /\ hand'[a].msgs = hand[a].msgs /\ hand'[a].why = hand[a].why /\ hand'[a].turn = Nil
           /\ \A b \in Actors : b # a => hand'[b] = hand[b]
           /\ fate' = fate
<1>1. hand \in [Actors -> Hands] /\ hand[a] \in Hands
  BY Actor
<1>2. CASE Refused(a)
  <2>1. hand' = [hand EXCEPT ![a].turn = Nil, ![a].tries = 0] /\ fate' = fate
    BY <1>2 DEF Refused
  <2> QED
    BY <1>1, <2>1 DEF Hands
<1>3. CASE ~Refused(a)
  <2>1. hand' = [hand EXCEPT ![a].turn = Nil, ![a].tries = @ + 1] /\ fate' = fate
    BY <1>3 DEF Failed
  <2> QED
    BY <1>1, <2>1 DEF Hands
<1> QED
  BY <1>2, <1>3

\* A failed start: its row, if it has one, no longer holds the message.
LEMMA FailedAlone ==
    ASSUME Shape, AllAlone, NEW a \in Actors, at[a] \in {"check", "create", "claim"}, Failed(a),
           UNCHANGED <<row, inbox>>, DOMAIN turns' = DOMAIN turns,
           \A t \in DOMAIN turns : IF t = hand[a].turn THEN ~Counts(turns'[t])
                                                      ELSE turns'[t] = turns[t]
    PROVE  AllAlone'
<1>0. /\ hand \in [Actors -> Hands] /\ hand[a] \in Hands /\ HandFits(at[a], hand[a], turns)
      /\ fate \in [Messages -> Fates]
  BY Actor, Typed
<1>1. /\ \A b \in Actors : b # a => hand'[b] = hand[b]
      /\ \/ hand'[a].msgs = {} /\ \A m \in Messages : m \notin hand[a].msgs => fate'[m] = fate[m]
         \/ hand'[a].msgs = hand[a].msgs /\ fate' = fate
  <2>1. CASE hand[a].why = "send"
    BY <1>0, <2>1, EmptyHand DEF Failed, Refused, Return
  <2>2. CASE hand[a].why = "late"
    BY <1>0, <2>2, EmptyHand DEF Failed, Refused, Return, Set
  <2>3. CASE hand[a].why \in {"steer", "flush"}
    BY <1>0, <2>3, FailedHand
  <2> QED
    BY <1>0, <2>1, <2>2, <2>3 DEF HandFits, Senders
<1>2. ASSUME NEW m \in Messages, NEW t \in DOMAIN turns', InTurn(m, t)' PROVE t \in DOMAIN turns /\ InTurn(m, t)
  <2>1. t \in DOMAIN turns /\ Counts(turns'[t]) /\ ~Bound(t)' /\ m \in turns'[t].msgs
    BY <1>2 DEF InTurn
  <2>2. t # hand[a].turn /\ turns'[t] = turns[t]
    BY <2>1
  <2>3. ~Bound(t)
    BY <1>1, <2>1, <2>2 DEF Bound
  <2> QED
    BY <2>1, <2>2, <2>3 DEF InTurn
<1> SUFFICES ASSUME NEW k \in Messages PROVE Alone(k)'
  BY DEF AllAlone
<1>3. Alone(k)
  BY DEF AllAlone
<1>4. CASE k \in hand[a].msgs /\ hand'[a].msgs = {}
  BY <1>1, <1>2, <1>3, <1>4 DEF Alone
<1>5. CASE ~(k \in hand[a].msgs /\ hand'[a].msgs = {})
  <2>1. /\ fate'[k] # "none" => fate[k] # "none"
        /\ row'[k] # Nil => row[k] # Nil
        /\ k \in inbox' => k \in inbox
        /\ \A b \in Actors : k \in hand'[b].msgs => k \in hand[b].msgs
    BY <1>1, <1>5
  <2> QED
    BY <1>2, <1>3, <2>1, Stays
<1> QED
  BY <1>4, <1>5

LEMMA AbandonAlone ==
    ASSUME Shape, AllAlone, NEW a \in Actors, at[a] = "claim", Abandon(hand[a].turn), Failed(a),
           UNCHANGED <<row, inbox>>
    PROVE  AllAlone'
<1>0. HandFits("claim", hand[a], turns)
  BY Actor
<1>1. PICK t \in DOMAIN turns : t = hand[a].turn
  BY <1>0 DEF HandFits
<1>2. /\ DOMAIN turns' = DOMAIN turns
      /\ \A u \in DOMAIN turns : IF u = hand[a].turn THEN ~Counts(turns'[u]) ELSE turns'[u] = turns[u]
  BY <1>1, Abandoned
<1> QED
  BY <1>2, FailedAlone

LEMMA StartAlone == ASSUME Shape, AllAlone, NEW a \in Actors, Start(a) PROVE AllAlone'
<1>0. /\ hand \in [Actors -> Hands] /\ hand[a] \in Hands /\ HandFits(at[a], hand[a], turns)
      /\ fate \in [Messages -> Fates] /\ row \in [Messages -> Int \cup {Nil}]
      /\ turns \in Seq(TurnRows) /\ Len(turns) \in Nat /\ DOMAIN turns = 1..Len(turns)
      /\ DOMAIN turns \subseteq 1..MaxTurn /\ Nil \notin 1..MaxTurn
      /\ hand[a].msgs \subseteq Messages /\ MinRow \in Int
  BY Actor, Typed DEF Hands
<1>r. at[a] # "claim" => \A t \in DOMAIN turns : t # hand[a].turn
  BY <1>0 DEF HandFits
\* The actor returns, or keeps its messages, and the rows stay.
<1>h. ASSUME NEW h \in Hands, hand' = [hand EXCEPT ![a] = h], h.turn = hand[a].turn, UNCHANGED turns
      PROVE  /\ hand'[a] = h /\ \A b \in Actors : b # a => hand'[b] = hand[b]
             /\ \A m \in Messages : \A t \in DOMAIN turns' : t \in DOMAIN turns /\ (InTurn(m, t)' => InTurn(m, t))
  <2>1. DOMAIN turns' = DOMAIN turns /\ \A t \in DOMAIN turns : turns'[t] = turns[t]
    BY <1>h
  <2>2. /\ hand'[a] = h /\ \A b \in Actors : b # a => hand'[b] = hand[b]
        /\ \A m \in Messages : \A t \in DOMAIN turns' : InTurn(m, t)' => InTurn(m, t)
    BY <1>h, <2>1, OneHand
  <2> QED
    BY <2>1, <2>2
<1>1. CASE StartCheck(a)
  <2>1. CASE asking
    <3>1. hand' = [hand EXCEPT ![a] = Empty] /\ Empty.turn = hand[a].turn /\ UNCHANGED <<turns, row, inbox>>
          /\ fate' = Set(hand[a].msgs, "answer")
      BY <1>0, <1>1, <2>1, EmptyHand DEF StartCheck, Return, HandFits
    <3>2. /\ hand'[a].msgs = {} /\ \A b \in Actors : b # a => hand'[b] = hand[b]
          /\ \A m \in Messages : \A t \in DOMAIN turns' : t \in DOMAIN turns /\ (InTurn(m, t)' => InTurn(m, t))
      BY <1>h, <3>1, EmptyHand
    <3> SUFFICES ASSUME NEW k \in Messages PROVE Alone(k)'
      BY DEF AllAlone
    <3>3. Alone(k) /\ (k \notin hand[a].msgs => fate'[k] = fate[k])
      BY <1>0, <3>1 DEF AllAlone, Set
    <3> QED
      BY <1>0, <3>1, <3>2, <3>3 DEF Alone
  <2>2. CASE ~asking /\ running # Nil
    <3>1. /\ at[a] \in {"check", "create", "claim"} /\ Failed(a) /\ UNCHANGED <<row, inbox>>
          /\ DOMAIN turns' = DOMAIN turns
          /\ \A t \in DOMAIN turns : turns'[t] = turns[t] /\ t # hand[a].turn
      BY <1>r, <1>1, <2>2 DEF StartCheck, Failed
    <3> QED
      BY <3>1, FailedAlone
  <2>3. CASE ~asking /\ running = Nil
    <3>1. UNCHANGED <<turns, row, fate, inbox, hand>>
      BY <1>1, <2>3 DEF StartCheck
    <3> QED
      BY <3>1 DEF AllAlone, Alone, InTurn, Bound
  <2> QED
    BY <2>1, <2>2, <2>3
<1>2. CASE StartFail(a)
  <2>1. /\ at[a] \in {"check", "create", "claim"} /\ Failed(a) /\ UNCHANGED <<row, inbox>>
        /\ DOMAIN turns' = DOMAIN turns
        /\ \A t \in DOMAIN turns : turns'[t] = turns[t] /\ t # hand[a].turn
    BY <1>r, <1>2 DEF StartFail
  <2> QED
    BY <2>1, FailedAlone
<1>3. CASE StartCreate(a)
  <2> DEFINE n == Len(turns) + 1
             x == [msgs |-> hand[a].msgs, status |-> "running", told |-> FALSE, faults |-> {}]
  <2>1. turns' = Append(turns, x) /\ hand' = [hand EXCEPT ![a].turn = n] /\ UNCHANGED <<row, fate, inbox>>
    BY <1>3 DEF StartCreate
  <2>2. DOMAIN turns' = DOMAIN turns \cup {n} /\ \A t \in DOMAIN turns : turns'[t] = turns[t] /\ t # n
    <3>1. x \in TurnRows
      BY <1>0 DEF TurnRows
    <3> HIDE DEF x
    <3> QED
      BY <1>0, <2>1, <3>1, AppendProperties
  <2>3. /\ hand'[a].msgs = hand[a].msgs /\ hand'[a].turn = n
        /\ \A b \in Actors : b # a => hand'[b] = hand[b]
        /\ hand[a].turn = Nil
    BY <1>0, <1>3, <2>1 DEF Hands, StartCreate, HandFits
  <2> HIDE DEF n, x
  <2>4. ASSUME NEW m \in Messages, NEW t \in DOMAIN turns', InTurn(m, t)' PROVE t \in DOMAIN turns /\ InTurn(m, t)
    <3>1. ~Bound(t)' /\ t # n
      BY <2>3, <2>4 DEF InTurn, Bound
    <3>2. t \in DOMAIN turns /\ turns'[t] = turns[t] /\ t # Nil
      BY <1>0, <2>2, <3>1
    <3>3. ~Bound(t)
      BY <2>3, <3>1, <3>2 DEF Bound
    <3> QED
      BY <2>4, <3>2, <3>3 DEF InTurn
  <2> SUFFICES ASSUME NEW k \in Messages PROVE Alone(k)'
    BY DEF AllAlone
  <2>5. Alone(k)
    BY DEF AllAlone
  <2>6. \A b \in Actors : k \in hand'[b].msgs => k \in hand[b].msgs
    BY <2>3
  <2> QED
    BY <2>1, <2>4, <2>5, <2>6, Stays
<1>4. CASE StartClaim(a)
  <2> DEFINE t == hand[a].turn
  <2>0. at[a] = "claim" /\ t \in DOMAIN turns /\ turns[t].msgs = hand[a].msgs /\ t # Nil
    BY <1>0, <1>4 DEF StartClaim, HandFits
  <2>1. CASE running = Nil
    <3>1. hand' = [hand EXCEPT ![a] = Empty] /\ UNCHANGED <<turns, row, fate, inbox>>
      BY <1>4, <2>1 DEF StartClaim
    <3>2. hand'[a].msgs = {} /\ \A b \in Actors : b # a => hand'[b] = hand[b]
      BY <1>0, <3>1, EmptyHand
    <3>3. \A m \in Messages : \A u \in DOMAIN turns' :
            InTurn(m, u)' => u \in DOMAIN turns /\ (InTurn(m, u) \/ (u = t /\ m \in hand[a].msgs))
      BY <2>0, <3>1, <3>2 DEF InTurn, Bound
    <3> HIDE DEF t
    <3> SUFFICES ASSUME NEW k \in Messages PROVE Alone(k)'
      BY DEF AllAlone
    <3>4. Alone(k)
      BY DEF AllAlone
    <3>5. CASE k \in hand[a].msgs
      BY <3>1, <3>2, <3>3, <3>4, <3>5 DEF Alone
    <3>6. CASE k \notin hand[a].msgs
      <4>1. \A u \in DOMAIN turns' : InTurn(k, u)' => u \in DOMAIN turns /\ InTurn(k, u)
        BY <3>3, <3>6
      <4>2. \A b \in Actors : k \in hand'[b].msgs => k \in hand[b].msgs
        BY <3>2
      <4> QED
        BY <3>1, <3>4, <4>1, <4>2, Stays
    <3> QED
      BY <3>5, <3>6
  <2>2. CASE running # Nil
    BY <1>4, <2>2, AbandonAlone DEF StartClaim, Failed
  <2> QED
    BY <2>1, <2>2
<1>5. CASE RestoreRead(a)
  <2> DEFINE h == [hand[a] EXCEPT !.seq = MinRow - 1]
  <2>1. h \in Hands /\ h.msgs = hand[a].msgs /\ h.turn = hand[a].turn /\ hand' = [hand EXCEPT ![a] = h]
    <3>1. hand[a] \in Hands /\ MinRow - 1 \in Int
      BY <1>0
    <3> QED
      BY <1>5, <3>1 DEF Hands, RestoreRead
  <2>u. UNCHANGED <<turns, row, fate, inbox>>
    BY <1>5 DEF RestoreRead
  <2> HIDE DEF h
  <2>2. /\ hand'[a].msgs = hand[a].msgs /\ \A b \in Actors : b # a => hand'[b] = hand[b]
        /\ \A m \in Messages : \A t \in DOMAIN turns' : t \in DOMAIN turns /\ (InTurn(m, t)' => InTurn(m, t))
    BY <1>h, <2>1, <2>u
  <2> SUFFICES ASSUME NEW k \in Messages PROVE Alone(k)'
    BY DEF AllAlone
  <2>3. Alone(k) /\ \A b \in Actors : k \in hand'[b].msgs => k \in hand[b].msgs
    BY <2>2 DEF AllAlone
  <2> QED
    BY <2>u, <2>2, <2>3, Stays
<1>6. CASE RestoreWrite(a)
  <2>1. hand' = [hand EXCEPT ![a] = Empty] /\ Empty.turn = hand[a].turn /\ UNCHANGED <<turns, fate, inbox>>
        /\ \A m \in Messages : m \notin hand[a].msgs => row'[m] = row[m]
    BY <1>0, <1>6, EmptyHand DEF RestoreWrite, Return, HandFits
  <2>2. /\ hand'[a].msgs = {} /\ \A b \in Actors : b # a => hand'[b] = hand[b]
        /\ \A m \in Messages : \A t \in DOMAIN turns' : t \in DOMAIN turns /\ (InTurn(m, t)' => InTurn(m, t))
    BY <1>h, <2>1, EmptyHand
  <2> SUFFICES ASSUME NEW k \in Messages PROVE Alone(k)'
    BY DEF AllAlone
  <2>3. Alone(k)
    BY DEF AllAlone
  <2>4. CASE k \in hand[a].msgs
    BY <2>1, <2>2, <2>3, <2>4 DEF Alone
  <2>5. CASE k \notin hand[a].msgs
    <3>1. /\ row'[k] = row[k] /\ fate' = fate /\ inbox' = inbox
          /\ \A b \in Actors : k \in hand'[b].msgs => k \in hand[b].msgs
      BY <2>1, <2>2, <2>5
    <3> QED
      BY <2>2, <2>3, <3>1, Stays
  <2> QED
    BY <2>4, <2>5
<1>7. CASE StartAbort(a)
  BY <1>7, AbandonAlone DEF StartAbort
<1> QED
  BY <1>1, <1>2, <1>3, <1>4, <1>5, <1>6, <1>7 DEF Start

LEMMA TurnAlone == ASSUME Shape, AllAlone, NEW t \in 1..MaxTurn, Turn(t) PROVE AllAlone'
<1>0. /\ t \in Actors /\ hand \in [Actors -> Hands] /\ hand[t] \in Hands /\ HandFits(at[t], hand[t], turns)
      /\ turns \in Seq(TurnRows) /\ DOMAIN turns = 1..Len(turns)
  BY Actor DEF Actors
<1>t. /\ fate \in [Messages -> Fates] /\ row \in [Messages -> Int \cup {Nil}]
      /\ inbox \subseteq Messages
  BY Typed
<1>n. at[t] # "claim" => hand[t].turn = Nil /\ Empty.turn = Nil
  BY <1>0, EmptyHand DEF HandFits
<1>h. ASSUME NEW h \in Hands, hand' = [hand EXCEPT ![t] = h], h.turn = hand[t].turn,
             DOMAIN turns' = DOMAIN turns,
             \A u \in DOMAIN turns : /\ turns'[u].msgs = turns[u].msgs
                                     /\ Counts(turns'[u]) => Counts(turns[u])
      PROVE  /\ hand'[t] = h /\ \A b \in Actors : b # t => hand'[b] = hand[b]
             /\ \A m \in Messages : \A u \in DOMAIN turns' : u \in DOMAIN turns /\ (InTurn(m, u)' => InTurn(m, u))
  <2>1. /\ hand'[t] = h /\ \A b \in Actors : b # t => hand'[b] = hand[b]
        /\ \A m \in Messages : \A u \in DOMAIN turns' : InTurn(m, u)' => InTurn(m, u)
    BY <1>0, <1>h, OneHand
  <2> QED
    BY <1>h, <2>1
<1>1. CASE Ask(t)
  <2>1. UNCHANGED <<turns, row, fate, inbox, hand>>
    BY <1>1 DEF Ask
  <2> QED
    BY <2>1 DEF AllAlone, Alone, InTurn, Bound
<1>2. CASE ReadInbox(t) \/ Release(t)
  <2>1. /\ UNCHANGED <<turns, row, hand>> /\ inbox' = {}
        /\ \A m \in Messages : fate'[m] # fate[m] => m \in inbox
    BY <1>2, <1>t DEF ReadInbox, Release, Set
  <2>2. /\ \A b \in Actors : hand'[b] = hand[b]
        /\ DOMAIN turns' = DOMAIN turns
        /\ \A m \in Messages : \A u \in DOMAIN turns' : u \in DOMAIN turns /\ (InTurn(m, u)' => InTurn(m, u))
    BY <2>1 DEF InTurn, Bound
  <2> SUFFICES ASSUME NEW k \in Messages PROVE Alone(k)'
    BY DEF AllAlone
  <2>3. Alone(k)
    BY DEF AllAlone
  <2>4. CASE k \in inbox
    BY <2>1, <2>2, <2>3, <2>4 DEF Alone
  <2>5. CASE k \notin inbox
    <3>1. /\ row'[k] = row[k] /\ fate'[k] = fate[k] /\ k \notin inbox'
          /\ \A b \in Actors : k \in hand'[b].msgs => k \in hand[b].msgs
      BY <2>1, <2>2, <2>5
    <3> QED
      BY <2>2, <2>3, <3>1, Stays
  <2> QED
    BY <2>4, <2>5
<1>3. ASSUME NEW outcome \in {"done", "error", "cancelled"}, Conclude(t, outcome) PROVE AllAlone'
  <2> DEFINE h == [Empty EXCEPT !.msgs = inbox, !.why = "late", !.status = outcome]
  <2>1. h \in Hands /\ h.msgs = inbox /\ h.turn = Empty.turn /\ hand' = [hand EXCEPT ![t] = h]
    BY <1>t, <1>3, EmptyHand DEF Hands, Statuses, Conclude
  <2>2. at[t] = "run" /\ hand[t].msgs = {} /\ UNCHANGED <<turns, row, fate>> /\ inbox' = {}
    BY <1>0, <1>3 DEF Conclude, HandFits
  <2> HIDE DEF h
  <2>3. /\ h.turn = hand[t].turn /\ DOMAIN turns' = DOMAIN turns
        /\ \A u \in DOMAIN turns : /\ turns'[u].msgs = turns[u].msgs
                                   /\ Counts(turns'[u]) => Counts(turns[u])
    BY <1>n, <2>1, <2>2
  <2>4. /\ hand'[t] = h /\ \A b \in Actors : b # t => hand'[b] = hand[b]
        /\ \A m \in Messages : \A u \in DOMAIN turns' : u \in DOMAIN turns /\ (InTurn(m, u)' => InTurn(m, u))
    BY <1>h, <2>1, <2>3
  <2> SUFFICES ASSUME NEW k \in Messages PROVE Alone(k)'
    BY DEF AllAlone
  <2>5. Alone(k)
    BY DEF AllAlone
  <2>6. CASE k \in inbox
    BY <1>0, <2>1, <2>2, <2>4, <2>5, <2>6 DEF Alone
  <2>7. CASE k \notin inbox
    <3>1. /\ row'[k] = row[k] /\ fate'[k] = fate[k] /\ k \notin inbox'
          /\ \A b \in Actors : k \in hand'[b].msgs => k \in hand[b].msgs
      BY <2>1, <2>2, <2>4, <2>7
    <3> QED
      BY <2>4, <2>5, <3>1, Stays
  <2> QED
    BY <2>6, <2>7
<1>4. CASE RecordOutcome(t)
  <2>1. turns' = [turns EXCEPT ![t].told = TRUE] /\ UNCHANGED <<row, fate, inbox, hand>>
    BY <1>4 DEF RecordOutcome
  <2>2. \A u \in DOMAIN turns : turns[u] \in TurnRows
    BY <1>0, ElementOfSeq
  <2>3. /\ DOMAIN turns' = DOMAIN turns
        /\ \A u \in DOMAIN turns : turns'[u].msgs = turns[u].msgs /\ (Counts(turns'[u]) <=> Counts(turns[u]))
    BY <2>1, <2>2 DEF TurnRows, Counts
  <2>4. \A m \in Messages : \A u \in DOMAIN turns' : u \in DOMAIN turns /\ (InTurn(m, u)' => InTurn(m, u))
    BY <2>1, <2>3 DEF InTurn, Bound
  <2> SUFFICES ASSUME NEW k \in Messages PROVE Alone(k)'
    BY DEF AllAlone
  <2>5. Alone(k) /\ (\A b \in Actors : k \in hand'[b].msgs => k \in hand[b].msgs)
    BY <2>1 DEF AllAlone
  <2> QED
    BY <2>1, <2>4, <2>5, Stays
<1>5. CASE FinishTurn(t)
  <2>1. UNCHANGED <<row, inbox>>
    BY <1>5 DEF FinishTurn
  <2>4. /\ DOMAIN turns' = DOMAIN turns
        /\ \A u \in DOMAIN turns : /\ turns'[u].msgs = turns[u].msgs
                                   /\ Counts(turns'[u]) => Counts(turns[u])
    BY <1>5, Ended
  <2>5. CASE hand[t].status = "done" /\ hand[t].msgs # {}
    <3> DEFINE h == [hand[t] EXCEPT !.status = "none"]
    <3>1. /\ h \in Hands /\ h.turn = hand[t].turn /\ h.msgs = hand[t].msgs
          /\ hand' = [hand EXCEPT ![t] = h] /\ fate' = fate
      BY <1>0, <1>5, <2>5 DEF Hands, Statuses, FinishTurn
    <3> HIDE DEF h
    <3>2. /\ hand'[t] = h /\ \A b \in Actors : b # t => hand'[b] = hand[b]
          /\ \A m \in Messages : \A u \in DOMAIN turns' : u \in DOMAIN turns /\ (InTurn(m, u)' => InTurn(m, u))
      BY <1>h, <2>4, <3>1
    <3> SUFFICES ASSUME NEW k \in Messages PROVE Alone(k)'
      BY DEF AllAlone
    <3>3. Alone(k) /\ (\A b \in Actors : k \in hand'[b].msgs => k \in hand[b].msgs)
      BY <3>1, <3>2 DEF AllAlone
    <3> QED
      BY <2>1, <3>1, <3>2, <3>3, Stays
  <2>6. CASE ~(hand[t].status = "done" /\ hand[t].msgs # {})
    <3>1. /\ hand' = [hand EXCEPT ![t] = Empty] /\ at[t] = "finish"
          /\ \A m \in Messages : fate'[m] # fate[m] => m \in hand[t].msgs
      BY <1>t, <1>5, <2>6 DEF FinishTurn, Set
    <3>2. /\ hand'[t].msgs = {} /\ \A b \in Actors : b # t => hand'[b] = hand[b]
          /\ \A m \in Messages : \A u \in DOMAIN turns' : u \in DOMAIN turns /\ (InTurn(m, u)' => InTurn(m, u))
      BY <1>h, <1>n, <2>4, <3>1, EmptyHand
    <3> SUFFICES ASSUME NEW k \in Messages PROVE Alone(k)'
      BY DEF AllAlone
    <3>3. Alone(k)
      BY DEF AllAlone
    <3>4. CASE k \in hand[t].msgs
      BY <1>0, <2>1, <3>1, <3>2, <3>3, <3>4 DEF Alone
    <3>5. CASE k \notin hand[t].msgs
      <4>1. /\ row'[k] = row[k] /\ fate'[k] = fate[k] /\ inbox' = inbox
            /\ \A b \in Actors : k \in hand'[b].msgs => k \in hand[b].msgs
        BY <2>1, <3>1, <3>2, <3>5
      <4> QED
        BY <3>2, <3>3, <4>1, Stays
    <3> QED
      BY <3>4, <3>5
  <2> QED
    BY <2>5, <2>6
<1>6. CASE PopSelect(t) \/ (PopClaim(t) /\ row[hand[t].pick] # hand[t].seq)
  <2>1. UNCHANGED <<turns, row, fate, inbox>> /\ at[t] # "claim"
    BY <1>6 DEF PopSelect, PopClaim
  <2>2. \E h \in Hands : hand' = [hand EXCEPT ![t] = h] /\ h.turn = hand[t].turn /\ h.msgs = {}
    <3>1. CASE PopSelect(t) /\ Waiting = {}
      <4>1. hand' = [hand EXCEPT ![t] = Empty]
        BY <3>1 DEF PopSelect, Return
      <4> QED
        BY <1>n, <2>1, <4>1, EmptyHand
    <3>2. CASE PopSelect(t) /\ Waiting # {}
      <4>1. PICK m \in Heads : hand' = [hand EXCEPT ![t] = [Empty EXCEPT !.pick = m, !.seq = row[m]]]
        BY <3>2 DEF PopSelect
      <4> DEFINE h == [Empty EXCEPT !.pick = m, !.seq = row[m]]
      <4>2. m \in Messages /\ row[m] \in Int
        BY <1>t DEF Heads, Waiting
      <4>3. h \in Hands /\ h.msgs = {} /\ h.turn = Empty.turn /\ hand' = [hand EXCEPT ![t] = h]
        BY <4>1, <4>2, EmptyHand DEF Hands
      <4> HIDE DEF h
      <4> QED
        BY <1>n, <2>1, <4>3
    <3>3. CASE PopClaim(t) /\ row[hand[t].pick] # hand[t].seq
      <4>1. hand' = [hand EXCEPT ![t] = hand[t]] /\ hand[t].msgs = {}
        BY <1>0, <3>3 DEF PopClaim, HandFits
      <4> QED
        BY <1>0, <4>1
    <3> QED
      BY <1>6, <3>1, <3>2, <3>3
  <2>3. PICK h \in Hands : hand' = [hand EXCEPT ![t] = h] /\ h.turn = hand[t].turn /\ h.msgs = {}
    BY <2>2
  <2>4. /\ DOMAIN turns' = DOMAIN turns
        /\ \A u \in DOMAIN turns : /\ turns'[u].msgs = turns[u].msgs
                                   /\ Counts(turns'[u]) => Counts(turns[u])
    BY <2>1
  <2>5. /\ hand'[t] = h /\ \A b \in Actors : b # t => hand'[b] = hand[b]
        /\ \A m \in Messages : \A u \in DOMAIN turns' : u \in DOMAIN turns /\ (InTurn(m, u)' => InTurn(m, u))
    BY <1>h, <2>3, <2>4
  <2> SUFFICES ASSUME NEW k \in Messages PROVE Alone(k)'
    BY DEF AllAlone
  <2>6. Alone(k) /\ (\A b \in Actors : k \in hand'[b].msgs => k \in hand[b].msgs)
    BY <2>3, <2>5 DEF AllAlone
  <2> QED
    BY <2>1, <2>5, <2>6, Stays
<1>7. CASE PopClaim(t) /\ row[hand[t].pick] = hand[t].seq
  <2> DEFINE p == hand[t].pick
             h == [Empty EXCEPT !.msgs = {p}, !.why = "flush"]
  <2>1. /\ p \in Messages /\ hand[t].msgs = {} /\ at[t] = "pop" /\ UNCHANGED <<turns, fate, inbox>>
        /\ row' = [row EXCEPT ![p] = Nil] /\ hand' = [hand EXCEPT ![t] = h]
    BY <1>0, <1>7 DEF PopClaim, HandFits
  <2>2. h \in Hands /\ h.msgs = {p} /\ h.turn = Empty.turn
    BY <2>1, EmptyHand DEF Hands
  <2> HIDE DEF h
  <2>3. /\ DOMAIN turns' = DOMAIN turns /\ h.turn = hand[t].turn
        /\ \A u \in DOMAIN turns : /\ turns'[u].msgs = turns[u].msgs
                                   /\ Counts(turns'[u]) => Counts(turns[u])
    BY <1>n, <2>1, <2>2
  <2>4. /\ hand'[t] = h /\ \A b \in Actors : b # t => hand'[b] = hand[b]
        /\ \A m \in Messages : \A u \in DOMAIN turns' : u \in DOMAIN turns /\ (InTurn(m, u)' => InTurn(m, u))
    BY <1>h, <2>1, <2>2, <2>3
  <2> SUFFICES ASSUME NEW k \in Messages PROVE Alone(k)'
    BY DEF AllAlone
  <2>5. Alone(k)
    BY DEF AllAlone
  <2>6. row[p] # Nil
    BY <1>0, <1>7, <2>1, NilAssumption DEF HandFits
  <2>7. row'[p] = Nil /\ (k # p => row'[k] = row[k])
    BY <1>t, <2>1
  <2>8. CASE k = p
    BY <1>0, <2>1, <2>2, <2>4, <2>5, <2>6, <2>7, <2>8 DEF Alone
  <2>9. CASE k # p
    <3>1. /\ row'[k] = row[k] /\ fate' = fate /\ inbox' = inbox
          /\ \A b \in Actors : k \in hand'[b].msgs => k \in hand[b].msgs
      BY <2>1, <2>2, <2>4, <2>7, <2>9
    <3> QED
      BY <2>4, <2>5, <3>1, Stays
  <2> QED
    BY <2>8, <2>9
<1> QED
  BY <1>1, <1>2, <1>3, <1>4, <1>5, <1>6, <1>7 DEF Turn

LEMMA CrashAlone == ASSUME Shape, AllAlone, Crash PROVE AllAlone'
<1> DEFINE late(m) == m \in inbox \/ \E a \in Actors : m \in hand[a].msgs /\ hand[a].why = "late" /\ hand[a].turn = Nil
           taken(m) == \E a \in Actors : m \in hand[a].msgs /\ hand[a].why \in {"steer", "flush"} /\ hand[a].turn = Nil
<1>0. /\ DOMAIN turns' = DOMAIN turns
      /\ \A t \in DOMAIN turns : /\ turns'[t].msgs = turns[t].msgs
                                 /\ Counts(turns'[t]) <=> Counts(turns[t])
      /\ Unfinished \subseteq DOMAIN turns /\ DOMAIN turns \subseteq 1..MaxTurn /\ 1..MaxTurn \subseteq Actors
  BY CrashRows
<1>1. /\ \A a \in Actors : hand'[a] = Empty
      /\ row' = row
      /\ inbox' = UNION {Stored(t) : t \in {u \in Unfinished : Resumed(u)}}
  BY DEF Crash
<1>2. \A m \in inbox' : late(m)
  <2> SUFFICES ASSUME NEW t \in Unfinished, NEW m \in Stored(t) PROVE late(m)
    BY <1>1
  <2>1. CASE m \in inbox
    BY <2>1
  <2>2. CASE at[t] \in {"release", "record", "finish"} /\ m \in hand[t].msgs
    <3>1. t \in Actors
      BY <1>0
    <3>2. HandFits(at[t], hand[t], turns)
      BY <3>1, Actor
    <3>3. hand[t].why = "late" /\ hand[t].turn = Nil
      BY <2>2, <3>2 DEF HandFits
    <3> QED
      BY <2>2, <3>1, <3>3
  <2> QED
    BY <2>1, <2>2 DEF Stored
<1>3. \A m \in Messages : fate'[m] = IF late(m) THEN IF m \in inbox' THEN fate[m] ELSE "unread"
                                     ELSE IF taken(m) THEN "lost" ELSE fate[m]
  <2> SUFFICES ASSUME NEW m \in Messages
               PROVE  fate'[m] = IF late(m) THEN IF m \in inbox' THEN fate[m] ELSE "unread"
                                 ELSE IF taken(m) THEN "lost" ELSE fate[m]
    OBVIOUS
  <2>1. m \in inbox \cup UNION {hand[a].msgs : a \in {b \in Actors : hand[b].why = "late" /\ hand[b].turn = Nil}}
          <=> late(m)
    OBVIOUS
  <2> QED
    BY <2>1 DEF Crash
<1>4. ASSUME NEW m \in Messages, NEW t \in DOMAIN turns', InTurn(m, t)'
      PROVE  t \in DOMAIN turns /\ (InTurn(m, t) \/ \E a \in Actors : hand[a].turn = t /\ m \in hand[a].msgs)
  <2>1. t \in DOMAIN turns /\ m \in turns[t].msgs /\ Counts(turns[t])
    BY <1>0, <1>4 DEF InTurn
  <2>2. CASE Bound(t)
    <3>1. PICK a \in Actors : hand[a].turn = t
      BY <2>2 DEF Bound
    <3>2. HandFits(at[a], hand[a], turns)
      BY Actor
    <3>3. t # Nil
      BY <1>0, <2>1, NilAssumption
    <3> QED
      BY <2>1, <3>1, <3>2, <3>3 DEF HandFits
  <2>3. CASE ~Bound(t)
    BY <2>1, <2>3 DEF InTurn
  <2> QED
    BY <2>1, <2>2, <2>3
<1> SUFFICES ASSUME NEW k \in Messages PROVE Alone(k)'
  BY DEF AllAlone
<1>5. Alone(k)
  BY DEF AllAlone
<1>6. \A t \in DOMAIN turns : t # Nil
  BY <1>0, NilAssumption
<1>7. /\ \A a \in Actors : k \notin hand'[a].msgs
      /\ DOMAIN turns' = DOMAIN turns
      /\ \A t \in DOMAIN turns' : InTurn(k, t)' => InTurn(k, t) \/ \E a \in Actors : hand[a].turn = t /\ k \in hand[a].msgs
  BY <1>0, <1>1, <1>4, EmptyHand
<1> HIDE DEF late, taken
<1>8. CASE late(k)
  <2>1. row[k] = Nil /\ fate[k] = "none" /\ ~taken(k)
        /\ \A t \in DOMAIN turns' : ~InTurn(k, t)'
    BY <1>5, <1>6, <1>7, <1>8 DEF Alone, late, taken
  <2> QED
    BY <1>1, <1>3, <1>7, <1>8, <2>1 DEF Alone
<1>9. CASE ~late(k) /\ taken(k)
  <2>1. row[k] = Nil /\ k \notin inbox'
        /\ \A t \in DOMAIN turns' : ~InTurn(k, t)'
    BY <1>2, <1>5, <1>6, <1>7, <1>9 DEF Alone, taken
  <2> QED
    BY <1>1, <1>3, <1>7, <1>9, <2>1 DEF Alone
<1>10. CASE ~late(k) /\ ~taken(k)
  <2>1. fate'[k] = fate[k] /\ row'[k] = row[k] /\ k \notin inbox'
    BY <1>1, <1>2, <1>3, <1>10
  <2>2. \A t \in DOMAIN turns' : InTurn(k, t)' => row[k] = Nil /\ fate[k] = "none"
    BY <1>5, <1>7 DEF Alone
  <2>3. \A t, u \in DOMAIN turns' : InTurn(k, t)' /\ InTurn(k, u)' => t = u
    BY <1>5, <1>7 DEF Alone
  <2>4. row[k] # Nil => fate[k] = "none"
    BY <1>5 DEF Alone
  <2> QED
    BY <1>7, <2>1, <2>2, <2>3, <2>4 DEF Alone
<1> QED
  BY <1>8, <1>9, <1>10

LEMMA NextAlone == ASSUME Shape, AllAlone, [Next]_vars PROVE AllAlone'
<1>1. CASE \E c \in Clients : Client(c)
  BY <1>1, ClientAlone
<1>2. CASE \E a \in Actors : Start(a)
  BY <1>2, StartAlone
<1>3. CASE \E t \in 1..MaxTurn : Turn(t)
  BY <1>3, TurnAlone
<1>4. CASE Crash
  BY <1>4, CrashAlone
<1>5. CASE UNCHANGED vars
  BY <1>5 DEF vars, AllAlone, Alone, InTurn, Bound
<1> QED
  BY <1>1, <1>2, <1>3, <1>4, <1>5 DEF Next

-----------------------------------------------------------------------------
IInv == Shape /\ AllAlone

\* What a goroutine holds agrees with where it is and with the rows, a row has
\* one start, and a message has one place (followup.go, turn.go).
THEOREM Invariance == Spec => []IInv
<1>1. Init => IInv
  BY InitShape, InitAlone DEF IInv
<1>2. IInv /\ [Next]_vars => IInv'
  BY NextShape, NextAlone DEF IInv
<1> QED
  BY <1>1, <1>2, PTL DEF Spec

\* TypeOK for any messages, clients and bounds.
THEOREM TypeCorrect == Spec => []TypeOK
<1>1. IInv => TypeOK
  BY DEF IInv, Shape
<1> QED
  BY <1>1, Invariance, PTL

\* A turn row is left running without the goroutine that will finish it only
\* where a start or a closing write failed: no order of claims, ends, flushes and
\* crashes does it (StartTurn, run; the rows a crash left are resumed or closed).
THEOREM RowsOwned == Spec => []RunningRowOwned
<1>1. IInv => RunningRowOwned
  BY DEF IInv, Shape
<1> QED
  BY <1>1, Invariance, PTL

\* A queued message is in one place, whatever clients, starts, retries, ends and
\* crashes do to it (PopFollowup, UnshiftFollowup, flushFollowup, steerOrStart).
\* The row of a start that failed is no place, also where it stays running.
THEOREM OnePlace == Spec => []MessageInOnePlace
<1>1. IInv => MessageInOnePlace
  BY AloneIsOnePlace DEF IInv
<1> QED
  BY <1>1, Invariance, PTL
-----------------------------------------------------------------------------
\* Refinement of Mailbox.

Holds(a, m, W) == m \in hand[a].msgs /\ hand[a].why \in W

\* Where a message is, from the one place it has.
WhereTable(m) ==
    /\ row[m] # Nil => Where(m) = "waiting"
    /\ fate[m] \in {"deleted", "lost"} => Where(m) = "dropped"
    /\ fate[m] \notin {"deleted", "lost", "none"} => Where(m) = "delivered"
    /\ m \in inbox => Where(m) = "delivered"
    /\ \A t \in DOMAIN turns : InTurn(m, t) => Where(m) = "delivered"
    /\ \A a \in Actors : Holds(a, m, {"steer", "flush"}) => Where(m) = "out"
    /\ \A a \in Actors : Holds(a, m, {"enqueue"}) => Where(m) = "new"
    /\ \A a \in Actors : Holds(a, m, {"late", "send", "none"}) => Where(m) = "delivered"
    /\ Unsaid(m) => Where(m) = "new"

LEMMA WhereIs == ASSUME NEW m, Alone(m) PROVE WhereTable(m)
<1>1. /\ row[m] # Nil => ~Unsaid(m)
      /\ fate[m] # "none" => ~Unsaid(m)
      /\ m \in inbox => ~Unsaid(m)
      /\ (\E t \in DOMAIN turns : InTurn(m, t)) => ~Unsaid(m)
      /\ (\E a \in Actors : m \in hand[a].msgs) => ~Unsaid(m)
  BY UnsaidNowhere
<1>2. ASSUME fate[m] # "none" \/ m \in inbox \/ \E t \in DOMAIN turns : InTurn(m, t)
      PROVE  row[m] = Nil /\ \A a \in Actors : m \notin hand[a].msgs
  BY <1>2 DEF Alone
<1>3. ASSUME m \in inbox \/ (\E t \in DOMAIN turns : InTurn(m, t)) \/ \E a \in Actors : m \in hand[a].msgs
      PROVE  fate[m] = "none" /\ row[m] = Nil
  BY <1>3 DEF Alone
<1>4. row[m] # Nil => Where(m) = "waiting"
  BY DEF Where
<1>5. /\ fate[m] \in {"deleted", "lost"} => Where(m) = "dropped"
      /\ fate[m] \notin {"deleted", "lost", "none"} => Where(m) = "delivered"
  BY <1>1, <1>2 DEF Where
<1>6. /\ m \in inbox => Where(m) = "delivered"
      /\ (\E t \in DOMAIN turns : InTurn(m, t)) => Where(m) = "delivered"
  BY <1>1, <1>2, <1>3 DEF Where
<1>7. ASSUME NEW a \in Actors, m \in hand[a].msgs
      PROVE  /\ row[m] = Nil /\ fate[m] = "none" /\ ~Unsaid(m)
             /\ \A b \in Actors : m \in hand[b].msgs => b = a
  BY <1>1, <1>7 DEF Alone
<1>8. /\ (\E a \in Actors : Holds(a, m, {"steer", "flush"})) => Where(m) = "out"
      /\ (\E a \in Actors : Holds(a, m, {"enqueue"})) => Where(m) = "new"
      /\ (\E a \in Actors : Holds(a, m, {"late", "send", "none"})) => Where(m) = "delivered"
  BY <1>7 DEF Where, Holds
<1>9. Unsaid(m) => Where(m) = "new"
  BY UnsaidNowhere DEF Where
<1> QED
  BY <1>4, <1>5, <1>6, <1>8, <1>9 DEF WhereTable

LEMMA WhereNext == (\A m : Alone(m) => WhereTable(m))'
<1>1. \A m : Alone(m) => WhereTable(m)
  BY WhereIs
<1> QED
  BY <1>1, PTL

LEMMA NowhereUnsaid ==
    ASSUME NEW m, row[m] = Nil, m \notin inbox, fate[m] = "none",
           \A a \in Actors : m \notin hand[a].msgs, \A t \in DOMAIN turns : ~InTurn(m, t)
    PROVE  Unsaid(m)
<1>1. Places(m) = {}
  BY PlacesOf
<1> QED
  BY <1>1 DEF Unsaid

Nowhere(m) == /\ row[m] = Nil /\ m \notin inbox /\ fate[m] = "none"
              /\ \A a \in Actors : m \notin hand[a].msgs
              /\ \A t \in DOMAIN turns : ~InTurn(m, t)

LEMMA UnsaidThen ==
    /\ \A m : Unsaid(m) <=> Nowhere(m)
    /\ (\A m : Unsaid(m) <=> Nowhere(m))'
<1>1. \A m : Unsaid(m) <=> Nowhere(m)
  BY UnsaidNowhere, NowhereUnsaid DEF Nowhere
<1> QED
  BY <1>1, PTL

\* A message no part of whose place changes is where it was.
LEMMA Untouched ==
    ASSUME NEW m, row'[m] = Nil <=> row[m] = Nil, fate'[m] = fate[m], m \in inbox' <=> m \in inbox,
           \A a \in Actors : /\ m \in hand'[a].msgs <=> m \in hand[a].msgs
                             /\ m \in hand[a].msgs => hand'[a].why = hand[a].why,
           DOMAIN turns \subseteq DOMAIN turns',
           \A t \in DOMAIN turns : InTurn(m, t)' <=> InTurn(m, t),
           \A t \in DOMAIN turns' \ DOMAIN turns : ~InTurn(m, t)'
    PROVE  Where(m)' = Where(m)
<1>1. Unsaid(m)' <=> Unsaid(m)
  <2>1. (Unsaid(m)' <=> Nowhere(m)') /\ (Unsaid(m) <=> Nowhere(m))
    BY UnsaidThen
  <2> QED
    BY <2>1 DEF Nowhere
<1>2. (\E a \in Actors : m \in hand'[a].msgs /\ hand'[a].why = "enqueue")
         <=> \E a \in Actors : m \in hand[a].msgs /\ hand[a].why = "enqueue"
  OBVIOUS
<1>3. (\E a \in Actors : m \in hand'[a].msgs /\ hand'[a].why \in {"steer", "flush"})
         <=> \E a \in Actors : m \in hand[a].msgs /\ hand[a].why \in {"steer", "flush"}
  OBVIOUS
<1> QED
  BY <1>1, <1>2, <1>3 DEF Where

LEMMA BoxMove ==
    ASSUME NEW m \in Messages, NEW from, NEW to, Where(m) = from, Where(m)' = to,
           \A k \in Messages : k # m => Where(k)' = Where(k)
    PROVE  Box!Move(m, from, to)
BY DEF Box!Move

LEMMA BoxDeliver ==
    ASSUME NEW M \in SUBSET Messages, \A m \in M : Where(m) = "out" /\ Where(m)' = "delivered",
           \A k \in Messages : k \notin M => Where(k)' = Where(k)
    PROVE  Box!Next
<1>1. Box!Deliver(M)
  BY DEF Box!Deliver
<1> QED
  BY <1>1 DEF Box!Next

\* Nothing moves.
BoxStays == \A k \in Messages : Where(k)' = Where(k)

BoxSteps == Box!Next \/ BoxStays

LEMMA BoxNothing ==
    ASSUME UNCHANGED <<row, turns, inbox, hand, fate>>
    PROVE  BoxStays
<1> SUFFICES ASSUME NEW m \in Messages PROVE Where(m)' = Where(m)
  BY DEF BoxStays
<1> QED
  BY Untouched DEF InTurn, Bound

\* The frame of a step of one actor whose hand binds the row it bound before.
LEMMA SameRows ==
    ASSUME Shape, NEW a \in Actors, NEW h \in Hands, hand' = [hand EXCEPT ![a] = h],
           h.turn = hand[a].turn, DOMAIN turns' = DOMAIN turns,
           \A t \in DOMAIN turns : /\ turns'[t].msgs = turns[t].msgs
                                   /\ Counts(turns'[t]) <=> Counts(turns[t])
    PROVE  /\ hand'[a] = h /\ \A b \in Actors : b # a => hand'[b] = hand[b]
           /\ \A m \in Messages : \A t \in DOMAIN turns : InTurn(m, t)' <=> InTurn(m, t)
<1>1. hand \in [Actors -> Hands]
  BY Actor
<1>2. hand'[a] = h /\ \A b \in Actors : b # a => hand'[b] = hand[b]
  BY <1>1
<1>3. \A t : Bound(t) <=> Bound(t)'
  BY <1>2 DEF Bound
<1> QED
  BY <1>2, <1>3 DEF InTurn

\* What a client's step does to a message it neither holds nor touches.
LEMMA ClientFrame ==
    ASSUME Shape, NEW c \in Clients, NEW h \in Hands, hand' = [hand EXCEPT ![c] = h],
           h.turn = hand[c].turn, UNCHANGED turns, NEW k \in Messages,
           row'[k] = Nil <=> row[k] = Nil, fate'[k] = fate[k], k \in inbox' <=> k \in inbox,
           k \notin hand[c].msgs, k \notin h.msgs
    PROVE  Where(k)' = Where(k)
<1>1. c \in Actors /\ DOMAIN turns' = DOMAIN turns
  BY DEF Actors
<1>2. /\ hand'[c] = h /\ \A b \in Actors : b # c => hand'[b] = hand[b]
      /\ \A t \in DOMAIN turns : InTurn(k, t)' <=> InTurn(k, t)
  BY <1>1, SameRows
<1> QED
  BY <1>1, <1>2, Untouched

LEMMA ClientBox ==
    ASSUME Shape, AllAlone, AllAlone', NEW c \in Clients, Client(c) PROVE BoxSteps
<1>0. /\ c \in Actors /\ hand[c] \in Hands /\ HandFits(at[c], hand[c], turns) /\ hand \in [Actors -> Hands]
      /\ row \in [Messages -> Int \cup {Nil}] /\ fate \in [Messages -> Fates] /\ NextSeq \in Int
      /\ Empty \in Hands /\ Empty.msgs = {} /\ Empty.turn = Nil
  BY Actor, Typed, EmptyHand DEF Actors
<1>w. \A m \in Messages : WhereTable(m) /\ WhereTable(m)'
  BY WhereIs, WhereNext DEF AllAlone
<1>1. ASSUME NEW m \in Messages, NEW why \in {"enqueue", "steer"}, at[c] = "idle",
             hand' = [hand EXCEPT ![c] = [Empty EXCEPT !.msgs = {m}, !.why = why]]
      PROVE  \E h \in Hands : /\ hand' = [hand EXCEPT ![c] = h] /\ h.turn = hand[c].turn
                              /\ h.msgs = {m} /\ hand[c].msgs = {}
                              /\ hand'[c].msgs = {m} /\ hand'[c].why = why
  <2> DEFINE h == [Empty EXCEPT !.msgs = {m}, !.why = why]
  <2>1. /\ h \in Hands /\ h.msgs = {m} /\ h.why = why /\ h.turn = hand[c].turn /\ hand[c].msgs = {}
        /\ hand' = [hand EXCEPT ![c] = h]
    BY <1>0, <1>1 DEF Hands, HandFits
  <2> HIDE DEF h
  <2> QED
    BY <1>0, <2>1
<1>2. ASSUME NEW m \in Messages, EnqueueCheck(c, m) PROVE BoxStays
  <2>1. PICK h \in Hands : /\ hand' = [hand EXCEPT ![c] = h] /\ h.turn = hand[c].turn
                           /\ h.msgs = {m} /\ hand[c].msgs = {}
                           /\ hand'[c].msgs = {m} /\ hand'[c].why = "enqueue"
    BY <1>1, <1>2 DEF EnqueueCheck
  <2>2. UNCHANGED <<row, turns, inbox, fate>> /\ Unsaid(m)
    BY <1>2 DEF EnqueueCheck
  <2>3. Where(m) = "new" /\ Where(m)' = "new"
    BY <1>0, <1>w, <2>1, <2>2 DEF WhereTable, Holds
  <2>4. \A k \in Messages : k # m => Where(k)' = Where(k)
    BY <2>1, <2>2, ClientFrame
  <2> QED
    BY <2>3, <2>4 DEF BoxStays
<1>3. ASSUME NEW m \in Messages, TakeFollowup(c, m) PROVE Box!Next
  <2>1. PICK h \in Hands : /\ hand' = [hand EXCEPT ![c] = h] /\ h.turn = hand[c].turn
                           /\ h.msgs = {m} /\ hand[c].msgs = {}
                           /\ hand'[c].msgs = {m} /\ hand'[c].why = "steer"
    BY <1>1, <1>3 DEF TakeFollowup
  <2>2. /\ UNCHANGED <<turns, inbox, fate>> /\ row[m] # Nil
        /\ \A k \in Messages : k # m => row'[k] = row[k]
    BY <1>0, <1>3 DEF TakeFollowup
  <2>3. Where(m) = "waiting" /\ Where(m)' = "out"
    BY <1>0, <1>w, <2>1, <2>2 DEF WhereTable, Holds
  <2>4. \A k \in Messages : k # m => Where(k)' = Where(k)
    BY <2>1, <2>2, ClientFrame
  <2>5. Box!Take(m)
    BY <2>3, <2>4, BoxMove DEF Box!Take
  <2> QED
    BY <2>5 DEF Box!Next
<1>4. ASSUME NEW m \in Messages, DeleteFollowup(c, m) PROVE Box!Next
  <2>1. /\ UNCHANGED <<turns, inbox, hand>> /\ row[m] # Nil /\ fate'[m] = "deleted"
        /\ \A k \in Messages : k # m => row'[k] = row[k] /\ fate'[k] = fate[k]
    BY <1>0, <1>4 DEF DeleteFollowup
  <2>2. Where(m) = "waiting" /\ Where(m)' = "dropped"
    BY <1>w, <2>1 DEF WhereTable
  <2>3. \A k \in Messages : k # m => Where(k)' = Where(k)
    BY <2>1, Untouched DEF InTurn, Bound
  <2>4. Box!Remove(m)
    BY <2>2, <2>3, BoxMove DEF Box!Remove
  <2> QED
    BY <2>4 DEF Box!Next
<1>5. ASSUME NEW m \in Messages, RequeueFollowup(c, m) PROVE BoxStays
  <2>1. /\ UNCHANGED <<turns, inbox, hand, fate>>
        /\ \A k \in Messages : row'[k] = Nil <=> row[k] = Nil
    BY <1>0, <1>5, NilAssumption DEF RequeueFollowup
  <2> QED
    BY <2>1, Untouched DEF InTurn, Bound, BoxStays
<1>6. CASE EnqueueWrite(c)
  <2>1. PICK m \in Messages : hand[c].msgs = {m}
    BY <1>0, <1>6 DEF EnqueueWrite, HandFits
  <2>2. /\ hand' = [hand EXCEPT ![c] = Empty] /\ Empty.turn = hand[c].turn /\ hand[c].why = "enqueue"
        /\ UNCHANGED <<turns, inbox, fate>> /\ row'[m] # Nil
        /\ \A k \in Messages : k # m => row'[k] = row[k]
    BY <1>0, <1>6, <2>1, NilAssumption DEF EnqueueWrite, HandFits, Return
  <2>3. Where(m) = "new" /\ Where(m)' = "waiting"
    BY <1>0, <1>w, <2>1, <2>2 DEF WhereTable, Holds
  <2>4. \A k \in Messages : k # m => Where(k)' = Where(k)
    BY <1>0, <2>1, <2>2, ClientFrame
  <2>5. Box!Enqueue(m)
    BY <2>3, <2>4, BoxMove DEF Box!Enqueue
  <2> QED
    BY <2>5 DEF Box!Next, BoxSteps
<1>7. CASE SteerOrStart(c)
  <2>1. PICK m \in Messages : hand[c].msgs = {m}
    BY <1>0, <1>7 DEF SteerOrStart, HandFits
  <2>2. CASE inbox' = inbox \cup hand[c].msgs /\ Return(c)
    <3>1. /\ hand' = [hand EXCEPT ![c] = Empty] /\ Empty.turn = hand[c].turn /\ hand[c].why = "steer"
          /\ UNCHANGED <<turns, row, fate>> /\ inbox' = inbox \cup {m}
      BY <1>0, <1>7, <2>1, <2>2 DEF SteerOrStart, HandFits, Return
    <3>2. Where(m) = "out" /\ Where(m)' = "delivered"
      BY <1>0, <1>w, <2>1, <3>1 DEF WhereTable, Holds
    <3>3. \A k \in Messages : k # m => Where(k)' = Where(k)
      BY <1>0, <2>1, <3>1, ClientFrame
    <3>4. \E M \in SUBSET Messages :
             /\ \A k \in M : Where(k) = "out" /\ Where(k)' = "delivered"
             /\ \A k \in Messages : k \notin M => Where(k)' = Where(k)
      <4>1. {m} \in SUBSET Messages
        OBVIOUS
      <4> QED
        BY <3>2, <3>3, <4>1
    <3> QED
      BY <3>4, BoxDeliver DEF BoxSteps
  <2>3. CASE UNCHANGED <<inbox, hand>>
    BY <1>7, <2>3, BoxNothing DEF SteerOrStart, BoxSteps
  <2> QED
    BY <1>7, <2>2, <2>3 DEF SteerOrStart
<1>8. CASE Send(c)
  <2> DEFINE h == [Empty EXCEPT !.why = "send"]
  <2>1. h \in Hands /\ h.msgs = {} /\ h.turn = hand[c].turn /\ hand' = [hand EXCEPT ![c] = h]
        /\ UNCHANGED <<turns, row, fate, inbox>> /\ hand[c].msgs = {}
    BY <1>0, <1>8 DEF Send, Hands, HandFits
  <2> HIDE DEF h
  <2>2. \A k \in Messages : Where(k)' = Where(k)
    BY <2>1, ClientFrame
  <2> QED
    BY <2>2 DEF BoxStays, BoxSteps
<1> QED
  BY <1>2, <1>3, <1>4, <1>5, <1>6, <1>7, <1>8 DEF Client, BoxSteps

\* A step of one actor that hands nothing over: what it holds it keeps, and
\* what it lets go was delivered before and is delivered now.
LEMMA ActorStays ==
    ASSUME Shape, NEW a \in Actors, NEW h \in Hands, hand' = [hand EXCEPT ![a] = h],
           h.turn = hand[a].turn, DOMAIN turns' = DOMAIN turns,
           \A t \in DOMAIN turns : /\ turns'[t].msgs = turns[t].msgs
                                   /\ Counts(turns'[t]) <=> Counts(turns[t]),
           NEW k \in Messages, row'[k] = Nil <=> row[k] = Nil, fate'[k] = fate[k], k \in inbox' <=> k \in inbox,
           k \in h.msgs <=> k \in hand[a].msgs, k \in h.msgs => h.why = hand[a].why
    PROVE  Where(k)' = Where(k)
<1>1. /\ hand'[a] = h /\ \A b \in Actors : b # a => hand'[b] = hand[b]
      /\ \A t \in DOMAIN turns : InTurn(k, t)' <=> InTurn(k, t)
  BY SameRows
<1> QED
  BY <1>1, Untouched

\* A failed start moves nothing.
LEMMA FailedBox ==
    ASSUME Shape, AllAlone, AllAlone', NEW a \in Actors, at[a] \in {"check", "create", "claim"}, Failed(a),
           UNCHANGED <<row, inbox>>, DOMAIN turns' = DOMAIN turns,
           \A t \in DOMAIN turns : IF t = hand[a].turn THEN ~Counts(turns'[t])
                                                      ELSE turns'[t] = turns[t]
    PROVE  BoxStays
<1>0. /\ hand \in [Actors -> Hands] /\ hand[a] \in Hands /\ HandFits(at[a], hand[a], turns)
      /\ fate \in [Messages -> Fates] /\ hand[a].msgs \subseteq Messages
      /\ DOMAIN turns \subseteq 1..MaxTurn /\ Nil \notin 1..MaxTurn
  BY Actor, Typed DEF Hands
<1>w. \A m \in Messages : WhereTable(m) /\ WhereTable(m)'
  BY WhereIs, WhereNext DEF AllAlone
<1>1. /\ \A b \in Actors : b # a => hand'[b] = hand[b]
      /\ hand'[a].turn = Nil
      /\ \/ hand[a].why \in {"send", "late"} /\ hand'[a].msgs = {} /\ fate' = Set(hand[a].msgs, "unread")
         \/ hand[a].msgs = {} /\ hand'[a].msgs = {} /\ fate' = fate
         \/ hand'[a].msgs = hand[a].msgs /\ hand'[a].why = hand[a].why /\ fate' = fate
  <2>1. CASE hand[a].why = "send"
    BY <1>0, <2>1, EmptyHand DEF Failed, Refused, Return, HandFits
  <2>2. CASE hand[a].why = "late"
    BY <1>0, <2>2, EmptyHand DEF Failed, Refused, Return
  <2>3. CASE hand[a].why \in {"steer", "flush"}
    BY <2>3, FailedHand
  <2> QED
    BY <1>0, <2>1, <2>2, <2>3 DEF HandFits, Senders
<1>2. ASSUME NEW t \in DOMAIN turns
      PROVE  /\ t = hand[a].turn => Bound(t) /\ ~Counts(turns'[t])
             /\ t # hand[a].turn => turns'[t] = turns[t] /\ (Bound(t)' <=> Bound(t))
  <2>1. t # Nil
    BY <1>0
  <2> QED
    BY <1>1, <2>1 DEF Bound
<1> SUFFICES ASSUME NEW k \in Messages PROVE Where(k)' = Where(k)
  BY DEF BoxStays
<1>3. \A t \in DOMAIN turns : InTurn(k, t)' <=> InTurn(k, t)
  BY <1>2 DEF InTurn
<1>4. CASE hand[a].why \in {"send", "late"} /\ hand'[a].msgs = {} /\ fate' = Set(hand[a].msgs, "unread")
  <2>1. CASE k \in hand[a].msgs
    <3>1. fate'[k] = "unread"
      BY <1>4, <2>1 DEF Set
    <3>2. Holds(a, k, {"late", "send", "none"})
      BY <1>4, <2>1 DEF Holds
    <3> QED
      BY <1>w, <3>1, <3>2 DEF WhereTable
  <2>2. CASE k \notin hand[a].msgs
    <3>1. fate'[k] = fate[k]
      BY <1>4, <2>2 DEF Set
    <3> QED
      BY <1>1, <1>3, <1>4, <2>2, <3>1, Untouched
  <2> QED
    BY <2>1, <2>2
<1>5. CASE \/ hand[a].msgs = {} /\ hand'[a].msgs = {} /\ fate' = fate
           \/ hand'[a].msgs = hand[a].msgs /\ hand'[a].why = hand[a].why /\ fate' = fate
  BY <1>1, <1>3, <1>5, Untouched
<1> QED
  BY <1>1, <1>4, <1>5

LEMMA AbandonBox ==
    ASSUME Shape, AllAlone, AllAlone', NEW a \in Actors, at[a] = "claim", Abandon(hand[a].turn), Failed(a),
           UNCHANGED <<row, inbox>>
    PROVE  BoxStays
<1>0. HandFits("claim", hand[a], turns)
  BY Actor
<1>1. PICK t \in DOMAIN turns : t = hand[a].turn
  BY <1>0 DEF HandFits
<1>2. /\ DOMAIN turns' = DOMAIN turns
      /\ \A u \in DOMAIN turns : IF u = hand[a].turn THEN ~Counts(turns'[u]) ELSE turns'[u] = turns[u]
  BY <1>1, Abandoned
<1> QED
  BY <1>2, FailedBox

LEMMA StartBox ==
    ASSUME Shape, AllAlone, AllAlone', NEW a \in Actors, Start(a) PROVE BoxSteps
<1>0. /\ hand \in [Actors -> Hands] /\ hand[a] \in Hands /\ HandFits(at[a], hand[a], turns)
      /\ fate \in [Messages -> Fates] /\ row \in [Messages -> Int \cup {Nil}]
      /\ turns \in Seq(TurnRows) /\ Len(turns) \in Nat /\ DOMAIN turns = 1..Len(turns)
      /\ DOMAIN turns \subseteq 1..MaxTurn /\ Nil \notin 1..MaxTurn
      /\ hand[a].msgs \subseteq Messages /\ MinRow \in Int
  BY Actor, Typed DEF Hands
<1>e. Empty \in Hands /\ Empty.msgs = {} /\ Empty.turn = Nil
  BY EmptyHand
<1>w. \A m \in Messages : WhereTable(m) /\ WhereTable(m)'
  BY WhereIs, WhereNext DEF AllAlone
<1>r. at[a] # "claim" => hand[a].turn = Nil /\ \A t \in DOMAIN turns : t # hand[a].turn
  BY <1>0 DEF HandFits
<1>k. /\ hand[a].why \in {"steer", "flush"} => \A k \in hand[a].msgs : Where(k) = "out"
      /\ hand[a].why = "late" => \A k \in hand[a].msgs : Where(k) = "delivered"
      /\ hand[a].why = "send" => hand[a].msgs = {}
  BY <1>0, <1>w DEF WhereTable, Holds, HandFits
\* The messages it held are delivered, the others stay.
<1>d. ASSUME hand[a].why \in Senders,
             \A k \in hand[a].msgs : Where(k)' = "delivered",
             \A k \in Messages : k \notin hand[a].msgs => Where(k)' = Where(k)
      PROVE  BoxSteps
  <2>1. CASE hand[a].why \in {"steer", "flush"}
    BY <1>0, <1>d, <1>k, <2>1, BoxDeliver DEF BoxSteps
  <2>2. CASE hand[a].why \in {"late", "send"}
    BY <1>d, <1>k, <2>2 DEF BoxStays, BoxSteps
  <2> QED
    BY <1>d, <2>1, <2>2 DEF Senders
<1>1. CASE StartCheck(a)
  <2>0. hand[a].why \in Senders /\ at[a] = "check"
    BY <1>0, <1>1 DEF StartCheck, HandFits
  <2>1. CASE asking
    <3>1. /\ hand' = [hand EXCEPT ![a] = Empty] /\ UNCHANGED <<turns, row, inbox>>
          /\ fate' = Set(hand[a].msgs, "answer")
      BY <1>1, <2>1 DEF StartCheck, Return
    <3>2. ASSUME NEW k \in hand[a].msgs PROVE Where(k)' = "delivered"
      <4>1. k \in Messages /\ fate'[k] = "answer"
        BY <1>0, <3>1 DEF Set
      <4> QED
        BY <1>w, <4>1 DEF WhereTable
    <3>3. ASSUME NEW k \in Messages, k \notin hand[a].msgs PROVE Where(k)' = Where(k)
      <4>1. fate'[k] = fate[k] /\ DOMAIN turns' = DOMAIN turns /\ Empty.turn = hand[a].turn
        BY <1>e, <1>r, <2>0, <3>1, <3>3 DEF Set
      <4> QED
        BY <1>e, <3>1, <3>3, <4>1, ActorStays
    <3> QED
      BY <1>d, <2>0, <3>2, <3>3
  <2>2. CASE ~asking /\ running # Nil
    <3>1. /\ at[a] \in {"check", "create", "claim"} /\ Failed(a) /\ UNCHANGED <<row, inbox>>
          /\ DOMAIN turns' = DOMAIN turns
          /\ \A t \in DOMAIN turns : turns'[t] = turns[t] /\ t # hand[a].turn
      BY <1>r, <1>1, <2>2 DEF StartCheck, Failed
    <3> QED
      BY <3>1, FailedBox DEF BoxSteps
  <2>3. CASE ~asking /\ running = Nil
    <3>1. UNCHANGED <<turns, row, fate, inbox, hand>>
      BY <1>1, <2>3 DEF StartCheck
    <3> QED
      BY <3>1, BoxNothing DEF BoxSteps
  <2> QED
    BY <2>1, <2>2, <2>3
<1>2. CASE StartFail(a)
  <2>1. /\ at[a] \in {"check", "create", "claim"} /\ Failed(a) /\ UNCHANGED <<row, inbox>>
        /\ DOMAIN turns' = DOMAIN turns
        /\ \A t \in DOMAIN turns : turns'[t] = turns[t] /\ t # hand[a].turn
    BY <1>r, <1>2 DEF StartFail
  <2> QED
    BY <2>1, FailedBox DEF BoxSteps
<1>3. CASE StartCreate(a)
  <2>n. PICK n \in Nat : n = Len(turns) + 1
    BY <1>0
  <2> DEFINE x == [msgs |-> hand[a].msgs, status |-> "running", told |-> FALSE, faults |-> {}]
  <2>1. turns' = Append(turns, x) /\ hand' = [hand EXCEPT ![a].turn = n] /\ UNCHANGED <<row, fate, inbox>>
    BY <1>3, <2>n DEF StartCreate
  <2>2. DOMAIN turns' = DOMAIN turns \cup {n} /\ \A t \in DOMAIN turns : turns'[t] = turns[t] /\ t # n
    <3>1. x \in TurnRows
      BY <1>0 DEF TurnRows
    <3> HIDE DEF x
    <3> QED
      BY <1>0, <2>1, <2>n, <3>1, AppendProperties
  <2>3. /\ hand'[a].msgs = hand[a].msgs /\ hand'[a].why = hand[a].why /\ hand'[a].turn = n
        /\ \A b \in Actors : b # a => hand'[b] = hand[b]
        /\ hand[a].turn = Nil
    BY <1>0, <1>3, <2>1 DEF Hands, StartCreate, HandFits
  <2> HIDE DEF x
  <2>4. \A t \in DOMAIN turns : t # Nil /\ t # n
    BY <1>0, <2>2
  <2>5. \A t \in DOMAIN turns : Bound(t)' <=> Bound(t)
    BY <2>3, <2>4 DEF Bound
  <2>6. Bound(n)'
    BY <2>3 DEF Bound
  <2> SUFFICES ASSUME NEW k \in Messages PROVE Where(k)' = Where(k)
    BY DEF BoxStays, BoxSteps
  <2>7. /\ \A t \in DOMAIN turns : InTurn(k, t)' <=> InTurn(k, t)
        /\ \A t \in DOMAIN turns' \ DOMAIN turns : ~InTurn(k, t)'
    BY <2>2, <2>5, <2>6 DEF InTurn
  <2>8. \A b \in Actors : hand'[b].msgs = hand[b].msgs /\ hand'[b].why = hand[b].why
    BY <2>3
  <2> QED
    BY <2>1, <2>2, <2>7, <2>8, Untouched
<1>4. CASE StartClaim(a)
  <2>t. PICK t \in DOMAIN turns : t = hand[a].turn
    BY <1>0, <1>4 DEF StartClaim, HandFits
  <2>0. /\ at[a] = "claim" /\ t = hand[a].turn /\ t \in DOMAIN turns /\ turns[t].msgs = hand[a].msgs
        /\ Counts(turns[t]) /\ hand[a].why \in Senders
    BY <1>0, <1>4, <2>t DEF StartClaim, HandFits, Open, Counts
  <2>1. CASE running = Nil
    <3>1. hand' = [hand EXCEPT ![a] = Empty] /\ UNCHANGED <<turns, fate, row, inbox>>
      BY <1>4, <2>1 DEF StartClaim
    <3>2. hand'[a] = Empty /\ \A b \in Actors : b # a => hand'[b] = hand[b]
      BY <1>0, <3>1
    <3>3. \A b \in Actors : b # a => hand[b].turn # t
      BY <1>0, <2>0 DEF Shape, OneStart
    <3>4. ~Bound(t)'
      BY <1>0, <1>e, <2>0, <3>2, <3>3 DEF Bound
    <3>5. ASSUME NEW u \in DOMAIN turns, u # t PROVE Bound(u)' <=> Bound(u)
      <4>1. u # Nil /\ u # hand'[a].turn /\ u # hand[a].turn
        BY <1>0, <1>e, <2>0, <3>2, <3>5
      <4> QED
        BY <3>2, <4>1 DEF Bound
    <3>6. ASSUME NEW k \in hand[a].msgs PROVE Where(k)' = "delivered"
      <4>1. InTurn(k, t)' /\ t \in DOMAIN turns' /\ k \in Messages
        BY <1>0, <2>0, <3>1, <3>4 DEF InTurn
      <4> QED
        BY <1>w, <4>1 DEF WhereTable
    <3>7. ASSUME NEW k \in Messages, k \notin hand[a].msgs PROVE Where(k)' = Where(k)
      <4>1. \A u \in DOMAIN turns : InTurn(k, u)' <=> InTurn(k, u)
        BY <2>0, <3>1, <3>5, <3>7 DEF InTurn
      <4> QED
        BY <1>e, <3>1, <3>2, <3>7, <4>1, Untouched
    <3> QED
      BY <1>d, <2>0, <3>6, <3>7
  <2>2. CASE running # Nil
    BY <1>4, <2>2, AbandonBox DEF StartClaim, Failed, BoxSteps
  <2> QED
    BY <2>1, <2>2
<1>5. CASE RestoreRead(a)
  <2> DEFINE h == [hand[a] EXCEPT !.seq = MinRow - 1]
  <2>1. /\ h \in Hands /\ h.turn = hand[a].turn /\ h.msgs = hand[a].msgs /\ h.why = hand[a].why
        /\ hand' = [hand EXCEPT ![a] = h] /\ UNCHANGED <<turns, row, fate, inbox>>
    <3>1. hand[a] \in Hands /\ MinRow - 1 \in Int
      BY <1>0
    <3> QED
      BY <1>5, <3>1 DEF Hands, RestoreRead
  <2> HIDE DEF h
  <2>2. DOMAIN turns' = DOMAIN turns
    BY <2>1
  <2>3. \A k \in Messages : Where(k)' = Where(k)
    BY <2>1, <2>2, ActorStays
  <2> QED
    BY <2>3 DEF BoxStays, BoxSteps
<1>6. CASE RestoreWrite(a)
  <2>1. /\ at[a] = "unshift" /\ hand[a].why \in {"steer", "flush"} /\ hand[a].seq # Nil
        /\ hand[a].turn = Nil
    BY <1>0, <1>6, NilAssumption DEF RestoreWrite, HandFits
  <2>2. PICK m \in Messages : hand[a].msgs = {m}
    BY <1>0, <2>1 DEF HandFits
  <2>3. /\ hand' = [hand EXCEPT ![a] = Empty] /\ UNCHANGED <<turns, fate, inbox>> /\ row'[m] # Nil
        /\ \A k \in Messages : k # m => row'[k] = row[k]
        /\ DOMAIN turns' = DOMAIN turns
    BY <1>6, <2>1, <2>2 DEF RestoreWrite, Return
  <2>4. Where(m) = "out" /\ Where(m)' = "waiting"
    BY <1>k, <1>w, <2>1, <2>2, <2>3 DEF WhereTable
  <2>5. \A k \in Messages : k # m => Where(k)' = Where(k)
    BY <1>e, <2>1, <2>2, <2>3, ActorStays
  <2>6. Box!Return(m)
    BY <2>4, <2>5, BoxMove DEF Box!Return
  <2> QED
    BY <2>6 DEF Box!Next, BoxSteps
<1>7. CASE StartAbort(a)
  BY <1>7, AbandonBox DEF StartAbort, BoxSteps
<1> QED
  BY <1>1, <1>2, <1>3, <1>4, <1>5, <1>6, <1>7 DEF Start

LEMMA TurnBox ==
    ASSUME Shape, AllAlone, AllAlone', NEW t \in 1..MaxTurn, Turn(t) PROVE BoxSteps
<1>0. /\ t \in Actors /\ hand \in [Actors -> Hands] /\ hand[t] \in Hands /\ HandFits(at[t], hand[t], turns)
      /\ turns \in Seq(TurnRows) /\ inbox \subseteq Messages /\ hand[t].msgs \subseteq Messages
      /\ row \in [Messages -> Int \cup {Nil}] /\ fate \in [Messages -> Fates]
  BY Actor, Typed DEF Hands, Actors
<1>e. Empty \in Hands /\ Empty.msgs = {} /\ Empty.turn = Nil
  BY EmptyHand
<1>w. \A m \in Messages : WhereTable(m) /\ WhereTable(m)'
  BY WhereIs, WhereNext DEF AllAlone
<1>n. at[t] # "claim" => hand[t].turn = Nil
  BY <1>0 DEF HandFits
<1>1. CASE Ask(t)
  BY <1>1, BoxNothing DEF Ask, BoxSteps
<1>2. CASE ReadInbox(t)
  <2>1. UNCHANGED <<turns, row, hand>> /\ inbox' = {} /\ fate' = Set(inbox, "read")
    BY <1>2 DEF ReadInbox
  <2> SUFFICES ASSUME NEW k \in Messages PROVE Where(k)' = Where(k)
    BY DEF BoxStays, BoxSteps
  <2>2. CASE k \in inbox
    <3>1. fate'[k] = "read"
      BY <2>1, <2>2 DEF Set
    <3> QED
      BY <1>w, <2>2, <3>1 DEF WhereTable
  <2>3. CASE k \notin inbox
    <3>1. fate'[k] = fate[k]
      BY <2>1, <2>3 DEF Set
    <3> QED
      BY <2>1, <2>3, <3>1, Untouched DEF InTurn, Bound
  <2> QED
    BY <2>2, <2>3
<1>3. ASSUME NEW outcome \in {"done", "error", "cancelled"}, Conclude(t, outcome) PROVE BoxStays
  <2> DEFINE h == [Empty EXCEPT !.msgs = inbox, !.why = "late", !.status = outcome]
  <2>1. h \in Hands /\ h.msgs = inbox /\ h.why = "late" /\ h.turn = Empty.turn /\ hand' = [hand EXCEPT ![t] = h]
    BY <1>0, <1>3, EmptyHand DEF Hands, Statuses, Conclude
  <2>2. at[t] = "run" /\ hand[t].msgs = {} /\ UNCHANGED <<turns, row, fate>> /\ inbox' = {}
    BY <1>0, <1>3 DEF Conclude, HandFits
  <2> HIDE DEF h
  <2>3. h.turn = hand[t].turn /\ DOMAIN turns' = DOMAIN turns /\ hand'[t] = h
    BY <1>0, <1>e, <1>n, <2>1, <2>2
  <2> SUFFICES ASSUME NEW k \in Messages PROVE Where(k)' = Where(k)
    BY DEF BoxStays
  <2>4. CASE k \in inbox
    <3>1. Holds(t, k, {"late", "send", "none"})'
      BY <2>1, <2>3, <2>4 DEF Holds
    <3> QED
      BY <1>0, <1>w, <2>4, <3>1 DEF WhereTable
  <2>5. CASE k \notin inbox
    BY <1>0, <2>1, <2>2, <2>3, <2>5, ActorStays
  <2> QED
    BY <2>4, <2>5
<1>4. CASE Release(t)
  <2>1. UNCHANGED <<turns, row, hand>> /\ inbox' = {} /\ fate' = Set(inbox, "unread")
    BY <1>4 DEF Release
  <2> SUFFICES ASSUME NEW k \in Messages PROVE Where(k)' = Where(k)
    BY DEF BoxStays, BoxSteps
  <2>2. CASE k \in inbox
    <3>1. fate'[k] = "unread"
      BY <2>1, <2>2 DEF Set
    <3> QED
      BY <1>w, <2>2, <3>1 DEF WhereTable
  <2>3. CASE k \notin inbox
    <3>1. fate'[k] = fate[k]
      BY <2>1, <2>3 DEF Set
    <3> QED
      BY <2>1, <2>3, <3>1, Untouched DEF InTurn, Bound
  <2> QED
    BY <2>2, <2>3
<1>5. CASE RecordOutcome(t)
  <2>1. turns' = [turns EXCEPT ![t].told = TRUE] /\ UNCHANGED <<row, fate, inbox, hand>>
    BY <1>5 DEF RecordOutcome
  <2>2. \A u \in DOMAIN turns : turns[u] \in TurnRows
    BY <1>0, ElementOfSeq
  <2>3. /\ DOMAIN turns' = DOMAIN turns
        /\ \A u \in DOMAIN turns : turns'[u].msgs = turns[u].msgs /\ (Counts(turns'[u]) <=> Counts(turns[u]))
    BY <2>1, <2>2 DEF TurnRows, Counts
  <2> SUFFICES ASSUME NEW k \in Messages PROVE Where(k)' = Where(k)
    BY DEF BoxStays, BoxSteps
  <2>4. \A u \in DOMAIN turns : InTurn(k, u)' <=> InTurn(k, u)
    BY <2>1, <2>3 DEF InTurn, Bound
  <2> QED
    BY <2>1, <2>3, <2>4, Untouched
<1>6. CASE FinishTurn(t)
  <2>1. UNCHANGED <<row, inbox>> /\ at[t] = "finish"
    BY <1>6 DEF FinishTurn
  <2>4. /\ DOMAIN turns' = DOMAIN turns
        /\ \A u \in DOMAIN turns : /\ turns'[u].msgs = turns[u].msgs
                                   /\ Counts(turns'[u]) <=> Counts(turns[u])
    BY <1>6, Ended
  <2>5. CASE hand[t].status = "done" /\ hand[t].msgs # {}
    <3> DEFINE h == [hand[t] EXCEPT !.status = "none"]
    <3>1. /\ h \in Hands /\ h.turn = hand[t].turn /\ h.msgs = hand[t].msgs /\ h.why = hand[t].why
          /\ hand' = [hand EXCEPT ![t] = h] /\ fate' = fate
      BY <1>0, <1>6, <2>5 DEF Hands, Statuses, FinishTurn
    <3> HIDE DEF h
    <3> SUFFICES ASSUME NEW k \in Messages PROVE Where(k)' = Where(k)
      BY DEF BoxStays, BoxSteps
    <3>2. /\ row'[k] = Nil <=> row[k] = Nil
          /\ fate'[k] = fate[k]
          /\ k \in inbox' <=> k \in inbox
          /\ k \in h.msgs <=> k \in hand[t].msgs
          /\ k \in h.msgs => h.why = hand[t].why
      BY <2>1, <3>1
    <3> QED
      BY <1>0, <2>4, <3>1, <3>2, ActorStays
  <2>6. CASE ~(hand[t].status = "done" /\ hand[t].msgs # {})
    <3>1. /\ hand' = [hand EXCEPT ![t] = Empty] /\ Empty.turn = hand[t].turn /\ hand[t].why = "late"
          /\ fate' = Set(hand[t].msgs, "unread")
      BY <1>0, <1>e, <1>6, <2>6 DEF FinishTurn, HandFits
    <3> SUFFICES ASSUME NEW k \in Messages PROVE Where(k)' = Where(k)
      BY DEF BoxStays, BoxSteps
    <3>2. CASE k \in hand[t].msgs
      <4>1. fate'[k] = "unread" /\ Holds(t, k, {"late", "send", "none"})
        BY <3>1, <3>2 DEF Set, Holds
      <4> QED
        BY <1>0, <1>w, <4>1 DEF WhereTable
    <3>3. CASE k \notin hand[t].msgs
      <4>1. fate'[k] = fate[k]
        BY <3>1, <3>3 DEF Set
      <4> QED
        BY <1>0, <1>e, <2>1, <2>4, <3>1, <3>3, <4>1, ActorStays
    <3> QED
      BY <3>2, <3>3
  <2> QED
    BY <2>5, <2>6
<1>7. CASE PopSelect(t) \/ (PopClaim(t) /\ row[hand[t].pick] # hand[t].seq)
  <2>1. /\ UNCHANGED <<turns, row, fate, inbox>> /\ DOMAIN turns' = DOMAIN turns
        /\ at[t] # "claim" /\ hand[t].msgs = {}
    BY <1>0, <1>7 DEF PopSelect, PopClaim, HandFits
  <2>2. \E h \in Hands : hand' = [hand EXCEPT ![t] = h] /\ h.turn = hand[t].turn /\ h.msgs = {}
    <3>1. CASE PopSelect(t) /\ Waiting = {}
      <4>1. hand' = [hand EXCEPT ![t] = Empty]
        BY <3>1 DEF PopSelect, Return
      <4> QED
        BY <1>e, <1>n, <2>1, <4>1
    <3>2. CASE PopSelect(t) /\ Waiting # {}
      <4>1. PICK m \in Heads : hand' = [hand EXCEPT ![t] = [Empty EXCEPT !.pick = m, !.seq = row[m]]]
        BY <3>2 DEF PopSelect
      <4> DEFINE h == [Empty EXCEPT !.pick = m, !.seq = row[m]]
      <4>2. m \in Messages /\ row[m] \in Int
        BY <1>0 DEF Heads, Waiting
      <4>3. h \in Hands /\ h.msgs = {} /\ h.turn = Empty.turn /\ hand' = [hand EXCEPT ![t] = h]
        BY <4>1, <4>2, EmptyHand DEF Hands
      <4> HIDE DEF h
      <4> QED
        BY <1>e, <1>n, <2>1, <4>3
    <3>3. CASE PopClaim(t) /\ row[hand[t].pick] # hand[t].seq
      <4>1. hand' = [hand EXCEPT ![t] = hand[t]]
        BY <1>0, <3>3 DEF PopClaim
      <4> QED
        BY <1>0, <2>1, <4>1
    <3> QED
      BY <1>7, <3>1, <3>2, <3>3
  <2>3. PICK h \in Hands : hand' = [hand EXCEPT ![t] = h] /\ h.turn = hand[t].turn /\ h.msgs = {}
    BY <2>2
  <2>4. \A k \in Messages : Where(k)' = Where(k)
    BY <1>0, <2>1, <2>3, ActorStays
  <2> QED
    BY <2>4 DEF BoxStays, BoxSteps
<1>8. CASE PopClaim(t) /\ row[hand[t].pick] = hand[t].seq
  <2>p. PICK p \in Messages : p = hand[t].pick
    BY <1>0, <1>8 DEF PopClaim, HandFits
  <2> DEFINE h == [Empty EXCEPT !.msgs = {p}, !.why = "flush"]
  <2>1. /\ hand[t].msgs = {} /\ at[t] = "pop" /\ UNCHANGED <<turns, fate, inbox>>
        /\ row[p] # Nil /\ row' = [row EXCEPT ![p] = Nil] /\ hand' = [hand EXCEPT ![t] = h]
    BY <1>0, <1>8, <2>p, NilAssumption DEF PopClaim, HandFits
  <2>2. h \in Hands /\ h.msgs = {p} /\ h.why = "flush" /\ h.turn = hand[t].turn
    BY <1>e, <1>n, <2>1 DEF Hands
  <2> HIDE DEF h
  <2>3. /\ hand'[t] = h /\ DOMAIN turns' = DOMAIN turns
        /\ \A k \in Messages : k # p => row'[k] = row[k]
    BY <1>0, <2>1
  <2>4. Where(p) = "waiting" /\ Where(p)' = "out"
    <3>1. Holds(t, p, {"steer", "flush"})'
      BY <2>2, <2>3 DEF Holds
    <3> QED
      BY <1>0, <1>w, <2>1, <3>1 DEF WhereTable
  <2>5. \A k \in Messages : k # p => Where(k)' = Where(k)
    BY <1>0, <2>1, <2>2, <2>3, ActorStays
  <2>6. Box!Take(p)
    BY <2>4, <2>5, BoxMove DEF Box!Take
  <2> QED
    BY <2>6 DEF Box!Next, BoxSteps
<1> QED
  BY <1>1, <1>2, <1>3, <1>4, <1>5, <1>6, <1>7, <1>8 DEF Turn, BoxSteps

\* A crash drops or delivers what senders held and moves nothing else.
LEMMA CrashBox == ASSUME Shape, AllAlone, AllAlone', Crash PROVE BoxSteps
<1> DEFINE late(m) == m \in inbox \/ \E a \in Actors : m \in hand[a].msgs /\ hand[a].why = "late" /\ hand[a].turn = Nil
           taken(m) == \E a \in Actors : m \in hand[a].msgs /\ hand[a].why \in {"steer", "flush"} /\ hand[a].turn = Nil
<1>0. /\ DOMAIN turns' = DOMAIN turns
      /\ \A t \in DOMAIN turns : /\ turns'[t].msgs = turns[t].msgs
                                 /\ Counts(turns'[t]) <=> Counts(turns[t])
      /\ Unfinished \subseteq DOMAIN turns /\ DOMAIN turns \subseteq 1..MaxTurn /\ 1..MaxTurn \subseteq Actors
  BY CrashRows
<1>w. \A m \in Messages : WhereTable(m) /\ WhereTable(m)'
  BY WhereIs, WhereNext DEF AllAlone
<1>1. /\ \A a \in Actors : hand'[a].msgs = {} /\ hand'[a].turn = Nil
      /\ row' = row
      /\ inbox' = UNION {Stored(t) : t \in {u \in Unfinished : Resumed(u)}}
  BY EmptyHand DEF Crash
<1>2. \A m \in inbox' : late(m)
  <2> SUFFICES ASSUME NEW t \in Unfinished, NEW m \in Stored(t) PROVE late(m)
    BY <1>1
  <2>1. CASE m \in inbox
    BY <2>1
  <2>2. CASE at[t] \in {"release", "record", "finish"} /\ m \in hand[t].msgs
    <3>1. t \in Actors
      BY <1>0
    <3>2. HandFits(at[t], hand[t], turns)
      BY <3>1, Actor
    <3>3. hand[t].why = "late" /\ hand[t].turn = Nil
      BY <2>2, <3>2 DEF HandFits
    <3> QED
      BY <2>2, <3>1, <3>3
  <2> QED
    BY <2>1, <2>2 DEF Stored
<1>3. \A m \in Messages : fate'[m] = IF late(m) THEN IF m \in inbox' THEN fate[m] ELSE "unread"
                                     ELSE IF taken(m) THEN "lost" ELSE fate[m]
  <2> SUFFICES ASSUME NEW m \in Messages
               PROVE  fate'[m] = IF late(m) THEN IF m \in inbox' THEN fate[m] ELSE "unread"
                                 ELSE IF taken(m) THEN "lost" ELSE fate[m]
    OBVIOUS
  <2>1. m \in inbox \cup UNION {hand[a].msgs : a \in {b \in Actors : hand[b].why = "late" /\ hand[b].turn = Nil}}
          <=> late(m)
    OBVIOUS
  <2> QED
    BY <2>1 DEF Crash
<1>4. \A t \in DOMAIN turns : t # Nil /\ ~Bound(t)'
  BY <1>0, <1>1, NilAssumption DEF Bound
<1>5. ASSUME NEW m \in Messages, NEW t \in DOMAIN turns
      PROVE  InTurn(m, t)' <=> m \in turns[t].msgs /\ Counts(turns[t])
  BY <1>0, <1>4 DEF InTurn
<1>6. ASSUME NEW a \in Actors
      PROVE  /\ hand[a].turn # Nil =>
                  /\ hand[a].turn \in DOMAIN turns
                  /\ turns[hand[a].turn].msgs = hand[a].msgs
                  /\ Counts(turns[hand[a].turn])
                  /\ hand[a].why \in Senders
             /\ hand[a].msgs # {} => hand[a].why \in {"enqueue", "steer", "flush", "late"}
  <2>1. HandFits(at[a], hand[a], turns) /\ at[a] \in Labels
    BY Actor
  <2>2. hand[a].turn # Nil => at[a] = "claim"
    BY <2>1 DEF HandFits
  <2>3. hand[a].msgs # {} => hand[a].why \in {"enqueue", "steer", "flush", "late"}
    BY <2>1 DEF HandFits, Labels, Senders
  <2> QED
    BY <2>1, <2>2, <2>3 DEF HandFits, Open, Counts
\* A message an actor about to claim holds is in its turn.
<1>7. ASSUME NEW m \in Messages, NEW a \in Actors, m \in hand[a].msgs, hand[a].turn # Nil
      PROVE  Where(m)' = "delivered"
  <2>1. PICK t \in DOMAIN turns : t = hand[a].turn
    BY <1>6, <1>7
  <2>2. InTurn(m, t)' /\ t \in DOMAIN turns'
    BY <1>0, <1>5, <1>6, <1>7, <2>1
  <2> QED
    BY <1>w, <2>2 DEF WhereTable
\* Unread steering is delivered, before and after.
<1>8. ASSUME NEW m \in Messages, late(m) PROVE Where(m)' = "delivered" /\ Where(m) = "delivered"
  <2>1. Where(m) = "delivered"
    <3>1. CASE m \in inbox
      BY <1>w, <3>1 DEF WhereTable
    <3>2. CASE \E a \in Actors : m \in hand[a].msgs /\ hand[a].why = "late"
      BY <1>w, <3>2 DEF WhereTable, Holds
    <3> QED
      BY <1>8, <3>1, <3>2
  <2>2. m \in inbox' \/ fate'[m] = "unread"
    BY <1>3, <1>8
  <2> QED
    BY <1>w, <2>1, <2>2 DEF WhereTable
<1>9. ASSUME NEW k \in Messages
      PROVE  \/ Where(k)' = Where(k) /\ Where(k) # "out"
             \/ Where(k) = "out" /\ Where(k)' \in {"delivered", "dropped"}
  <2>0. Alone(k) /\ WhereTable(k) /\ WhereTable(k)'
    BY <1>w DEF AllAlone
  <2>1. CASE row[k] # Nil
    <3>1. Where(k) = "waiting" /\ Where(k)' = "waiting"
      BY <1>1, <2>0, <2>1 DEF WhereTable
    <3> QED
      BY <3>1
  <2>2. CASE fate[k] # "none"
    <3>1. ~late(k) /\ ~taken(k)
      BY <2>0, <2>2 DEF Alone
    <3>2. fate'[k] = fate[k]
      BY <1>3, <3>1
    <3>3. CASE fate[k] \in {"deleted", "lost"}
      <4>1. Where(k) = "dropped" /\ Where(k)' = "dropped"
        BY <2>0, <3>2, <3>3 DEF WhereTable
      <4> QED
        BY <4>1
    <3>4. CASE fate[k] \notin {"deleted", "lost", "none"}
      <4>1. Where(k) = "delivered" /\ Where(k)' = "delivered"
        BY <2>0, <3>2, <3>4 DEF WhereTable
      <4> QED
        BY <4>1
    <3> QED
      BY <2>2, <3>3, <3>4
  <2>3. CASE late(k)
    BY <1>8, <2>3
  <2>4. ASSUME NEW a \in Actors, k \in hand[a].msgs, hand[a].why \in {"steer", "flush"}
        PROVE  Where(k) = "out" /\ Where(k)' \in {"delivered", "dropped"}
    <3>1. Where(k) = "out"
      BY <2>0, <2>4 DEF WhereTable, Holds
    <3>2. CASE hand[a].turn # Nil
      BY <1>7, <2>4, <3>1, <3>2
    <3>3. CASE hand[a].turn = Nil
      <4>1. ~late(k) /\ taken(k)
        BY <2>0, <2>4, <3>3 DEF Alone
      <4>2. fate'[k] = "lost"
        BY <1>3, <4>1
      <4> QED
        BY <2>0, <3>1, <4>2 DEF WhereTable
    <3> QED
      BY <3>2, <3>3
  <2>5. ASSUME NEW a \in Actors, k \in hand[a].msgs, hand[a].why = "late", ~late(k)
        PROVE  Where(k)' = Where(k) /\ Where(k) # "out"
    <3>1. Where(k) = "delivered"
      BY <2>0, <2>5 DEF WhereTable, Holds
    <3>2. hand[a].turn # Nil
      BY <2>5
    <3> QED
      BY <1>7, <2>5, <3>1, <3>2
  <2>6. ASSUME NEW t \in DOMAIN turns, InTurn(k, t)
        PROVE  Where(k)' = Where(k) /\ Where(k) # "out"
    <3>1. InTurn(k, t)' /\ t \in DOMAIN turns'
      BY <1>0, <1>5, <2>6 DEF InTurn
    <3>2. Where(k) = "delivered" /\ Where(k)' = "delivered"
      BY <2>0, <2>6, <3>1 DEF WhereTable
    <3> QED
      BY <3>2
  <2>7. CASE /\ row[k] = Nil /\ fate[k] = "none" /\ ~late(k)
             /\ \A a \in Actors : k \in hand[a].msgs => hand[a].why = "enqueue"
             /\ \A t \in DOMAIN turns : ~InTurn(k, t)
    <3>1. Where(k) = "new"
      <4>1. CASE \E a \in Actors : k \in hand[a].msgs
        BY <2>0, <2>7, <4>1 DEF WhereTable, Holds
      <4>2. CASE \A a \in Actors : k \notin hand[a].msgs
        <5>1. Unsaid(k)
          BY <2>7, <4>2, UnsaidThen DEF Nowhere
        <5> QED
          BY <2>0, <5>1 DEF WhereTable
      <4> QED
        BY <4>1, <4>2
    <3>2. fate'[k] = "none" /\ k \notin inbox' /\ row'[k] = Nil
      <4>1. ~taken(k)
        BY <2>7
      <4> QED
        BY <1>1, <1>2, <1>3, <2>7, <4>1
    <3>3. ASSUME NEW t \in DOMAIN turns', InTurn(k, t)' PROVE FALSE
      <4>1. k \in turns[t].msgs /\ Counts(turns[t]) /\ t \in DOMAIN turns
        BY <1>0, <1>5, <3>3
      <4>2. PICK a \in Actors : hand[a].turn = t
        BY <2>7, <4>1 DEF InTurn, Bound
      <4>3. k \in hand[a].msgs /\ hand[a].why \in Senders
        BY <1>4, <1>6, <4>1, <4>2
      <4> QED
        BY <2>7, <4>3 DEF Senders
    <3>4. Unsaid(k)'
      BY <1>1, <3>2, <3>3, UnsaidThen DEF Nowhere
    <3> QED
      BY <2>0, <3>1, <3>4 DEF WhereTable
  <2> HIDE DEF late
  <2> QED
    BY <1>6, <2>1, <2>2, <2>3, <2>4, <2>5, <2>6, <2>7
<1>10. \E D \in SUBSET Messages : Box!Crash(D)
  <2>1. PICK D \in SUBSET Messages : \A k \in Messages : k \in D <=> Where(k)' = "delivered"
    <3> DEFINE E == {k \in Messages : Where(k)' = "delivered"}
    <3>1. E \in SUBSET Messages /\ \A k \in Messages : k \in E <=> Where(k)' = "delivered"
      OBVIOUS
    <3> HIDE DEF E
    <3> QED
      BY <3>1
  <2>2. \A k \in Messages : Where(k)' = IF Where(k) # "out" THEN Where(k)
                                       ELSE IF k \in D THEN "delivered" ELSE "dropped"
    BY <1>9, <2>1
  <2> QED
    BY <2>2 DEF Box!Crash
<1> QED
  BY <1>10 DEF Box!Next, BoxSteps

-----------------------------------------------------------------------------
\* For any messages and clients: whatever clients, starts, failures, ends of
\* turns and crashes do, the queue moves a message only as Mailbox allows
\* (PopFollowup, UnshiftFollowup, steerOrStart).
THEOREM Refinement == Spec => ImplementsMailbox
<1>1. Init => Box!Init
  <2> SUFFICES ASSUME Init, NEW m \in Messages PROVE Where(m) = "new"
    BY DEF Box!Init
  <2>1. /\ row[m] = Nil /\ m \notin inbox /\ fate[m] = "none"
        /\ \A a \in Actors : hand[a].msgs = {}
        /\ DOMAIN turns = {}
    BY EmptyHand DEF Init
  <2>2. Unsaid(m) /\ Alone(m)
    BY <2>1, UnsaidThen DEF Nowhere, Alone
  <2> QED
    BY <2>2, WhereIs DEF WhereTable
<1>2. IInv /\ IInv' /\ [Next]_vars => BoxSteps
  <2> SUFFICES ASSUME Shape, AllAlone, AllAlone', [Next]_vars PROVE BoxSteps
    BY DEF IInv
  <2>1. CASE \E c \in Clients : Client(c)
    BY <2>1, ClientBox
  <2>2. CASE \E a \in Actors : Start(a)
    BY <2>2, StartBox
  <2>3. CASE \E t \in 1..MaxTurn : Turn(t)
    BY <2>3, TurnBox
  <2>4. CASE Crash
    BY <2>4, CrashBox
  <2>5. CASE UNCHANGED vars
    BY <2>5, BoxNothing DEF vars, BoxSteps
  <2> QED
    BY <2>1, <2>2, <2>3, <2>4, <2>5 DEF Next
<1>3. BoxSteps => [Box!Next]_([m \in Messages |-> Where(m)])
  BY DEF BoxSteps, BoxStays
<1> QED
  BY <1>1, <1>2, <1>3, Invariance, PTL DEF Spec, ImplementsMailbox, Box!Spec
=============================================================================
