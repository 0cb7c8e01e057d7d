-------------------------- MODULE SchedulesProofs --------------------------
(***************************************************************************)
(* Any waits, conversations and clients, and any number of fires.            *)
(***************************************************************************)
EXTENDS Schedules, SequenceTheorems, FiniteSetTheorems, TLAPS

\* The label and the hand of a starter agree with each other and with the rows.
HandFits(l, h, rs, ts) ==
    /\ l \in StarterLabels
    /\ h.runs \subseteq DOMAIN rs
    /\ l = "idle" => h.runs = {}
    /\ l \in {"insert", "skip", "advance", "drop"} => h.wait \in Waits
    /\ l \in {"advance", "drop", "bind", "unrun", "finish"} => h.run \in h.runs
    /\ l \in {"create", "claim", "refuse"} => h.run \in h.runs \/ (h.run = Nil /\ h.runs = {})
    /\ l \in {"bind", "claim", "refuse"} => h.turn \in DOMAIN ts /\ ts[h.turn].run = h.run

HandsSound == \A a \in Starters : HandFits(at[a], hand[a], runs, turns)

\* A turn that does something has a row, and one that looks at its fire has one.
TurnsSound ==
    /\ \A t \in DOMAIN turns : turns[t].run \in DOMAIN runs \cup {Nil}
    /\ \A t \in 1..MaxTurn : /\ at[t] \in TurnLabels
                             /\ at[t] # "idle" => t \in DOMAIN turns
                             /\ at[t] \in {"pause", "close"} => turns[t].run # Nil

\* Whoever claims has fireMu.
MuHeld == \A a \in Starters : at[a] \in UnderMu => fireMu = a

Shape == TypeOK /\ HandsSound /\ TurnsSound /\ MuHeld

\* What was read of a wait under fireMu still holds when its fire is written.
FreshClaim == \A a \in Starters : at[a] = "insert" => ~Claimed(hand[a].wait)

IInv == Shape /\ FreshClaim /\ OneFirePerWait /\ ClaimOwned

LEMMA EmptyHand == Empty \in Hands /\ Empty.runs = {}
BY DEF Empty, Hands

LEMMA InitInv == Init => IInv
<1> SUFFICES ASSUME Init PROVE IInv
  OBVIOUS
<1> USE DEF Init
<1>1. TypeOK
  BY EmptyHand, BoundAssumption DEF TypeOK, WaitRows, Absent, StarterLabels
<1>2. HandsSound
  BY EmptyHand DEF HandsSound, HandFits, Actors, StarterLabels
<1>3. TurnsSound
  BY DEF TurnsSound, TurnLabels, Actors
<1>4. MuHeld /\ FreshClaim
  BY DEF MuHeld, FreshClaim, UnderMu, Actors
<1>5. InFlight = {}
  BY DEF InFlight
<1> QED
  BY <1>1, <1>2, <1>3, <1>4, <1>5 DEF IInv, Shape, OneFirePerWait, ClaimOwned

-----------------------------------------------------------------------------
\* The rows.

\* Rows are added and their status changes; what they name stays.
RowsKept ==
    /\ runs' \in Seq(RunRows) /\ Len(runs') <= MaxRun
    /\ turns' \in Seq(TurnRows) /\ Len(turns') <= MaxTurn
    /\ \A r \in DOMAIN runs : r \in DOMAIN runs' /\ runs'[r].wait = runs[r].wait
    /\ \A t \in DOMAIN turns : t \in DOMAIN turns' /\ turns'[t].run = turns[t].run
    /\ \A t \in DOMAIN turns' : turns'[t].run \in DOMAIN runs' \cup {Nil}

LEMMA RowsUnchanged == ASSUME Shape, UNCHANGED <<runs, turns>> PROVE RowsKept
BY DEF Shape, TypeOK, TurnsSound, RowsKept

\* A row of schedule_runs is updated.
LEMMA RunUpdated ==
    ASSUME Shape, NEW r \in DOMAIN runs, NEW x \in RunRows, x.wait = runs[r].wait,
           runs' = [runs EXCEPT ![r] = x], turns' = turns
    PROVE  RowsKept /\ DOMAIN runs' = DOMAIN runs
<1>1. runs \in Seq(RunRows) /\ r \in 1..Len(runs)
  BY DEF Shape, TypeOK
<1>2. runs' \in Seq(RunRows) /\ Len(runs') = Len(runs) /\ DOMAIN runs' = DOMAIN runs
  BY <1>1, ExceptSeq
<1> QED
  BY <1>1, <1>2 DEF Shape, TypeOK, TurnsSound, RowsKept

LEMMA RunAdded ==
    ASSUME Shape, NEW x \in RunRows, Len(runs) < MaxRun, runs' = Append(runs, x), turns' = turns
    PROVE  /\ RowsKept
           /\ DOMAIN runs' = DOMAIN runs \cup {Len(runs) + 1}
           /\ \A r \in DOMAIN runs : runs'[r] = runs[r]
           /\ runs'[Len(runs) + 1] = x
           /\ Len(runs) + 1 \in 1..MaxRun /\ Len(runs) + 1 \notin DOMAIN runs
<1>1. runs \in Seq(RunRows) /\ Len(runs) \in Nat /\ DOMAIN runs = 1..Len(runs)
  BY DEF Shape, TypeOK
<1>2. /\ runs' \in Seq(RunRows) /\ Len(runs') = Len(runs) + 1
      /\ \A r \in 1..Len(runs) : runs'[r] = runs[r]
      /\ runs'[Len(runs) + 1] = x
  BY <1>1, AppendProperties
<1>3. DOMAIN runs' = 1..(Len(runs) + 1)
  BY <1>1, <1>2
<1>4. MaxRun \in Nat
  BY BoundAssumption
<1>5. DOMAIN runs' = DOMAIN runs \cup {Len(runs) + 1}
  BY <1>1, <1>3
<1> QED
  BY <1>1, <1>2, <1>4, <1>5 DEF Shape, TypeOK, TurnsSound, RowsKept

LEMMA TurnUpdated ==
    ASSUME Shape, NEW t \in DOMAIN turns, NEW x \in TurnRows, x.run = turns[t].run,
           turns' = [turns EXCEPT ![t] = x], runs' = runs
    PROVE  RowsKept /\ DOMAIN turns' = DOMAIN turns
<1>1. turns \in Seq(TurnRows) /\ t \in 1..Len(turns)
  BY DEF Shape, TypeOK
<1>2. turns' \in Seq(TurnRows) /\ Len(turns') = Len(turns) /\ DOMAIN turns' = DOMAIN turns
  BY <1>1, ExceptSeq
<1> QED
  BY <1>1, <1>2 DEF Shape, TypeOK, TurnsSound, RowsKept

LEMMA TurnAdded ==
    ASSUME Shape, NEW x \in TurnRows, x.run \in DOMAIN runs \cup {Nil},
           Len(turns) < MaxTurn, turns' = Append(turns, x), runs' = runs
    PROVE  /\ RowsKept
           /\ Len(turns) + 1 \in DOMAIN turns' /\ turns'[Len(turns) + 1].run = x.run
           /\ Len(turns) + 1 \in 1..MaxTurn
<1>1. turns \in Seq(TurnRows) /\ Len(turns) \in Nat /\ DOMAIN turns = 1..Len(turns)
  BY DEF Shape, TypeOK
<1>2. /\ turns' \in Seq(TurnRows) /\ Len(turns') = Len(turns) + 1
      /\ \A t \in 1..Len(turns) : turns'[t] = turns[t]
      /\ turns'[Len(turns) + 1] = x
  BY <1>1, AppendProperties
<1>3. DOMAIN turns' = 1..(Len(turns) + 1)
  BY <1>1, <1>2
<1>4. MaxTurn \in Nat
  BY BoundAssumption
<1>5. DOMAIN turns' = DOMAIN turns \cup {Len(turns) + 1}
  BY <1>1, <1>3
<1> QED
  BY <1>1, <1>2, <1>4, <1>5 DEF Shape, TypeOK, TurnsSound, RowsKept

LEMMA FinishedRun ==
    ASSUME Shape, NEW r \in DOMAIN runs, NEW status \in {"skipped", "ended"},
           FinishRun(r, status), turns' = turns
    PROVE  RowsKept /\ InFlight' = InFlight \ {r}
<1> DEFINE x == [runs[r] EXCEPT !.status = status]
<1>1. runs \in Seq(RunRows) /\ r \in 1..Len(runs) /\ runs[r] \in RunRows
  BY ElementOfSeq DEF Shape, TypeOK
<1>2. x \in RunRows /\ x.wait = runs[r].wait /\ x.status = status
  BY <1>1 DEF RunRows
<1>3. runs' = [runs EXCEPT ![r] = x]
  BY DEF FinishRun
<1> HIDE DEF x
<1>4. RowsKept /\ DOMAIN runs' = DOMAIN runs
  BY <1>2, <1>3, RunUpdated
<1>5. \A s \in DOMAIN runs : runs'[s] = IF s = r THEN x ELSE runs[s]
  BY <1>3
<1> QED
  BY <1>2, <1>4, <1>5 DEF InFlight

LEMMA FinishedScheduled ==
    ASSUME Shape, NEW r \in DOMAIN runs, FinishScheduled(r), turns' = turns
    PROVE  RowsKept /\ InFlight' = InFlight \ {r}
<1>1. CASE r \in InFlight
  BY <1>1, FinishedRun DEF FinishScheduled, FinishRun
<1>2. CASE r \notin InFlight
  BY <1>2, RowsUnchanged DEF FinishScheduled, InFlight
<1> QED
  BY <1>1, <1>2

-----------------------------------------------------------------------------
\* Frames of the parts of the invariant.

\* No fire begins: nothing that was read under fireMu becomes wrong.
LEMMA NoNewFire ==
    ASSUME IInv, RowsKept, InFlight' \subseteq InFlight,
           \A b \in Starters : at'[b] = "insert" => ~Claimed(hand'[b].wait)
    PROVE  FreshClaim' /\ OneFirePerWait'
<1>1. \A r \in InFlight' : r \in InFlight /\ runs'[r].wait = runs[r].wait
  BY DEF RowsKept, InFlight
<1> QED
  BY <1>1 DEF IInv, FreshClaim, OneFirePerWait, Claimed

\* Every owner passes its fires on.
LEMMA OwnersKept ==
    ASSUME IInv, RowsKept, lost \subseteq lost', InFlight' \subseteq InFlight,
           \A r \in InFlight', b \in Starters : r \in hand[b].runs => Owned(r)',
           \A t \in DOMAIN turns : turns[t].run \in InFlight' /\ Alive(t) => Alive(t)'
    PROVE  ClaimOwned'
<1> SUFFICES ASSUME NEW r \in InFlight', r \notin lost' PROVE Owned(r)'
  BY DEF ClaimOwned
<1>1. Owned(r)
  BY DEF IInv, ClaimOwned
<1>2. CASE \E b \in Starters : r \in hand[b].runs
  BY <1>2
<1>3. CASE \E t \in DOMAIN turns : turns[t].run = r /\ Alive(t)
  <2>1. PICK t \in DOMAIN turns : turns[t].run = r /\ Alive(t)
    BY <1>3
  <2>2. t \in DOMAIN turns' /\ turns'[t].run = r /\ Alive(t)'
    BY <2>1 DEF RowsKept
  <2> QED
    BY <2>2 DEF Owned
<1> QED
  BY <1>1, <1>2, <1>3 DEF Owned

\* A starter goes on.
LEMMA StarterShape ==
    ASSUME Shape, NEW a \in Starters, NEW l \in StarterLabels, NEW h \in Hands,
           Go(a, l), hand' = [hand EXCEPT ![a] = h], RowsKept, HandFits(l, h, runs', turns'),
           sched' \in [Waits -> WaitRows], running' = running,
           fireMu' = fireMu \/ (fireMu = Nil /\ fireMu' = a) \/ (fireMu = a /\ fireMu' = Nil),
           l \in UnderMu => fireMu' = a,
           UNCHANGED <<lost, crashes>>
    PROVE  /\ Shape'
           /\ at'[a] = l /\ hand'[a] = h
           /\ \A b \in Actors : b # a => at'[b] = at[b] /\ hand'[b] = hand[b]
<1>0. a \in Actors /\ Starters \subseteq Actors /\ Starters \cap Nat = {} /\ Nil \notin Starters
  BY ActorAssumption, NilAssumption DEF Actors, Starters
<1>1. /\ at' \in [Actors -> StarterLabels \cup TurnLabels] /\ hand' \in [Actors -> Hands]
      /\ at'[a] = l /\ hand'[a] = h
      /\ \A b \in Actors : b # a => at'[b] = at[b] /\ hand'[b] = hand[b]
  BY <1>0 DEF Shape, TypeOK, Go
<1>2. TypeOK'
  BY <1>0, <1>1 DEF Shape, TypeOK, RowsKept
<1>3. HandsSound'
  <2> SUFFICES ASSUME NEW b \in Starters PROVE HandFits(at'[b], hand'[b], runs', turns')
    BY DEF HandsSound
  <2>1. CASE b = a
    BY <1>1, <2>1
  <2>2. CASE b # a
    <3>1. HandFits(at[b], hand[b], runs, turns) /\ at'[b] = at[b] /\ hand'[b] = hand[b]
      BY <1>0, <1>1, <2>2 DEF Shape, HandsSound
    <3> QED
      BY <3>1 DEF HandFits, RowsKept
  <2> QED
    BY <2>1, <2>2
<1>4. TurnsSound'
  <2>1. \A t \in 1..MaxTurn : t \in Actors /\ t # a
    BY <1>0 DEF Actors
  <2> QED
    BY <1>1, <2>1 DEF Shape, TurnsSound, RowsKept
<1>5. MuHeld'
  BY <1>0, <1>1 DEF Shape, MuHeld
<1> QED
  BY <1>1, <1>2, <1>3, <1>4, <1>5 DEF Shape

LEMMA StarterStep ==
    ASSUME IInv, NEW a \in Starters, NEW l \in StarterLabels, NEW h \in Hands,
           Go(a, l), hand' = [hand EXCEPT ![a] = h], RowsKept, HandFits(l, h, runs', turns'),
           sched' \in [Waits -> WaitRows], running' = running,
           fireMu' = fireMu \/ (fireMu = Nil /\ fireMu' = a) \/ (fireMu = a /\ fireMu' = Nil),
           l \in UnderMu => fireMu' = a,
           UNCHANGED <<lost, crashes>>,
           InFlight' \subseteq InFlight,
           l = "insert" => ~Claimed(h.wait),
           hand[a].runs \cap InFlight' \subseteq h.runs
    PROVE  IInv'
<1>1. /\ Shape' /\ at'[a] = l /\ hand'[a] = h
      /\ \A b \in Actors : b # a => at'[b] = at[b] /\ hand'[b] = hand[b]
  BY StarterShape DEF IInv
<1>2. Starters \subseteq Actors /\ Starters \cap Nat = {} /\ DOMAIN turns \subseteq Actors \cap Nat
  BY ActorAssumption, BoundAssumption DEF Actors, Starters, IInv, Shape, TypeOK
<1>3. \A b \in Starters : at'[b] = "insert" => ~Claimed(hand'[b].wait)
  BY <1>1, <1>2 DEF IInv, FreshClaim
<1>4. FreshClaim' /\ OneFirePerWait'
  BY <1>3, NoNewFire
<1>5. ClaimOwned'
  <2>1. \A r \in InFlight', b \in Starters : r \in hand[b].runs => Owned(r)'
    BY <1>1, <1>2 DEF Owned
  <2>2. \A t \in DOMAIN turns : Alive(t) => Alive(t)'
    BY <1>1, <1>2 DEF Alive
  <2> QED
    BY <2>1, <2>2, OwnersKept
<1> QED
  BY <1>1, <1>4, <1>5 DEF IInv

LEMMA EditStep ==
    ASSUME IInv, sched' \in [Waits -> WaitRows],
           UNCHANGED <<runs, turns, running, fireMu, at, hand, lost, crashes>>
    PROVE  IInv'
<1>1. Shape'
  BY DEF IInv, Shape, TypeOK, HandsSound, TurnsSound, MuHeld
<1>2. FreshClaim' /\ OneFirePerWait' /\ ClaimOwned'
  BY DEF IInv, FreshClaim, OneFirePerWait, ClaimOwned, Claimed, InFlight, Owned, Alive
<1> QED
  BY <1>1, <1>2 DEF IInv

-----------------------------------------------------------------------------
\* Claiming.

\* What a starter that is not at the end of the bound knows of itself.
LEMMA Starter ==
    ASSUME IInv, NEW a \in Starters
    PROVE  /\ a \in Actors /\ a \notin Nat /\ a # Nil
           /\ hand[a] \in Hands
           /\ HandFits(at[a], hand[a], runs, turns)
           /\ at[a] \in UnderMu => fireMu = a
           /\ sched \in [Waits -> WaitRows]
BY ActorAssumption, NilAssumption
   DEF Actors, Starters, IInv, Shape, TypeOK, HandsSound, MuHeld

LEMMA ListStep ==
    ASSUME IInv, NEW a \in Starters, NEW list \in SUBSET Waits,
           at[a] = "idle", fireMu = Nil, fireMu' = a, Go(a, "row"),
           hand' = [hand EXCEPT ![a] = [Empty EXCEPT !.list = list]],
           UNCHANGED <<sched, runs, turns, running, lost, crashes>>
    PROVE  IInv'
<1> DEFINE h == [Empty EXCEPT !.list = list]
<1>1. h \in Hands /\ h.runs = {}
  BY EmptyHand DEF Hands
<1>2. "row" \in StarterLabels /\ HandFits("row", h, runs', turns')
  BY <1>1 DEF HandFits, StarterLabels, UnderMu
<1>3. hand[a].runs = {} /\ sched \in [Waits -> WaitRows]
  BY Starter DEF HandFits
<1>4. RowsKept /\ InFlight' = InFlight
  BY RowsUnchanged DEF IInv, InFlight
<1>5. hand' = [hand EXCEPT ![a] = h]
  OBVIOUS
<1> HIDE DEF h
<1> QED
  BY <1>1, <1>2, <1>3, <1>4, <1>5, StarterStep

LEMMA RowStep == ASSUME IInv, NEW a \in Starters, NEW w \in Waits, Row(a, w) PROVE IInv'
<1>0. /\ a \in Actors /\ hand[a] \in Hands /\ HandFits("row", hand[a], runs, turns)
      /\ fireMu = a /\ sched \in [Waits -> WaitRows] /\ hand \in [Actors -> Hands]
  BY Starter DEF Row, UnderMu, IInv, Shape, TypeOK
<1>1. RowsKept /\ InFlight' = InFlight
  BY RowsUnchanged DEF Row, IInv, InFlight
<1>2. {"row", "skip", "insert"} \subseteq StarterLabels
  BY DEF StarterLabels, UnderMu
<1>3. CASE at' = at
  <2>1. PICK list \in SUBSET Waits : hand' = [hand EXCEPT ![a].list = list]
    <3>1. hand[a].list \subseteq Waits
      BY <1>0 DEF Hands
    <3>2. at[a] = "row" /\ \A l \in {"skip", "insert"} : ~Go(a, l)
      BY <1>0, <1>3 DEF Row, Go, IInv, Shape, TypeOK
    <3>3. \/ hand' = [hand EXCEPT ![a].list = hand[a].list \ {w}]
          \/ hand' = [hand EXCEPT ![a].list = {}]
      BY <3>2 DEF Row
    <3> QED
      BY <3>1, <3>3
  <2> DEFINE h == [hand[a] EXCEPT !.list = list]
  <2>2. h \in Hands /\ h.runs = hand[a].runs
    BY <1>0 DEF Hands
  <2>3. hand' = [hand EXCEPT ![a] = h] /\ HandFits("row", h, runs', turns')
    BY <1>0, <2>1, <2>2, RowsUnchanged DEF Row, HandFits
  <2>4. Go(a, "row")
    BY <1>3 DEF Row, Go, IInv, Shape, TypeOK
  <2> HIDE DEF h
  <2> QED
    BY <1>0, <1>1, <1>2, <2>2, <2>3, <2>4, StarterStep DEF Row
<1>4. CASE at' # at
  <2>1. PICK l \in {"skip", "insert"} : Go(a, l)
    BY <1>4 DEF Row
  <2>2. ~Claimed(w) /\ hand' = [hand EXCEPT ![a].list = @ \ {w}, ![a].wait = w]
    BY <1>4 DEF Row
  <2> DEFINE h == [hand[a] EXCEPT !.list = @ \ {w}, !.wait = w]
  <2>3. h \in Hands /\ h.runs = hand[a].runs /\ h.wait = w
    BY <1>0 DEF Hands
  <2>4. hand' = [hand EXCEPT ![a] = h]
    BY <1>0, <2>2
  <2>5. HandFits(l, h, runs', turns')
    BY <1>0, <1>2, <2>3 DEF Row, HandFits
  <2> HIDE DEF h
  <2> QED
    BY <1>0, <1>1, <1>2, <2>1, <2>2, <2>3, <2>4, <2>5, StarterStep DEF Row
<1> QED
  BY <1>3, <1>4

\* NextRow keeps the claims it is given.
LEMMA NextRowStep ==
    ASSUME IInv, NEW a \in Starters, NEW claims \in SUBSET hand[a].runs,
           at[a] \in UnderMu, NextRow(a, claims), RowsKept,
           InFlight' \subseteq InFlight, hand[a].runs \cap InFlight' \subseteq claims,
           sched' \in [Waits -> WaitRows],
           UNCHANGED <<running, fireMu, lost, crashes>>
    PROVE  IInv'
<1>0. hand[a] \in Hands /\ HandFits(at[a], hand[a], runs, turns) /\ fireMu = a
  BY Starter
<1> DEFINE h == [Empty EXCEPT !.list = hand[a].list, !.runs = claims]
<1>1. h \in Hands /\ h.runs = claims
  BY <1>0, EmptyHand DEF Hands
<1>2. "row" \in StarterLabels /\ HandFits("row", h, runs', turns')
  BY <1>0, <1>1 DEF HandFits, StarterLabels, UnderMu, RowsKept
<1>3. Go(a, "row") /\ hand' = [hand EXCEPT ![a] = h]
  BY DEF NextRow
<1> HIDE DEF h
<1> QED
  BY <1>0, <1>1, <1>2, <1>3, StarterStep

\* NextFire too, and with none left the starter is done.
LEMMA NextFireStep ==
    ASSUME IInv, NEW a \in Starters, NEW claims \in SUBSET hand[a].runs,
           NextFire(a, claims), RowsKept,
           InFlight' \subseteq InFlight, hand[a].runs \cap InFlight' \subseteq claims,
           fireMu' = fireMu \/ (fireMu = a /\ fireMu' = Nil),
           UNCHANGED <<sched, running, lost, crashes>>
    PROVE  IInv'
<1>0. hand[a] \in Hands /\ HandFits(at[a], hand[a], runs, turns) /\ sched \in [Waits -> WaitRows]
  BY Starter
<1> DEFINE h == [Empty EXCEPT !.runs = claims]
           l == IF claims = {} THEN "idle" ELSE "start"
<1>1. h \in Hands /\ h.runs = claims
  BY <1>0, EmptyHand DEF Hands
<1>2. l \in StarterLabels /\ l \notin UnderMu /\ HandFits(l, h, runs', turns') /\ l # "insert"
  BY <1>0, <1>1 DEF HandFits, StarterLabels, UnderMu, RowsKept
<1>3. Go(a, l) /\ hand' = [hand EXCEPT ![a] = h]
  BY DEF NextFire
<1> HIDE DEF h, l
<1> QED
  BY <1>0, <1>1, <1>2, <1>3, StarterStep

LEMMA SkipStep == ASSUME IInv, NEW a \in Starters, Skip(a) PROVE IInv'
<1>0. /\ HandFits("skip", hand[a], runs, turns) /\ "skip" \in UnderMu /\ Len(runs) <= MaxRun
      /\ Len(runs) \in Nat /\ sched \in [Waits -> WaitRows]
  BY Starter DEF Skip, UnderMu, IInv, Shape, TypeOK
<1>1. RowsKept /\ InFlight' \subseteq InFlight
  <2>1. CASE runs' = runs
    BY <2>1, RowsUnchanged DEF Skip, IInv, InFlight
  <2>2. CASE runs' # runs
    <3> DEFINE x == [wait |-> hand[a].wait, status |-> "skipped", turn |-> Nil]
    <3>1. x \in RunRows /\ x.status = "skipped"
      BY <1>0 DEF HandFits, RunRows
    <3>2. runs' = Append(runs, x) /\ Len(runs) < MaxRun /\ turns' = turns
      BY <1>0, <2>2, BoundAssumption DEF Skip
    <3> HIDE DEF x
    <3>3. /\ RowsKept /\ DOMAIN runs' = DOMAIN runs \cup {Len(runs) + 1}
          /\ \A r \in DOMAIN runs : runs'[r] = runs[r]
          /\ runs'[Len(runs) + 1] = x
      BY <3>1, <3>2, RunAdded DEF IInv
    <3> QED
      BY <3>1, <3>3 DEF InFlight
  <2> QED
    BY <2>1, <2>2
<1> QED
  BY <1>0, <1>1, NextRowStep DEF Skip

LEMMA AdvanceStep == ASSUME IInv, NEW a \in Starters, Advance(a) PROVE IInv'
<1>0. /\ HandFits("advance", hand[a], runs, turns) /\ at[a] \in UnderMu /\ fireMu = a
      /\ sched \in [Waits -> WaitRows] /\ hand[a] \in Hands
  BY Starter DEF Advance, UnderMu
<1>1. RowsKept /\ InFlight' = InFlight
  BY RowsUnchanged DEF Advance, IInv, InFlight
<1>2. CASE hand[a].wait \in Active
  <2>1. sched' \in [Waits -> WaitRows]
    BY <1>0, <1>2 DEF Advance, WaitRows, Active
  <2> QED
    BY <1>0, <1>1, <1>2, <2>1, NextRowStep DEF Advance
<1>3. CASE hand[a].wait \notin Active
  <2>1. Go(a, "drop") /\ hand' = hand /\ "drop" \in StarterLabels
    BY <1>3 DEF Advance, StarterLabels, UnderMu
  <2>2. HandFits("drop", hand[a], runs', turns') /\ hand' = [hand EXCEPT ![a] = hand[a]]
    BY <1>0, <2>1 DEF Advance, HandFits, StarterLabels, UnderMu, IInv, Shape, TypeOK
  <2> QED
    BY <1>0, <1>1, <1>3, <2>1, <2>2, StarterStep DEF Advance
<1> QED
  BY <1>2, <1>3

LEMMA DropStep == ASSUME IInv, NEW a \in Starters, Drop(a) PROVE IInv'
<1>0. /\ HandFits("drop", hand[a], runs, turns) /\ at[a] \in UnderMu
      /\ sched \in [Waits -> WaitRows]
  BY Starter DEF Drop, UnderMu
<1>1. RowsKept /\ InFlight' = InFlight \ {hand[a].run}
  BY <1>0, FinishedRun DEF Drop, HandFits, IInv
<1> QED
  BY <1>0, <1>1, NextRowStep DEF Drop

LEMMA UnlockStep == ASSUME IInv, NEW a \in Starters, Unlock(a) PROVE IInv'
<1>0. at[a] \in UnderMu /\ fireMu = a
  BY Starter DEF Unlock, UnderMu
<1>1. RowsKept /\ InFlight' = InFlight
  BY RowsUnchanged DEF Unlock, IInv, InFlight
<1> QED
  BY <1>0, <1>1, NextFireStep DEF Unlock

\* CreateRun: the new fire is its claimer's, and the only one of its wait.
LEMMA InsertStep == ASSUME IInv, NEW a \in Starters, Insert(a) PROVE IInv'
<1>0. /\ a \in Actors /\ HandFits("insert", hand[a], runs, turns) /\ at[a] \in UnderMu /\ fireMu = a
      /\ sched \in [Waits -> WaitRows] /\ hand[a] \in Hands /\ Len(runs) \in Nat /\ Len(runs) <= MaxRun
      /\ ~Claimed(hand[a].wait)
  BY Starter DEF Insert, UnderMu, IInv, Shape, TypeOK, FreshClaim
<1>1. CASE Len(runs) = MaxRun
  BY <1>0, <1>1, RowsUnchanged, NextRowStep DEF Insert, IInv, InFlight
<1>2. CASE Len(runs) # MaxRun
  <2> DEFINE x == [wait |-> hand[a].wait, status |-> "running", turn |-> Nil]
             r == Len(runs) + 1
             h == [hand[a] EXCEPT !.run = r, !.runs = @ \cup {r}]
  <2>1. x \in RunRows /\ x.wait = hand[a].wait /\ x.status = "running"
    BY <1>0 DEF HandFits, RunRows
  <2>2. /\ runs' = Append(runs, x) /\ Go(a, "advance") /\ hand' = [hand EXCEPT ![a] = h]
        /\ UNCHANGED <<sched, turns, running, fireMu, lost, crashes>>
    BY <1>2 DEF Insert
  <2>3. Len(runs) < MaxRun
    BY <1>0, <1>2, BoundAssumption
  <2> HIDE DEF x
  <2>4. /\ RowsKept /\ DOMAIN runs' = DOMAIN runs \cup {r}
        /\ \A s \in DOMAIN runs : runs'[s] = runs[s]
        /\ runs'[r] = x /\ r \in 1..MaxRun /\ r \notin DOMAIN runs
    BY <2>1, <2>2, <2>3, RunAdded DEF IInv
  <2>5. h \in Hands /\ h.runs = hand[a].runs \cup {r} /\ h.run = r /\ h.wait = hand[a].wait
    BY <1>0, <2>4 DEF Hands
  <2>6. "advance" \in StarterLabels /\ HandFits("advance", h, runs', turns')
    BY <1>0, <2>4, <2>5 DEF HandFits, StarterLabels, UnderMu
  <2> HIDE DEF r, h
  <2>7. /\ Shape' /\ at'[a] = "advance" /\ hand'[a] = h
        /\ \A b \in Actors : b # a => at'[b] = at[b] /\ hand'[b] = hand[b]
    <3>1. /\ sched' \in [Waits -> WaitRows] /\ running' = running /\ fireMu' = fireMu
          /\ fireMu' = a /\ UNCHANGED <<lost, crashes>> /\ Shape
          /\ Go(a, "advance") /\ hand' = [hand EXCEPT ![a] = h] /\ RowsKept
      BY <1>0, <2>2, <2>4 DEF IInv
    <3> QED
      BY <2>5, <2>6, <3>1, StarterShape
  <2>8. Starters \subseteq Actors /\ Starters \cap Nat = {} /\ DOMAIN turns \subseteq Actors \cap Nat
    BY ActorAssumption, BoundAssumption DEF Actors, Starters, IInv, Shape, TypeOK
  <2>9. InFlight' = InFlight \cup {r} /\ \A s \in InFlight : runs'[s] = runs[s]
    BY <2>1, <2>4 DEF InFlight
  <2>10. FreshClaim'
    <3>1. \A b \in Starters : at[b] = "insert" => b = a
      BY <1>0 DEF IInv, Shape, MuHeld, UnderMu
    <3> QED
      BY <2>7, <2>8, <3>1 DEF FreshClaim
  <2>11. OneFirePerWait'
    <3>1. \A s \in InFlight : runs[s].wait # hand[a].wait
      BY <1>0 DEF Claimed
    <3> QED
      BY <2>1, <2>4, <2>9, <3>1 DEF IInv, OneFirePerWait
  <2>12. ClaimOwned'
    <3> SUFFICES ASSUME NEW s \in InFlight', s \notin lost' PROVE Owned(s)'
      BY DEF ClaimOwned
    <3>1. CASE s = r
      BY <2>5, <2>7, <3>1 DEF Owned
    <3>2. CASE s # r
      <4>1. Owned(s)
        BY <2>2, <2>9, <3>2 DEF IInv, ClaimOwned
      <4>2. CASE \E b \in Starters : s \in hand[b].runs
        BY <2>5, <2>7, <2>8, <4>2 DEF Owned
      <4>3. CASE \E t \in DOMAIN turns : turns[t].run = s /\ Alive(t)
        BY <2>2, <2>7, <2>8, <4>3 DEF Owned, Alive
      <4> QED
        BY <4>1, <4>2, <4>3 DEF Owned
    <3> QED
      BY <3>1, <3>2
  <2> QED
    BY <2>7, <2>10, <2>11, <2>12 DEF IInv
<1> QED
  BY <1>1, <1>2

-----------------------------------------------------------------------------
\* Starting.

\* The starter keeps its claims, takes a new label and changes no row's wait.
LEMMA StartingStep ==
    ASSUME IInv, NEW a \in Starters, NEW l \in StarterLabels \ UnderMu, NEW h \in Hands,
           Go(a, l), hand' = [hand EXCEPT ![a] = h], RowsKept, HandFits(l, h, runs', turns'),
           hand[a].runs \cap InFlight' \subseteq h.runs, InFlight' \subseteq InFlight,
           UNCHANGED <<sched, running, fireMu, lost, crashes>>
    PROVE  IInv'
<1>1. l # "insert" /\ sched \in [Waits -> WaitRows]
  BY Starter DEF UnderMu
<1> QED
  BY <1>1, StarterStep

LEMMA StarterLabelsFree ==
    {"idle", "start", "create", "bind", "claim", "refuse", "unrun", "finish"} = StarterLabels \ UnderMu
BY DEF StarterLabels, UnderMu

LEMMA StartNextStep ==
    ASSUME IInv, NEW a \in Starters, NEW r \in DOMAIN runs, StartNext(a, r) PROVE IInv'
<1>0. /\ a \in Actors /\ hand[a] \in Hands /\ HandFits("start", hand[a], runs, turns)
      /\ r \in hand[a].runs /\ hand \in [Actors -> Hands]
  BY Starter DEF StartNext, IInv, Shape, TypeOK
<1>1. ThreadOf[runs[r].wait] \in Threads \cup {Nil} /\ r \in 1..MaxRun
  <2>1. runs[r] \in RunRows
    BY ElementOfSeq DEF IInv, Shape, TypeOK
  <2>2. runs[r].wait \in Waits
    BY <2>1 DEF RunRows
  <2> QED
    BY <1>0, <2>2, ThreadAssumption DEF Hands
<1>2. PICK why \in {"ended", "skipped"}, l \in {"finish", "create"} :
           /\ Go(a, l)
           /\ hand' = [hand EXCEPT ![a].run = r, ![a].thread = ThreadOf[runs[r].wait], ![a].why = why]
  BY DEF StartNext
<1> DEFINE h == [hand[a] EXCEPT !.run = r, !.thread = ThreadOf[runs[r].wait], !.why = why]
<1>3. h \in Hands /\ h.runs = hand[a].runs /\ h.run = r
  BY <1>0, <1>1 DEF Hands
<1>4. hand' = [hand EXCEPT ![a] = h]
  BY <1>0, <1>2
<1>5. HandFits(l, h, runs', turns')
  BY <1>0, <1>3, StarterLabelsFree DEF StartNext, HandFits
<1>6. RowsKept /\ InFlight' = InFlight
  BY RowsUnchanged DEF StartNext, IInv, InFlight
<1> HIDE DEF h
<1> QED
  BY <1>2, <1>3, <1>4, <1>5, <1>6, StarterLabelsFree, StartingStep DEF StartNext

LEMMA SendStep == ASSUME IInv, NEW c \in Clients, NEW th \in Threads, Send(c, th) PROVE IInv'
<1>0. c \in Starters /\ hand[c].runs = {}
  BY Starter DEF Send, Starters, HandFits
<1> DEFINE h == [Empty EXCEPT !.thread = th]
<1>1. h \in Hands /\ h.runs = {} /\ h.run = Nil /\ hand' = [hand EXCEPT ![c] = h]
  BY EmptyHand DEF Send, Hands, Empty
<1>2. HandFits("create", h, runs', turns')
  BY <1>1, StarterLabelsFree DEF HandFits
<1>3. RowsKept /\ InFlight' = InFlight
  BY RowsUnchanged DEF Send, IInv, InFlight
<1> HIDE DEF h
<1> QED
  BY <1>0, <1>1, <1>2, <1>3, StarterLabelsFree, StartingStep DEF Send

\* Only the label changes.
LEMMA OnlyGoes ==
    ASSUME IInv, NEW a \in Starters, NEW l \in StarterLabels \ UnderMu, Go(a, l), hand' = hand,
           RowsKept, HandFits(l, hand[a], runs', turns'), InFlight' \subseteq InFlight,
           UNCHANGED <<sched, running, fireMu, lost, crashes>>
    PROVE  IInv'
<1>1. hand[a] \in Hands /\ hand' = [hand EXCEPT ![a] = hand[a]]
  BY Starter DEF IInv, Shape, TypeOK
<1> QED
  BY <1>1, StartingStep

LEMMA StartFailStep == ASSUME IInv, NEW a \in Starters, StartFail(a) PROVE IInv'
<1>0. HandFits("create", hand[a], runs, turns)
  BY Starter DEF StartFail
<1>1. RowsKept /\ InFlight' = InFlight
  BY RowsUnchanged DEF StartFail, IInv, InFlight
<1>2. CASE hand[a].run = Nil
  <2>1. hand[a].runs = {}
    BY <1>0, <1>2, NilAssumption DEF HandFits, IInv, Shape, TypeOK
  <2> QED
    BY <1>1, <1>2, <2>1, NextFireStep DEF StartFail, Return
<1>3. CASE hand[a].run # Nil
  <2>1. HandFits("finish", hand[a], runs', turns')
    BY <1>0, <1>3, StarterLabelsFree DEF StartFail, HandFits
  <2> QED
    BY <1>1, <1>3, <2>1, StarterLabelsFree, OnlyGoes DEF StartFail
<1> QED
  BY <1>2, <1>3

LEMMA StartCreateStep == ASSUME IInv, NEW a \in Starters, StartCreate(a) PROVE IInv'
<1>0. /\ a \in Actors /\ hand[a] \in Hands /\ HandFits("create", hand[a], runs, turns)
      /\ hand \in [Actors -> Hands]
  BY Starter DEF StartCreate, IInv, Shape, TypeOK
<1> DEFINE x == [run |-> hand[a].run, thread |-> hand[a].thread, status |-> "running", told |-> FALSE]
           n == Len(turns) + 1
           h == [hand[a] EXCEPT !.turn = n]
<1>1. x \in TurnRows /\ x.run = hand[a].run
  BY <1>0 DEF TurnRows, Hands
<1>2. turns' = Append(turns, x) /\ runs' = runs /\ hand' = [hand EXCEPT ![a] = h]
  BY <1>0 DEF StartCreate
<1>3. x.run \in DOMAIN runs \cup {Nil}
  BY <1>0, <1>1 DEF HandFits
<1> HIDE DEF x
<1>4. RowsKept /\ n \in DOMAIN turns' /\ turns'[n].run = x.run /\ n \in 1..MaxTurn
  BY <1>1, <1>2, <1>3, TurnAdded DEF IInv, StartCreate
<1>5. h \in Hands /\ h.runs = hand[a].runs /\ h.run = hand[a].run /\ h.turn = n
  BY <1>0, <1>4 DEF Hands
<1>6. PICK l \in {"claim", "bind"} : Go(a, l) /\ (l = "bind" <=> hand[a].run # Nil)
  BY DEF StartCreate
<1>7. HandFits(l, h, runs', turns')
  BY <1>0, <1>1, <1>2, <1>4, <1>5, <1>6, StarterLabelsFree DEF HandFits
<1>8. InFlight' = InFlight
  BY <1>2 DEF InFlight
<1> HIDE DEF h, n
<1> QED
  BY <1>2, <1>4, <1>5, <1>6, <1>7, <1>8, StarterLabelsFree, StartingStep DEF StartCreate

LEMMA BindStep == ASSUME IInv, NEW a \in Starters, Bind(a) PROVE IInv'
<1>0. /\ hand[a] \in Hands /\ HandFits("bind", hand[a], runs, turns)
      /\ runs \in Seq(RunRows) /\ turns \in Seq(TurnRows) /\ Len(turns) <= MaxTurn /\ Len(turns) \in Nat
  BY Starter DEF Bind, IInv, Shape, TypeOK
<1> DEFINE r == hand[a].run
           x == [runs[r] EXCEPT !.turn = hand[a].turn]
<1>1. r \in DOMAIN runs /\ r \in hand[a].runs /\ hand[a].turn \in 1..MaxTurn
  <2>1. r \in DOMAIN runs /\ r \in hand[a].runs /\ hand[a].turn \in DOMAIN turns
    BY <1>0 DEF HandFits, Bind, InFlight
  <2> QED
    BY <1>0, <2>1, BoundAssumption
<1>2. runs[r] \in RunRows
  BY <1>0, <1>1, ElementOfSeq
<1>3. x \in RunRows /\ x.wait = runs[r].wait /\ x.status = runs[r].status
  BY <1>1, <1>2 DEF RunRows
<1>4. runs' = [runs EXCEPT ![r] = x] /\ turns' = turns
  BY DEF Bind
<1> HIDE DEF x
<1>5. RowsKept /\ DOMAIN runs' = DOMAIN runs
  BY <1>1, <1>3, <1>4, RunUpdated DEF IInv
<1>6. InFlight' = InFlight
  BY <1>3, <1>4, <1>5 DEF InFlight
<1>7. HandFits("claim", hand[a], runs', turns')
  BY <1>0, <1>1, <1>4, <1>5, StarterLabelsFree DEF HandFits
<1> QED
  BY <1>5, <1>6, <1>7, StarterLabelsFree, OnlyGoes DEF Bind

\* claimRegistry: the fire passes from the starter to the turn it starts.
LEMMA ClaimStep == ASSUME IInv, NEW a \in Starters, Claim(a) PROVE IInv'
<1> DEFINE t == hand[a].turn
           rest == hand[a].runs \ {hand[a].run}
           h == [Empty EXCEPT !.runs = rest]
           l == IF rest = {} THEN "idle" ELSE "start"
<1>0. /\ a \in Actors /\ a \notin Nat /\ hand[a] \in Hands /\ HandFits("claim", hand[a], runs, turns)
      /\ at \in [Actors -> StarterLabels \cup TurnLabels] /\ hand \in [Actors -> Hands]
      /\ Len(turns) \in Nat /\ Len(turns) <= MaxTurn /\ DOMAIN turns = 1..Len(turns)
  BY Starter DEF Claim, IInv, Shape, TypeOK
<1>1. /\ t \in DOMAIN turns /\ turns[t].run = hand[a].run /\ hand[a].runs \subseteq DOMAIN runs
  BY <1>0 DEF HandFits
<1>2. t \in 1..MaxTurn /\ t \in Actors /\ t # a
  BY <1>0, <1>1, BoundAssumption DEF Actors
<1>3. h \in Hands /\ h.runs = rest
  BY <1>0, EmptyHand DEF Hands
<1>4. /\ at' = [at EXCEPT ![a] = l, ![t] = "run"] /\ hand' = [hand EXCEPT ![a] = h]
      /\ UNCHANGED <<sched, runs, turns, fireMu, lost, crashes>>
  BY DEF Claim
<1>5. HandFits(l, h, runs, turns) /\ l \in StarterLabels /\ l \in {"idle", "start"}
  BY <1>1, <1>3, StarterLabelsFree DEF HandFits
<1> HIDE DEF h, l
<1>6. /\ at' \in [Actors -> StarterLabels \cup TurnLabels] /\ hand' \in [Actors -> Hands]
      /\ at'[a] = l /\ at'[t] = "run" /\ hand'[a] = h
      /\ \A b \in Actors : b # a /\ b # t => at'[b] = at[b]
      /\ \A b \in Actors : b # a => hand'[b] = hand[b]
  BY <1>0, <1>2, <1>3, <1>4, <1>5 DEF TurnLabels
<1>7. RowsKept /\ InFlight' = InFlight
  BY <1>4, RowsUnchanged DEF IInv, InFlight
<1>8. Starters \subseteq Actors /\ Starters \cap Nat = {} /\ DOMAIN turns \subseteq Actors \cap Nat
      /\ 1..MaxTurn \subseteq Actors
  BY <1>0, ActorAssumption, BoundAssumption DEF Actors, Starters
<1>9. Shape'
  <2>1. running' \in [Threads -> (1..MaxTurn) \cup {Nil}]
    BY <1>2 DEF Claim, Occupy, IInv, Shape, TypeOK
  <2>2. TypeOK'
    BY <1>4, <1>6, <2>1 DEF IInv, Shape, TypeOK
  <2>3. HandsSound'
    <3> SUFFICES ASSUME NEW b \in Starters PROVE HandFits(at'[b], hand'[b], runs', turns')
      BY DEF HandsSound
    <3>1. CASE b = a
      BY <1>4, <1>5, <1>6, <3>1
    <3>2. CASE b # a
      BY <1>1, <1>4, <1>6, <1>8, <3>2 DEF IInv, Shape, HandsSound
    <3> QED
      BY <3>1, <3>2
  <2>4. TurnsSound'
    BY <1>1, <1>4, <1>6, <1>8 DEF IInv, Shape, TurnsSound, TurnLabels
  <2>5. MuHeld'
    BY <1>1, <1>4, <1>5, <1>6, <1>8 DEF IInv, Shape, MuHeld, UnderMu
  <2> QED
    BY <2>2, <2>3, <2>4, <2>5 DEF Shape
<1>10. FreshClaim' /\ OneFirePerWait'
  <2>1. \A b \in Starters : at'[b] = "insert" => ~Claimed(hand'[b].wait)
    BY <1>1, <1>5, <1>6, <1>8 DEF IInv, FreshClaim
  <2> QED
    BY <1>7, <2>1, NoNewFire
<1>11. ClaimOwned'
  <2>1. \A u \in DOMAIN turns : Alive(u) => Alive(u)'
    BY <1>6, <1>8 DEF Alive
  <2>2. ASSUME NEW r \in InFlight', NEW b \in Starters, r \in hand[b].runs PROVE Owned(r)'
    <3>1. CASE b # a
      BY <1>6, <1>8, <2>2, <3>1 DEF Owned
    <3>2. CASE b = a /\ r # hand[a].run
      BY <1>3, <1>6, <2>2, <3>2 DEF Owned
    <3>3. CASE b = a /\ r = hand[a].run
      BY <1>1, <1>4, <1>6, <3>3 DEF Owned, Alive
    <3> QED
      BY <3>1, <3>2, <3>3
  <2> QED
    BY <1>4, <1>7, <2>1, <2>2, OwnersKept
<1> QED
  BY <1>9, <1>10, <1>11 DEF IInv

LEMMA ClaimFailStep == ASSUME IInv, NEW a \in Starters, ClaimFail(a) PROVE IInv'
<1>0. hand[a] \in Hands /\ HandFits("claim", hand[a], runs, turns) /\ hand \in [Actors -> Hands]
  BY Starter DEF ClaimFail, IInv, Shape, TypeOK
<1>1. PICK why \in {"ended", "skipped"} : hand' = [hand EXCEPT ![a].why = why]
  BY DEF ClaimFail
<1> DEFINE h == [hand[a] EXCEPT !.why = why]
<1>2. /\ h \in Hands /\ h.runs = hand[a].runs /\ h.run = hand[a].run /\ h.turn = hand[a].turn
      /\ hand' = [hand EXCEPT ![a] = h]
  BY <1>0, <1>1 DEF Hands
<1>3. HandFits("refuse", h, runs', turns')
  BY <1>0, <1>2, StarterLabelsFree DEF ClaimFail, HandFits
<1>4. RowsKept /\ InFlight' = InFlight
  BY RowsUnchanged DEF ClaimFail, IInv, InFlight
<1> HIDE DEF h
<1> QED
  BY <1>2, <1>3, <1>4, StarterLabelsFree, StartingStep DEF ClaimFail

LEMMA RefuseStep == ASSUME IInv, NEW a \in Starters, Refuse(a) PROVE IInv'
<1>0. hand[a] \in Hands /\ HandFits("refuse", hand[a], runs, turns) /\ hand \in [Actors -> Hands]
      /\ turns \in Seq(TurnRows) /\ Nil \notin DOMAIN runs
  BY Starter, NilAssumption DEF Refuse, IInv, Shape, TypeOK
<1> DEFINE t == hand[a].turn
           x == [turns[t] EXCEPT !.status = "ended"]
<1>1. t \in DOMAIN turns /\ turns[t] \in TurnRows
  BY <1>0, ElementOfSeq DEF HandFits
<1>2. x \in TurnRows /\ x.run = turns[t].run
  BY <1>1 DEF TurnRows
<1>3. turns' = [turns EXCEPT ![t] = x] /\ runs' = runs
  BY DEF Refuse
<1> HIDE DEF x
<1>4. RowsKept /\ InFlight' = InFlight
  BY <1>1, <1>2, <1>3, TurnUpdated DEF IInv, InFlight
<1>5. CASE hand[a].run = Nil
  <2>1. hand[a].runs = {}
    BY <1>0, <1>5 DEF HandFits
  <2> QED
    BY <1>4, <1>5, <2>1, NextFireStep DEF Refuse, Return
<1>6. CASE hand[a].run # Nil
  <2> DEFINE h == [hand[a] EXCEPT !.turn = Nil]
  <2>1. /\ h \in Hands /\ h.runs = hand[a].runs /\ h.run = hand[a].run
        /\ hand' = [hand EXCEPT ![a] = h] /\ Go(a, "unrun")
    BY <1>0, <1>6 DEF Hands, Refuse
  <2>2. HandFits("unrun", h, runs', turns')
    BY <1>0, <1>3, <1>6, <2>1, StarterLabelsFree DEF HandFits
  <2> HIDE DEF h
  <2> QED
    BY <1>4, <2>1, <2>2, StarterLabelsFree, StartingStep DEF Refuse
<1> QED
  BY <1>5, <1>6

LEMMA UnrunStep == ASSUME IInv, NEW a \in Starters, Unrun(a) PROVE IInv'
<1>0. HandFits("unrun", hand[a], runs, turns)
  BY Starter DEF Unrun
<1>1. RowsKept /\ InFlight' \subseteq InFlight
  BY <1>0, FinishedScheduled DEF Unrun, HandFits, IInv
<1>2. HandFits("finish", hand[a], runs', turns')
  BY <1>0, <1>1, StarterLabelsFree DEF HandFits, RowsKept
<1> QED
  BY <1>1, <1>2, StarterLabelsFree, OnlyGoes DEF Unrun

LEMMA FinishStartStep == ASSUME IInv, NEW a \in Starters, FinishStart(a) PROVE IInv'
<1>0. HandFits("finish", hand[a], runs, turns) /\ hand[a].why \in {"skipped", "ended"}
  BY Starter DEF FinishStart, Hands
<1>1. RowsKept /\ InFlight' = InFlight \ {hand[a].run}
  BY <1>0, FinishedRun DEF FinishStart, HandFits, IInv
<1> QED
  BY <1>1, NextFireStep DEF FinishStart

-----------------------------------------------------------------------------
\* The end of a turn.

LEMMA TurnStep ==
    ASSUME IInv, NEW t \in 1..MaxTurn, NEW l \in TurnLabels, at[t] # "idle", Go(t, l), hand' = hand, RowsKept,
           l \in {"pause", "close"} => turns'[t].run # Nil,
           running' \in [Threads -> (1..MaxTurn) \cup {Nil}],
           sched' \in [Waits -> WaitRows],
           InFlight' \subseteq InFlight,
           l = "idle" => turns[t].run \notin InFlight',
           UNCHANGED <<fireMu, lost, crashes>>
    PROVE  IInv'
<1>0. /\ t \in Actors /\ Starters \subseteq Actors /\ Starters \cap Nat = {} /\ t \in Nat
      /\ DOMAIN turns \subseteq Actors \cap Nat /\ 1..MaxTurn \subseteq Actors
      /\ at \in [Actors -> StarterLabels \cup TurnLabels] /\ t \in DOMAIN turns
  <2>1. at \in [Actors -> StarterLabels \cup TurnLabels] /\ t \in DOMAIN turns
    BY DEF IInv, Shape, TypeOK, TurnsSound
  <2>2. DOMAIN turns \subseteq 1..MaxTurn
    BY BoundAssumption DEF IInv, Shape, TypeOK
  <2> QED
    BY <2>1, <2>2, ActorAssumption, BoundAssumption DEF Actors, Starters
<1>1. /\ at' \in [Actors -> StarterLabels \cup TurnLabels]
      /\ at'[t] = l
      /\ \A b \in Actors : b # t => at'[b] = at[b]
  BY <1>0 DEF Go
<1>2. TypeOK'
  BY <1>1 DEF IInv, Shape, TypeOK, RowsKept
<1>3. HandsSound'
  <2> SUFFICES ASSUME NEW b \in Starters PROVE HandFits(at'[b], hand'[b], runs', turns')
    BY DEF HandsSound
  <2>1. HandFits(at[b], hand[b], runs, turns) /\ at'[b] = at[b]
    BY <1>0, <1>1 DEF IInv, Shape, HandsSound
  <2> QED
    BY <2>1 DEF HandFits, RowsKept
<1>4. TurnsSound'
  BY <1>0, <1>1 DEF IInv, Shape, TurnsSound, RowsKept
<1>5. MuHeld'
  BY <1>0, <1>1 DEF IInv, Shape, MuHeld
<1>6. FreshClaim' /\ OneFirePerWait'
  <2>1. \A b \in Starters : at'[b] = "insert" => ~Claimed(hand'[b].wait)
    BY <1>0, <1>1 DEF IInv, FreshClaim
  <2> QED
    BY <2>1, NoNewFire
<1>7. ClaimOwned'
  <2>1. \A r \in InFlight', b \in Starters : r \in hand[b].runs => Owned(r)'
    BY DEF Owned
  <2>2. \A u \in DOMAIN turns : turns[u].run \in InFlight' /\ Alive(u) => Alive(u)'
    BY <1>0, <1>1 DEF Alive, TurnLabels
  <2> QED
    BY <2>1, <2>2, OwnersKept
<1> QED
  BY <1>2, <1>3, <1>4, <1>5, <1>6, <1>7 DEF IInv, Shape

LEMMA TurnFacts ==
    ASSUME IInv, NEW t \in 1..MaxTurn, at[t] # "idle"
    PROVE  /\ t \in DOMAIN turns /\ turns[t] \in TurnRows
           /\ turns[t].run \in DOMAIN runs \cup {Nil}
           /\ at[t] \in {"pause", "close"} => turns[t].run \in DOMAIN runs
           /\ sched \in [Waits -> WaitRows] /\ running \in [Threads -> (1..MaxTurn) \cup {Nil}]
           /\ \A r \in DOMAIN runs : runs[r].wait \in Waits
           /\ Nil \notin DOMAIN runs
<1>1. t \in DOMAIN turns /\ turns \in Seq(TurnRows) /\ runs \in Seq(RunRows)
  BY DEF IInv, Shape, TypeOK, TurnsSound
<1>2. turns[t] \in TurnRows /\ \A r \in DOMAIN runs : runs[r] \in RunRows
  BY <1>1, ElementOfSeq
<1>3. Nil \notin DOMAIN runs
  BY <1>1, NilAssumption
<1> QED
  BY <1>1, <1>2, <1>3 DEF IInv, Shape, TypeOK, TurnsSound, RunRows

LEMMA TurnSteps ==
    ASSUME IInv, NEW t \in 1..MaxTurn, Conclude(t) \/ Ending(t)
    PROVE  IInv'
<1>1. CASE Conclude(t)
  <2>1. PICK l \in {"release", "pause"} : Go(t, l) /\ (l = "pause" => turns[t].run # Nil)
    BY <1>1 DEF Conclude
  <2>2. RowsKept /\ InFlight' = InFlight
    BY <1>1, RowsUnchanged DEF Conclude, IInv, InFlight
  <2> QED
    BY <1>1, <2>1, <2>2, TurnFacts, TurnStep DEF Conclude, TurnLabels
<1>2. CASE AutoPause(t)
  <2>1. turns[t].run \in DOMAIN runs /\ runs[turns[t].run].wait \in Waits /\ at[t] # "idle"
    BY <1>2, TurnFacts DEF AutoPause
  <2>2. sched' \in [Waits -> WaitRows] /\ running \in [Threads -> (1..MaxTurn) \cup {Nil}]
    BY <1>2, <2>1, TurnFacts DEF AutoPause, WaitRows
  <2>3. RowsKept /\ InFlight' = InFlight
    BY <1>2, RowsUnchanged DEF AutoPause, IInv, InFlight
  <2> QED
    BY <1>2, <2>1, <2>2, <2>3, TurnStep DEF AutoPause, TurnLabels
<1>3. CASE Release(t)
  <2>1. t \in DOMAIN turns /\ turns[t] \in TurnRows /\ running \in [Threads -> (1..MaxTurn) \cup {Nil}]
    BY <1>3, TurnFacts DEF Release
  <2> DEFINE x == [turns[t] EXCEPT !.told = TRUE]
  <2>2. x \in TurnRows /\ x.run = turns[t].run /\ turns' = [turns EXCEPT ![t] = x] /\ runs' = runs
    BY <1>3, <2>1 DEF Release, TurnRows
  <2> HIDE DEF x
  <2>3. RowsKept /\ InFlight' = InFlight
    BY <2>1, <2>2, TurnUpdated DEF IInv, InFlight
  <2>4. running' \in [Threads -> (1..MaxTurn) \cup {Nil}]
    BY <1>3, <2>1 DEF Release, Occupy
  <2> QED
    BY <1>3, <2>3, <2>4, TurnFacts, TurnStep DEF Release, TurnLabels
<1>4. CASE FinishTurn(t)
  <2>1. t \in DOMAIN turns /\ turns[t] \in TurnRows
    BY <1>4, TurnFacts DEF FinishTurn
  <2> DEFINE x == [turns[t] EXCEPT !.status = "ended"]
  <2>2. x \in TurnRows /\ x.run = turns[t].run /\ turns' = [turns EXCEPT ![t] = x] /\ runs' = runs
    BY <1>4, <2>1 DEF FinishTurn, TurnRows
  <2>3. PICK l \in {"idle", "close"} : Go(t, l) /\ (l = "idle" <=> turns[t].run = Nil)
    BY <1>4 DEF FinishTurn
  <2> HIDE DEF x
  <2>4. RowsKept /\ InFlight' = InFlight
    BY <2>1, <2>2, TurnUpdated DEF IInv, InFlight
  <2>5. turns'[t].run = turns[t].run
    BY <2>1, <2>4 DEF RowsKept
  <2>6. l = "idle" => turns[t].run \notin InFlight'
    BY <1>4, <2>3, <2>4, TurnFacts DEF InFlight, FinishTurn
  <2> QED
    BY <1>4, <2>3, <2>4, <2>5, <2>6, TurnFacts, TurnStep DEF FinishTurn, TurnLabels
<1>5. CASE CloseRun(t)
  <2>1. turns[t].run \in DOMAIN runs
    BY <1>5, TurnFacts DEF CloseRun
  <2>2. RowsKept /\ InFlight' = InFlight \ {turns[t].run}
    BY <1>5, <2>1, FinishedScheduled DEF CloseRun, IInv
  <2> QED
    BY <1>5, <2>2, TurnFacts, TurnStep DEF CloseRun, TurnLabels
<1> QED
  BY <1>1, <1>2, <1>3, <1>4, <1>5 DEF Ending

LEMMA EditSteps ==
    ASSUME IInv, (\E w \in Waits : Edit(w)) \/ (\E t \in 1..MaxTurn : Report(t))
    PROVE  IInv'
<1>1. sched \in [Waits -> WaitRows] /\ \A w \in Waits : (w \in OneShots) \in BOOLEAN
  BY DEF IInv, Shape, TypeOK
<1>2. ASSUME NEW w \in Waits, NEW x \in WaitRows, Set(w, x) PROVE IInv'
  BY <1>1, <1>2, EditStep DEF Set
<1>3. ASSUME NEW w \in Waits, NEW status \in {"active", "paused", "cancelled"},
             Set(w, [sched[w] EXCEPT !.status = status])
      PROVE  IInv'
  <2>1. [sched[w] EXCEPT !.status = status] \in WaitRows
    BY <1>1 DEF WaitRows
  <2> QED
    BY <1>2, <1>3, <2>1
<1>4. ASSUME NEW w \in Waits, Edit(w) PROVE IInv'
  <2>1. CASE Create(w)
    <3>1. [status |-> "active", once |-> w \in OneShots] \in WaitRows
      BY <1>1 DEF WaitRows
    <3> QED
      BY <1>2, <2>1, <3>1 DEF Create
  <2> QED
    BY <1>3, <1>4, <2>1 DEF Edit, HumanCancel, Pause, Resume
<1>5. ASSUME NEW t \in 1..MaxTurn, Report(t) PROVE IInv'
  <2>1. CASE turns[t].run # Nil /\ Rearm(runs[turns[t].run].wait)
    <3> DEFINE w == runs[turns[t].run].wait
               x == [sched[w] EXCEPT !.status = "active", !.once = FALSE]
    <3>1. w \in Waits
      BY <1>5, <2>1, TurnFacts DEF Report
    <3>2. x \in WaitRows
      BY <1>1, <3>1 DEF WaitRows
    <3>3. Set(w, x)
      BY <2>1 DEF Rearm
    <3> HIDE DEF w, x
    <3> QED
      BY <1>2, <3>1, <3>2, <3>3
  <2> QED
    BY <1>3, <1>5, <2>1 DEF Report, ManagerCancel
<1> QED
  BY <1>4, <1>5

-----------------------------------------------------------------------------
\* The process dies.

LEMMA SameLength ==
    ASSUME NEW S, NEW s \in Seq(S), NEW f \in [DOMAIN s -> S]
    PROVE  f \in Seq(S) /\ Len(f) = Len(s) /\ DOMAIN f = DOMAIN s
<1>1. Len(s) \in Nat /\ DOMAIN s = 1..Len(s)
  BY LenProperties
<1>2. f \in Seq(S)
  BY <1>1, SeqDef
<1> QED
  BY <1>1, <1>2, LenProperties

LEMMA CrashRows ==
    ASSUME IInv, Crash
    PROVE  RowsKept /\ DOMAIN runs' = DOMAIN runs /\ DOMAIN turns' = DOMAIN turns
<1>1. runs \in Seq(RunRows) /\ turns \in Seq(TurnRows)
  BY DEF IInv, Shape, TypeOK
<1>2. /\ \A r \in DOMAIN runs : runs[r] \in RunRows
      /\ \A t \in DOMAIN turns : turns[t] \in TurnRows
  BY <1>1, ElementOfSeq
<1>3. /\ runs' \in [DOMAIN runs -> RunRows]
      /\ \A r \in DOMAIN runs : runs'[r].wait = runs[r].wait
  BY <1>2 DEF Crash, RunRows
<1>4. /\ turns' \in [DOMAIN turns -> TurnRows]
      /\ \A t \in DOMAIN turns : turns'[t].run = turns[t].run
  BY <1>2 DEF Crash, TurnRows
<1>5. /\ runs' \in Seq(RunRows) /\ Len(runs') = Len(runs) /\ DOMAIN runs' = DOMAIN runs
      /\ turns' \in Seq(TurnRows) /\ Len(turns') = Len(turns) /\ DOMAIN turns' = DOMAIN turns
  BY <1>1, <1>3, <1>4, SameLength
<1> QED
  BY <1>3, <1>4, <1>5 DEF RowsKept, IInv, Shape, TypeOK, TurnsSound

LEMMA CrashStep == ASSUME IInv, Crash PROVE IInv'
<1>0. /\ runs \in Seq(RunRows) /\ turns \in Seq(TurnRows)
      /\ DOMAIN turns = 1..Len(turns) /\ Len(turns) \in Nat /\ DOMAIN turns \subseteq 1..MaxTurn
      /\ DOMAIN turns \subseteq Actors /\ Starters \subseteq Actors
      /\ Starters \cap DOMAIN turns = {} /\ 1..MaxTurn \subseteq Actors /\ 1..MaxTurn \subseteq Nat
      /\ DOMAIN runs \subseteq 1..MaxRun
  BY BoundAssumption, ActorAssumption DEF IInv, Shape, TypeOK, Actors, Starters
<1>1. /\ \A r \in DOMAIN runs : runs[r] \in RunRows
      /\ \A t \in DOMAIN turns : turns[t] \in TurnRows
  BY <1>0, ElementOfSeq
<1>2. RowsKept /\ DOMAIN runs' = DOMAIN runs /\ DOMAIN turns' = DOMAIN turns
  BY CrashRows
<1>3. InFlight' = InFlight \ ClosedFires
  <2>1. \A r \in DOMAIN runs : runs'[r].status = IF r \in ClosedFires THEN "ended" ELSE runs[r].status
    BY <1>1 DEF Crash, RunRows
  <2> QED
    BY <1>2, <2>1 DEF InFlight
<1>4. /\ \A b \in Starters : at'[b] = "idle" /\ hand'[b] = Empty
      /\ \A t \in 1..MaxTurn : at'[t] = IF t \in Unfinished /\ Resumed(t) THEN "run" ELSE "idle"
      /\ fireMu' = Nil
  BY <1>0 DEF Crash, Unfinished
<1>5. TypeOK'
  <2>1. running' \in [Threads -> (1..MaxTurn) \cup {Nil}]
    <3> SUFFICES ASSUME NEW th \in Threads, \E t \in Unfinished : Resumed(t) /\ turns[t].thread = th
                 PROVE  (CHOOSE t \in Unfinished : Resumed(t) /\ turns[t].thread = th) \in 1..MaxTurn
      BY DEF Crash
    <3>1. Unfinished \subseteq 1..MaxTurn
      BY <1>0 DEF Unfinished
    <3> QED
      BY <3>1
  <2>2. lost' \subseteq 1..MaxRun /\ crashes' \in 0..MaxCrash
    BY <1>0, BoundAssumption DEF Crash, InFlight, IInv, Shape, TypeOK
  <2>3. hand' \in [Actors -> Hands] /\ at' \in [Actors -> StarterLabels \cup TurnLabels]
    BY EmptyHand DEF Crash, StarterLabels, TurnLabels
  <2>4. sched' \in [Waits -> WaitRows]
    BY DEF Crash, IInv, Shape, TypeOK
  <2> QED
    BY <1>2, <1>4, <2>1, <2>2, <2>3, <2>4 DEF TypeOK, RowsKept
<1>6. HandsSound'
  BY <1>4, EmptyHand, StarterLabelsFree DEF HandsSound, HandFits
<1>7. TurnsSound'
  BY <1>2, <1>4 DEF TurnsSound, RowsKept, TurnLabels, Unfinished
<1>8. MuHeld' /\ FreshClaim'
  BY <1>4 DEF MuHeld, FreshClaim, UnderMu
<1>9. OneFirePerWait'
  BY <1>2, <1>3 DEF OneFirePerWait, RowsKept, IInv, InFlight
<1>10. ClaimOwned'
  <2> SUFFICES ASSUME NEW r \in InFlight', r \notin lost' PROVE Owned(r)'
    BY DEF ClaimOwned
  <2>1. r \in InFlight /\ r \notin ClosedFires
    BY <1>3
  <2>2. PICK t \in Unfinished : turns[t].run = r
    BY <2>1 DEF Crash
  <2>3. Resumed(t) /\ t \in DOMAIN turns
    BY <2>1, <2>2 DEF ClosedFires, Unfinished
  <2>4. at'[t] = "run" /\ t \in DOMAIN turns' /\ turns'[t].run = r
    BY <1>0, <1>2, <1>4, <2>2, <2>3 DEF RowsKept
  <2> QED
    BY <2>4 DEF Owned, Alive
<1> QED
  BY <1>5, <1>6, <1>7, <1>8, <1>9, <1>10 DEF IInv, Shape

-----------------------------------------------------------------------------
LEMMA StepInv == IInv /\ [Next]_vars => IInv'
<1> SUFFICES ASSUME IInv, [Next]_vars PROVE IInv'
  OBVIOUS
<1>1. CASE TickBegin
  <2>1. PICK list \in SUBSET Active : hand' = [hand EXCEPT ![Ticker] = [Empty EXCEPT !.list = list]]
    BY <1>1 DEF TickBegin
  <2>2. list \in SUBSET Waits /\ Ticker \in Starters
    BY <2>1 DEF Active, Starters
  <2> QED
    BY <1>1, <2>1, <2>2, ListStep DEF TickBegin
<1>2. ASSUME NEW c \in Clients, NEW w \in Waits, RunNow(c, w) PROVE IInv'
  <2>1. {w} \in SUBSET Waits /\ c \in Starters
    BY DEF Starters
  <2> QED
    BY <1>2, <2>1, ListStep DEF RunNow
<1>3. ASSUME NEW a \in Starters, Claiming(a) PROVE IInv'
  BY <1>3, RowStep, InsertStep, SkipStep, AdvanceStep, DropStep, UnlockStep DEF Claiming
<1>4. ASSUME NEW a \in Starters, Starting(a) PROVE IInv'
  BY <1>4, StartNextStep, StartFailStep, StartCreateStep, BindStep, ClaimStep, ClaimFailStep,
     RefuseStep, UnrunStep, FinishStartStep DEF Starting
<1>5. CASE UNCHANGED vars
  BY <1>5, EditStep DEF vars, IInv, Shape, TypeOK
<1> QED
  BY <1>1, <1>2, <1>3, <1>4, <1>5, EditSteps, SendStep, TurnSteps, CrashStep DEF Next

THEOREM Invariance == Spec => []IInv
BY InitInv, StepInv, PTL DEF Spec

\* The three tables, the runtimes and the goroutines keep their shape.
THEOREM TypeCorrect == Spec => []TypeOK
BY Invariance, PTL DEF IInv, Shape

\* No wait has two fires running, whoever claims, cancels, pauses or dies:
\* HasRunningRun is read and used under fireMu (schedule_tick.go).
THEOREM SingleFire == Spec => []OneFirePerWait
BY Invariance, PTL DEF IInv

\* Every running fire has a goroutine that will close it, except one that no
\* unfinished turn named when the process died (finishScheduledRun, resume.go).
THEOREM FiresOwned == Spec => []ClaimOwned
BY Invariance, PTL DEF IInv

-----------------------------------------------------------------------------
\* The cap on armed waits.

LEMMA OneMoreArmed ==
    ASSUME ActiveUnderCap, NEW w, sched \in [Waits -> WaitRows],
           Active' \subseteq Active \/ (UnderCap /\ Active' \subseteq Active \cup {w})
    PROVE  ActiveUnderCap'
<1>1. IsFiniteSet(Active) /\ Cardinality(Active) \in Nat
  BY WaitAssumption, FS_Subset, FS_CardinalityType DEF Active
<1>2. CASE Active' \subseteq Active
  BY <1>1, <1>2, FS_Subset, FS_CardinalityType, CapAssumption DEF ActiveUnderCap
<1>3. CASE UnderCap /\ Active' \subseteq Active \cup {w}
  <2>1. /\ IsFiniteSet(Active \cup {w}) /\ Cardinality(Active \cup {w}) \in Nat
        /\ Cardinality(Active \cup {w}) <= Cardinality(Active) + 1
    BY <1>1, FS_AddElement, FS_CardinalityType
  <2>2. Cardinality(Active') <= Cardinality(Active \cup {w}) /\ Cardinality(Active') \in Nat
    BY <1>3, <2>1, FS_Subset, FS_CardinalityType
  <2> QED
    BY <1>1, <1>3, <2>1, <2>2, CapAssumption DEF UnderCap, ActiveUnderCap
<1> QED
  BY <1>2, <1>3

LEMMA CapStep == IInv /\ ActiveUnderCap /\ [Next]_vars => ActiveUnderCap'
<1> SUFFICES ASSUME IInv, ActiveUnderCap, [Next]_vars PROVE ActiveUnderCap'
  OBVIOUS
<1>0. sched \in [Waits -> WaitRows]
  BY DEF IInv, Shape, TypeOK
<1>1. ASSUME NEW w \in Waits, NEW x, sched' = [sched EXCEPT ![w] = x],
             x.status = "active" => UnderCap \/ w \in Active
      PROVE  ActiveUnderCap'
  <2>1. Active' \subseteq Active \cup {w} /\ (x.status # "active" => Active' \subseteq Active)
    BY <1>0, <1>1 DEF Active
  <2> QED
    BY <1>0, <1>1, <2>1, OneMoreArmed
<1>2. CASE sched' = sched
  BY <1>0, <1>2, OneMoreArmed DEF Active
<1>3. ASSUME NEW w \in Waits, NEW status \in {"active", "paused", "cancelled", "done"},
             sched' = [sched EXCEPT ![w].status = status],
             status = "active" => UnderCap \/ w \in Active
      PROVE  ActiveUnderCap'
  <2> DEFINE x == [sched[w] EXCEPT !.status = status]
  <2>1. sched' = [sched EXCEPT ![w] = x] /\ x.status = status
    BY <1>0, <1>3 DEF WaitRows
  <2> HIDE DEF x
  <2> QED
    BY <1>1, <1>3, <2>1
<1>4. ASSUME NEW w \in Waits, Edit(w) \/ ManagerCancel(w) PROVE ActiveUnderCap'
  <2>1. CASE Create(w)
    BY <1>1, <2>1 DEF Create, Set
  <2>2. CASE Edit(w) /\ ~Create(w)
    <3>1. PICK status \in {"active", "paused", "cancelled"} :
               /\ sched' = [sched EXCEPT ![w] = [sched[w] EXCEPT !.status = status]]
               /\ status = "active" => UnderCap
      BY <2>2 DEF Edit, HumanCancel, Pause, Resume, Set
    <3> DEFINE x == [sched[w] EXCEPT !.status = status]
    <3>2. x.status = status
      BY <1>0 DEF WaitRows
    <3>3. sched' = [sched EXCEPT ![w] = x]
      BY <3>1
    <3> HIDE DEF x
    <3> QED
      BY <1>1, <3>1, <3>2, <3>3
  <2>3. CASE ManagerCancel(w)
    <3> DEFINE x == [sched[w] EXCEPT !.status = "cancelled"]
    <3>1. x.status = "cancelled" /\ sched' = [sched EXCEPT ![w] = x]
      BY <1>0, <2>3 DEF WaitRows, ManagerCancel, Set
    <3> HIDE DEF x
    <3> QED
      BY <1>1, <3>1
  <2> QED
    BY <1>4, <2>1, <2>2, <2>3
<1>5. ASSUME NEW t \in 1..MaxTurn, Report(t) PROVE ActiveUnderCap'
  <2>1. CASE turns[t].run # Nil /\ Rearm(runs[turns[t].run].wait)
    <3> DEFINE w == runs[turns[t].run].wait
               x == [sched[w] EXCEPT !.status = "active", !.once = FALSE]
    <3>1. w \in Waits
      BY <1>5, <2>1, TurnFacts DEF Report
    <3>2. sched' = [sched EXCEPT ![w] = x] /\ (UnderCap \/ w \in Active)
      BY <2>1 DEF Rearm, Set
    <3> HIDE DEF w, x
    <3> QED
      BY <1>1, <3>1, <3>2
  <2> QED
    BY <1>4, <1>5, <2>1 DEF Report
<1>6. ASSUME NEW a \in Starters, Advance(a) PROVE ActiveUnderCap'
  <2>1. CASE hand[a].wait \in Active
    <3>1. PICK status \in {"active", "done"} : sched' = [sched EXCEPT ![hand[a].wait].status = status]
      BY <1>6, <2>1 DEF Advance
    <3>2. hand[a].wait \in Waits
      BY <2>1 DEF Active
    <3> QED
      BY <1>3, <2>1, <3>1, <3>2
  <2> QED
    BY <1>2, <1>6, <2>1 DEF Advance
<1>7. ASSUME NEW t \in 1..MaxTurn, AutoPause(t) PROVE ActiveUnderCap'
  <2>1. runs[turns[t].run].wait \in Waits
    BY <1>7, TurnFacts DEF AutoPause
  <2> QED
    BY <1>3, <1>7, <2>1 DEF AutoPause
<1>8. CASE UNCHANGED vars
  BY <1>2, <1>8 DEF vars
<1>9. ASSUME NEW a \in Starters, Claiming(a), ~Advance(a) PROVE ActiveUnderCap'
  BY <1>2, <1>9 DEF Claiming, Row, Insert, Skip, Drop, Unlock
<1>10. ASSUME NEW a \in Starters, Starting(a) PROVE ActiveUnderCap'
  BY <1>2, <1>10 DEF Starting, StartNext, StartFail, StartCreate, Bind, Claim, ClaimFail, Refuse,
                     Unrun, FinishStart
<1>11. ASSUME NEW t \in 1..MaxTurn, Conclude(t) \/ (Ending(t) /\ ~AutoPause(t)) PROVE ActiveUnderCap'
  BY <1>2, <1>11 DEF Conclude, Ending, Release, FinishTurn, CloseRun
<1>12. CASE TickBegin \/ Crash
  BY <1>2, <1>12 DEF TickBegin, Crash
<1>13. ASSUME NEW c \in Clients, \/ \E w \in Waits : RunNow(c, w)
                                \/ \E th \in Threads : Send(c, th)
       PROVE  ActiveUnderCap'
  BY <1>2, <1>13 DEF RunNow, Send
<1> QED
  BY <1>4, <1>5, <1>6, <1>7, <1>8, <1>9, <1>10, <1>11, <1>12, <1>13 DEF Next, Ending

\* Arming in any order, by anyone, keeps to MaxActiveSchedules: each count is
\* in the transaction that arms (store/schedule.go).
THEOREM CapKept == Spec => []ActiveUnderCap
<1>1. Init => ActiveUnderCap
  <2>1. Init => Active = {}
    BY DEF Init, Active, Absent
  <2> QED
    BY <2>1, FS_EmptySet, CapAssumption DEF ActiveUnderCap
<1> QED
  BY <1>1, CapStep, Invariance, PTL DEF Spec

-----------------------------------------------------------------------------
\* A one-shot rings once.

Naming == {"bind", "claim", "refuse", "unrun", "finish"}

HasTurn(r) == \E t \in DOMAIN turns : turns[t].run = r

\* A claim whose wait has not been read again.
Undecided(a, r) == at[a] \in {"advance", "drop"} /\ hand[a].run = r

\* A fire that has its turn, or may still get one.
Rings(r) == HasTurn(r) \/ \E a \in Starters : r \in hand[a].runs /\ ~Undecided(a, r)

\* The wait exists and, if it is a one-shot, is not armed and cannot be again as one.
Spent(w) == sched[w].status # "absent" /\ (sched[w].once => sched[w].status \in {"done", "cancelled"})

\* A starter holds a fire that has a turn only while it starts that turn.
HandRings(a) ==
    /\ \A r \in hand[a].runs : HasTurn(r) => at[a] \in Naming /\ hand[a].run = r
    /\ at[a] \in {"advance", "drop"} => runs[hand[a].run].wait = hand[a].wait

OneTurn == \A t, u \in DOMAIN turns : turns[t].run = turns[u].run => turns[t].run = Nil \/ t = u

HandsApart == \A a, b \in Starters : a # b => hand[a].runs \cap hand[b].runs = {}

RingsSpent == \A r \in DOMAIN runs : Rings(r) => Spent(runs[r].wait)

RingsAlone ==
    \A r, s \in DOMAIN runs :
        Rings(r) /\ Rings(s) /\ runs[r].wait = runs[s].wait /\ sched[runs[r].wait].once => r = s

\* A turn pauses a wait that repeats.
PauseRepeats == \A t \in 1..MaxTurn : at[t] = "pause" => ~sched[runs[turns[t].run].wait].once

RingInv == /\ \A a \in Starters : HandRings(a)
           /\ OneTurn /\ HandsApart /\ RingsSpent /\ RingsAlone /\ PauseRepeats

\* What a starter's place says about its place before: a claim is decided, and a
\* start goes on with its fire or gives it away.
Follows(a) ==
    /\ hand'[a].runs \subseteq hand[a].runs
    /\ at'[a] \in {"advance", "drop"} => at[a] = "advance" /\ hand'[a] = hand[a]
    /\ at[a] \in {"advance", "drop"} => at'[a] = "drop" \/ hand[a].run \notin hand'[a].runs
    /\ at[a] \in Naming => \/ at'[a] \in Naming /\ hand'[a].run = hand[a].run
                           \/ hand[a].run \notin hand'[a].runs

LEMMA TurnsNamed ==
    ASSUME RowsKept, DOMAIN turns' = DOMAIN turns
    PROVE  \A r : HasTurn(r)' <=> HasTurn(r)
BY DEF RowsKept, HasTurn

\* A step of a starter that creates no row and writes no wait.
LEMMA RingsFollow ==
    ASSUME IInv, RingInv, NEW a \in Starters, RowsKept, DOMAIN turns' = DOMAIN turns,
           sched' = sched, Follows(a),
           \A b \in Starters : b # a => at'[b] = at[b] /\ hand'[b] = hand[b],
           \A t \in 1..MaxTurn : at'[t] = "pause" => at[t] = "pause"
    PROVE  RingInv'
<1>0. /\ \A r : HasTurn(r)' <=> HasTurn(r)
      /\ \A r \in DOMAIN runs : r \in DOMAIN runs' /\ runs'[r].wait = runs[r].wait
      /\ \A b \in Starters : HandFits(at[b], hand[b], runs, turns) /\ hand[b].runs \subseteq DOMAIN runs
      /\ \A b \in Starters : HandRings(b)
  BY TurnsNamed DEF RowsKept, IInv, Shape, HandsSound, HandFits, RingInv
<1>1. ASSUME NEW b \in Starters PROVE HandRings(b)'
  <2>1. ASSUME NEW r \in hand'[b].runs, HasTurn(r)' PROVE at'[b] \in Naming /\ hand'[b].run = r
    <3>1. r \in hand[b].runs /\ HasTurn(r)
      BY <1>0, <2>1 DEF Follows
    <3>2. at[b] \in Naming /\ hand[b].run = r
      BY <1>0, <3>1 DEF HandRings
    <3> QED
      BY <2>1, <3>2 DEF Follows
  <2>2. ASSUME at'[b] \in {"advance", "drop"} PROVE runs'[hand'[b].run].wait = hand'[b].wait
    <3>1. at[b] \in {"advance", "drop"} /\ hand'[b] = hand[b]
      BY <2>2 DEF Follows
    <3>2. hand[b].run \in hand[b].runs /\ runs[hand[b].run].wait = hand[b].wait
      BY <1>0, <3>1 DEF HandFits, HandRings
    <3> QED
      BY <1>0, <3>1, <3>2
  <2> QED
    BY <2>1, <2>2 DEF HandRings
<1>2. ASSUME NEW r, Rings(r)' PROVE Rings(r)
  <2>1. CASE HasTurn(r)'
    BY <1>0, <2>1 DEF Rings
  <2>2. CASE \E b \in Starters : r \in hand'[b].runs /\ ~Undecided(b, r)'
    <3>1. PICK b \in Starters : r \in hand'[b].runs /\ ~Undecided(b, r)'
      BY <2>2
    <3>2. r \in hand[b].runs
      BY <3>1 DEF Follows
    <3>3. ~Undecided(b, r)
      <4>1. CASE b # a
        BY <3>1, <4>1 DEF Undecided
      <4>2. CASE b = a /\ Undecided(a, r)
        <5>1. at'[a] = "drop"
          BY <3>1, <4>2 DEF Follows, Undecided
        <5>2. hand'[a] = hand[a]
          BY <5>1 DEF Follows
        <5> QED
          BY <3>1, <4>2, <5>1, <5>2 DEF Undecided
      <4> QED
        BY <4>1, <4>2
    <3> QED
      BY <3>2, <3>3 DEF Rings
  <2> QED
    BY <1>2, <2>1, <2>2 DEF Rings
<1>3. ASSUME NEW r, Rings(r), r \in DOMAIN runs' PROVE r \in DOMAIN runs
  <2>1. r # Nil
    BY <1>3, NilAssumption DEF RowsKept
  <2>2. \A t \in DOMAIN turns : turns[t].run \in DOMAIN runs \cup {Nil}
    BY DEF IInv, Shape, TurnsSound
  <2> QED
    BY <1>0, <1>3, <2>1, <2>2 DEF Rings, HasTurn
<1>4. RingsSpent' /\ RingsAlone'
  BY <1>0, <1>2, <1>3 DEF RingInv, RingsSpent, RingsAlone, Spent
<1>5. OneTurn' /\ HandsApart'
  BY <1>0 DEF RingInv, OneTurn, HandsApart, RowsKept, Follows
<1>6. PauseRepeats'
  <2> SUFFICES ASSUME NEW t \in 1..MaxTurn, at'[t] = "pause"
               PROVE  ~sched[runs'[turns'[t].run].wait].once
    BY DEF PauseRepeats
  <2>1. at[t] = "pause" /\ ~sched[runs[turns[t].run].wait].once
    BY DEF RingInv, PauseRepeats
  <2>2. t \in DOMAIN turns /\ turns[t].run \in DOMAIN runs
    BY <2>1, TurnFacts
  <2>3. turns'[t].run = turns[t].run
    BY <2>2 DEF RowsKept
  <2> QED
    BY <1>0, <2>1, <2>2, <2>3
<1> QED
  BY <1>1, <1>4, <1>5, <1>6 DEF RingInv

LEMMA Placed ==
    ASSUME IInv, NEW a \in Starters, NEW l, NEW h, Go(a, l), hand' = [hand EXCEPT ![a] = h]
    PROVE  /\ at'[a] = l /\ hand'[a] = h
           /\ \A b \in Starters : b # a => at'[b] = at[b] /\ hand'[b] = hand[b]
           /\ \A t \in 1..MaxTurn : at'[t] = at[t]
<1>1. /\ DOMAIN at = Actors /\ DOMAIN hand = Actors /\ Starters \subseteq Actors
      /\ 1..MaxTurn \subseteq Actors /\ a \notin 1..MaxTurn
  BY Starter, BoundAssumption DEF IInv, Shape, TypeOK, Actors
<1> QED
  BY <1>1 DEF Go

\* The same for a step of the form most have.
LEMMA RingsGo ==
    ASSUME IInv, RingInv, NEW a \in Starters, NEW l, NEW h, Go(a, l), hand' = [hand EXCEPT ![a] = h],
           RowsKept, DOMAIN turns' = DOMAIN turns, sched' = sched, h.runs \subseteq hand[a].runs,
           l \in {"advance", "drop"} => at[a] = "advance" /\ h = hand[a],
           at[a] \in {"advance", "drop"} => l = "drop" \/ hand[a].run \notin h.runs,
           at[a] \in Naming => (l \in Naming /\ h.run = hand[a].run) \/ hand[a].run \notin h.runs
    PROVE  RingInv'
<1>1. /\ at'[a] = l /\ hand'[a] = h
      /\ \A b \in Starters : b # a => at'[b] = at[b] /\ hand'[b] = hand[b]
      /\ \A t \in 1..MaxTurn : at'[t] = at[t]
  BY Placed
<1>2. Follows(a)
  BY <1>1 DEF Follows
<1> QED
  BY <1>1, <1>2, RingsFollow

LEMMA SkipRows ==
    ASSUME IInv, NEW a \in Starters, Skip(a)
    PROVE  RowsKept /\ InFlight' = InFlight
<1>1. /\ HandFits("skip", hand[a], runs, turns) /\ Len(runs) \in Nat /\ Len(runs) <= MaxRun
  BY Starter DEF Skip, IInv, Shape, TypeOK
<1>2. CASE runs' = runs
  BY <1>2, RowsUnchanged DEF Skip, IInv, InFlight
<1>3. CASE runs' # runs
  <2> DEFINE x == [wait |-> hand[a].wait, status |-> "skipped", turn |-> Nil]
  <2>1. x \in RunRows /\ x.status = "skipped"
    BY <1>1 DEF HandFits, RunRows
  <2>2. runs' = Append(runs, x) /\ Len(runs) < MaxRun /\ turns' = turns
    BY <1>1, <1>3, BoundAssumption DEF Skip
  <2> HIDE DEF x
  <2>3. /\ RowsKept /\ DOMAIN runs' = DOMAIN runs \cup {Len(runs) + 1}
        /\ \A r \in DOMAIN runs : runs'[r] = runs[r]
        /\ runs'[Len(runs) + 1] = x
    BY <2>1, <2>2, RunAdded DEF IInv
  <2> QED
    BY <2>1, <2>3 DEF InFlight
<1> QED
  BY <1>2, <1>3

LEMMA BindRows ==
    ASSUME IInv, NEW a \in Starters, Bind(a)
    PROVE  RowsKept /\ InFlight' = InFlight
<1> DEFINE r == hand[a].run
           x == [runs[r] EXCEPT !.turn = hand[a].turn]
<1>1. r \in DOMAIN runs /\ runs[r].status = "running" /\ hand[a].turn \in DOMAIN turns
  BY Starter DEF Bind, InFlight, HandFits
<1>2. hand[a].turn \in 1..MaxTurn /\ runs[r] \in RunRows
  BY <1>1, ElementOfSeq, BoundAssumption DEF IInv, Shape, TypeOK
<1>3. x \in RunRows /\ x.wait = runs[r].wait /\ x.status = "running"
  BY <1>1, <1>2 DEF RunRows
<1>4. runs' = [runs EXCEPT ![r] = x] /\ turns' = turns
  BY DEF Bind
<1> HIDE DEF x, r
<1>5. RowsKept /\ DOMAIN runs' = DOMAIN runs
  BY <1>1, <1>3, <1>4, RunUpdated DEF IInv
<1> QED
  BY <1>1, <1>3, <1>4, <1>5 DEF InFlight

LEMMA RefuseRows ==
    ASSUME IInv, NEW a \in Starters, Refuse(a)
    PROVE  RowsKept /\ DOMAIN turns' = DOMAIN turns
<1> DEFINE t == hand[a].turn
           x == [turns[t] EXCEPT !.status = "ended"]
<1>1. t \in DOMAIN turns /\ turns[t] \in TurnRows
  BY Starter, ElementOfSeq DEF Refuse, HandFits, IInv, Shape, TypeOK
<1>2. x \in TurnRows /\ x.run = turns[t].run /\ turns' = [turns EXCEPT ![t] = x] /\ runs' = runs
  BY <1>1 DEF Refuse, TurnRows
<1> HIDE DEF x
<1> QED
  BY <1>1, <1>2, TurnUpdated DEF IInv

LEMMA RingsClaiming ==
    ASSUME IInv, RingInv, NEW a \in Starters,
           \/ \E w \in Waits : Row(a, w)
           \/ Skip(a) \/ Drop(a) \/ Unlock(a)
           \/ Advance(a) /\ hand[a].wait \notin Active
           \/ Insert(a) /\ Len(runs) = MaxRun
    PROVE  RingInv'
<1>0. /\ hand \in [Actors -> Hands] /\ a \in Actors /\ at \in [Actors -> StarterLabels \cup TurnLabels]
      /\ hand[a] \in Hands
  BY Starter DEF IInv, Shape, TypeOK
<1>1. ASSUME NEW w \in Waits, Row(a, w) PROVE RingInv'
  <2>1. RowsKept /\ DOMAIN turns' = DOMAIN turns /\ sched' = sched
    BY <1>1, RowsUnchanged DEF Row, IInv
  <2>2. PICK l \in {"row", "skip", "insert"} : Go(a, l)
    BY <1>0, <1>1 DEF Row, Go
  <2>3. hand'[a].runs = hand[a].runs /\ hand' = [hand EXCEPT ![a] = hand'[a]]
    BY <1>0, <1>1 DEF Row, Hands
  <2> QED
    BY <1>1, <2>1, <2>2, <2>3, RingsGo DEF Row, Naming
<1>2. ASSUME NEW claims \in SUBSET hand[a].runs, NextRow(a, claims), RowsKept,
             DOMAIN turns' = DOMAIN turns, sched' = sched, at[a] \in UnderMu,
             at[a] \in {"advance", "drop"} => hand[a].run \notin claims
      PROVE  RingInv'
  <2> DEFINE h == [Empty EXCEPT !.list = hand[a].list, !.runs = claims]
  <2>1. h.runs = claims
    BY DEF Empty
  <2>2. Go(a, "row") /\ hand' = [hand EXCEPT ![a] = h]
    BY <1>2 DEF NextRow
  <2> HIDE DEF h
  <2> QED
    BY <1>2, <2>1, <2>2, RingsGo DEF Naming, UnderMu
<1>3. CASE Skip(a)
  BY <1>2, <1>3, SkipRows DEF Skip, UnderMu
<1>4. CASE Drop(a)
  <2>1. RowsKept
    BY <1>4, Starter, FinishedRun DEF Drop, HandFits, IInv
  <2> QED
    BY <1>2, <1>4, <2>1 DEF Drop, UnderMu
<1>5. CASE Unlock(a)
  <2> DEFINE l == IF hand[a].runs = {} THEN "idle" ELSE "start"
             h == [Empty EXCEPT !.runs = hand[a].runs]
  <2>1. h.runs = hand[a].runs /\ l \in {"idle", "start"}
    BY DEF Empty
  <2>2. Go(a, l) /\ hand' = [hand EXCEPT ![a] = h]
    BY <1>5 DEF Unlock, NextFire
  <2>3. RowsKept /\ at[a] = "row" /\ DOMAIN turns' = DOMAIN turns /\ sched' = sched
    BY <1>5, RowsUnchanged DEF Unlock, IInv
  <2> HIDE DEF h, l
  <2> QED
    BY <2>1, <2>2, <2>3, RingsGo DEF Naming
<1>6. CASE Advance(a) /\ hand[a].wait \notin Active
  <2>1. /\ at[a] = "advance" /\ Go(a, "drop") /\ hand' = [hand EXCEPT ![a] = hand[a]]
        /\ RowsKept /\ DOMAIN turns' = DOMAIN turns /\ sched' = sched
    BY <1>0, <1>6, RowsUnchanged DEF Advance, IInv
  <2> QED
    BY <2>1, RingsGo DEF Naming
<1>7. CASE Insert(a) /\ Len(runs) = MaxRun
  BY <1>2, <1>7, RowsUnchanged DEF Insert, IInv, UnderMu
<1> QED
  BY <1>1, <1>3, <1>4, <1>5, <1>6, <1>7

LEMMA RingsStarting ==
    ASSUME IInv, RingInv, NEW a \in Starters,
           \/ \E r \in DOMAIN runs : StartNext(a, r)
           \/ StartFail(a) \/ Bind(a) \/ ClaimFail(a) \/ Refuse(a) \/ Unrun(a) \/ FinishStart(a)
    PROVE  RingInv'
<1>0. /\ hand \in [Actors -> Hands] /\ a \in Actors /\ at \in [Actors -> StarterLabels \cup TurnLabels]
      /\ hand[a] \in Hands /\ HandFits(at[a], hand[a], runs, turns)
      /\ turns \in Seq(TurnRows) /\ runs \in Seq(RunRows)
      /\ Nil \notin DOMAIN runs /\ hand[a].runs \subseteq DOMAIN runs
  BY Starter, NilAssumption DEF IInv, Shape, TypeOK, HandFits
<1>1. ASSUME NEW claims \in SUBSET hand[a].runs, NextFire(a, claims), RowsKept,
             DOMAIN turns' = DOMAIN turns, sched' = sched,
             at[a] \notin UnderMu, at[a] \in Naming => hand[a].run \notin claims
      PROVE  RingInv'
  <2> DEFINE l == IF claims = {} THEN "idle" ELSE "start"
             h == [Empty EXCEPT !.runs = claims]
  <2>1. h.runs = claims /\ l \in {"idle", "start"}
    BY DEF Empty
  <2>2. Go(a, l) /\ hand' = [hand EXCEPT ![a] = h]
    BY <1>1 DEF NextFire
  <2> HIDE DEF h, l
  <2> QED
    BY <1>1, <2>1, <2>2, RingsGo DEF Naming, UnderMu
<1>2. ASSUME RowsKept, DOMAIN turns' = DOMAIN turns, sched' = sched,
             NEW l \in Naming \cup {"create"}, NEW h, Go(a, l), hand' = [hand EXCEPT ![a] = h],
             h.runs = hand[a].runs, at[a] \notin UnderMu,
             at[a] \in Naming => l \in Naming /\ h.run = hand[a].run
      PROVE  RingInv'
  BY <1>2, RingsGo DEF Naming, UnderMu
<1>3. ASSUME NEW r \in DOMAIN runs, StartNext(a, r) PROVE RingInv'
  <2>1. PICK l \in {"finish", "create"} : Go(a, l)
    BY <1>3 DEF StartNext
  <2>2. hand'[a].runs = hand[a].runs /\ hand' = [hand EXCEPT ![a] = hand'[a]]
    BY <1>0, <1>3 DEF StartNext, Hands
  <2>3. /\ RowsKept /\ DOMAIN turns' = DOMAIN turns /\ sched' = sched /\ at[a] = "start"
    BY <1>3, RowsUnchanged DEF StartNext, IInv
  <2> QED
    BY <1>2, <2>1, <2>2, <2>3 DEF Naming, UnderMu
<1>4. CASE StartFail(a)
  <2>1. /\ RowsKept /\ DOMAIN turns' = DOMAIN turns /\ sched' = sched /\ at[a] = "create"
    BY <1>4, RowsUnchanged DEF StartFail, IInv
  <2>2. CASE hand[a].run = Nil
    BY <1>1, <1>4, <2>1, <2>2 DEF StartFail, Return, Naming, UnderMu
  <2>3. CASE hand[a].run # Nil
    <3>1. Go(a, "finish") /\ hand' = [hand EXCEPT ![a] = hand[a]]
      BY <1>0, <1>4, <2>3 DEF StartFail
    <3> QED
      BY <1>2, <2>1, <3>1 DEF Naming, UnderMu
  <2> QED
    BY <2>2, <2>3
<1>5. CASE Bind(a)
  <2>1. /\ Go(a, "claim") /\ hand' = [hand EXCEPT ![a] = hand[a]] /\ at[a] = "bind"
        /\ DOMAIN turns' = DOMAIN turns /\ sched' = sched
    BY <1>0, <1>5 DEF Bind
  <2> QED
    BY <1>2, <1>5, <2>1, BindRows DEF Naming, UnderMu
<1>6. CASE ClaimFail(a)
  <2>1. /\ hand'[a].runs = hand[a].runs /\ hand'[a].run = hand[a].run
        /\ hand' = [hand EXCEPT ![a] = hand'[a]]
    BY <1>0, <1>6 DEF ClaimFail, Hands
  <2>2. /\ RowsKept /\ DOMAIN turns' = DOMAIN turns /\ sched' = sched /\ at[a] = "claim"
        /\ Go(a, "refuse")
    BY <1>6, RowsUnchanged DEF ClaimFail, IInv
  <2> QED
    BY <1>2, <2>1, <2>2 DEF Naming, UnderMu
<1>7. CASE Refuse(a)
  <2>1. RowsKept /\ DOMAIN turns' = DOMAIN turns
    BY <1>7, RefuseRows
  <2>2. sched' = sched /\ at[a] = "refuse"
    BY <1>7 DEF Refuse
  <2>3. CASE hand[a].run = Nil
    <3>1. NextFire(a, {}) /\ {} \in SUBSET hand[a].runs
      BY <1>7, <2>3 DEF Refuse, Return
    <3> QED
      BY <1>1, <2>1, <2>2, <3>1 DEF UnderMu
  <2>4. CASE hand[a].run # Nil
    <3>1. /\ hand'[a].runs = hand[a].runs /\ hand'[a].run = hand[a].run
          /\ hand' = [hand EXCEPT ![a] = hand'[a]] /\ Go(a, "unrun")
      BY <1>0, <1>7, <2>4 DEF Refuse, Hands
    <3> QED
      BY <1>2, <2>1, <2>2, <3>1 DEF Naming, UnderMu
  <2> QED
    BY <2>3, <2>4
<1>8. CASE Unrun(a)
  <2>1. RowsKept
    BY <1>0, <1>8, FinishedScheduled DEF Unrun, HandFits, IInv
  <2>2. /\ Go(a, "finish") /\ hand' = [hand EXCEPT ![a] = hand[a]] /\ at[a] = "unrun"
        /\ DOMAIN turns' = DOMAIN turns /\ sched' = sched
    BY <1>0, <1>8 DEF Unrun
  <2> QED
    BY <1>2, <2>1, <2>2 DEF Naming, UnderMu
<1>9. CASE FinishStart(a)
  <2>1. RowsKept
    BY <1>0, <1>9, FinishedRun DEF FinishStart, HandFits, Hands, IInv
  <2> QED
    BY <1>1, <1>9, <2>1 DEF FinishStart, UnderMu
<1> QED
  BY <1>3, <1>4, <1>5, <1>6, <1>7, <1>8, <1>9

\* A tick or a call begins with nothing in hand.
LEMMA RingsBegin ==
    ASSUME IInv, RingInv, NEW a \in Starters, NEW l \in {"row", "create"}, NEW h, h.runs = {},
           at[a] = "idle", Go(a, l), hand' = [hand EXCEPT ![a] = h],
           UNCHANGED <<sched, runs, turns>>
    PROVE  RingInv'
<1>1. RowsKept
  BY RowsUnchanged DEF IInv
<1> QED
  BY <1>1, RingsGo DEF Naming

LEMMA RingsClaim == ASSUME IInv, RingInv, NEW a \in Starters, Claim(a) PROVE RingInv'
<1>0. /\ hand \in [Actors -> Hands] /\ at \in [Actors -> StarterLabels \cup TurnLabels] /\ at[a] = "claim"
      /\ hand[a].turn \in 1..MaxTurn /\ a \in Actors /\ a # hand[a].turn /\ 1..MaxTurn \subseteq Actors
      /\ Starters \subseteq Actors /\ Starters \cap 1..MaxTurn = {}
  <2>1. HandFits("claim", hand[a], runs, turns) /\ a \in Actors /\ a \notin Nat
    BY Starter DEF Claim
  <2>2. DOMAIN turns \subseteq 1..MaxTurn /\ 1..MaxTurn \subseteq Nat
    BY BoundAssumption DEF IInv, Shape, TypeOK
  <2> QED
    BY <2>1, <2>2, ActorAssumption DEF HandFits, Claim, Actors, Starters, IInv, Shape, TypeOK
<1> DEFINE rest == hand[a].runs \ {hand[a].run}
           l == IF rest = {} THEN "idle" ELSE "start"
           h == [Empty EXCEPT !.runs = rest]
<1>1. h.runs = rest /\ l \in {"idle", "start"}
  BY DEF Empty
<1>2. /\ at' = [at EXCEPT ![a] = l, ![hand[a].turn] = "run"] /\ hand' = [hand EXCEPT ![a] = h]
      /\ UNCHANGED <<sched, runs, turns>>
  BY DEF Claim
<1> HIDE DEF h, l
<1>3. /\ at'[a] = l /\ hand'[a] = h
      /\ \A b \in Starters : b # a => at'[b] = at[b] /\ hand'[b] = hand[b]
      /\ \A t \in 1..MaxTurn : at'[t] \in {at[t], "run"}
  BY <1>0, <1>2
<1>4. Follows(a)
  BY <1>0, <1>1, <1>3 DEF Follows
<1>5. RowsKept
  BY <1>2, RowsUnchanged DEF IInv
<1> QED
  BY <1>2, <1>3, <1>4, <1>5, RingsFollow

\* The new claim is in nobody else's hand and has no turn.
LEMMA RingsInsert ==
    ASSUME IInv, RingInv, NEW a \in Starters, Insert(a), Len(runs) # MaxRun
    PROVE  RingInv'
<1> DEFINE x == [wait |-> hand[a].wait, status |-> "running", turn |-> Nil]
           r == Len(runs) + 1
           h == [hand[a] EXCEPT !.run = r, !.runs = @ \cup {r}]
<1>0. /\ HandFits("insert", hand[a], runs, turns) /\ hand[a] \in Hands
      /\ Len(runs) \in Nat /\ Len(runs) <= MaxRun /\ Nil \notin DOMAIN runs
      /\ at[a] = "insert" /\ r # Nil
  BY Starter, NilAssumption DEF Insert, IInv, Shape, TypeOK
<1>1. x \in RunRows /\ x.wait = hand[a].wait
  BY <1>0 DEF HandFits, RunRows
<1>2. /\ runs' = Append(runs, x) /\ Go(a, "advance") /\ hand' = [hand EXCEPT ![a] = h]
      /\ UNCHANGED <<sched, turns>> /\ Len(runs) < MaxRun
  <2>1. /\ runs' = Append(runs, x) /\ Go(a, "advance") /\ hand' = [hand EXCEPT ![a] = h]
        /\ UNCHANGED <<sched, turns>>
    BY DEF Insert
  <2>2. Len(runs) < MaxRun
    BY <1>0, BoundAssumption
  <2> QED
    BY <2>1, <2>2
<1>3. h.runs = hand[a].runs \cup {r} /\ h.run = r /\ h.wait = hand[a].wait
  BY <1>0 DEF Hands
<1> HIDE DEF x
<1>4. /\ RowsKept /\ DOMAIN runs' = DOMAIN runs \cup {r} /\ runs'[r] = x /\ r \notin DOMAIN runs
      /\ \A s \in DOMAIN runs : runs'[s] = runs[s]
  BY <1>1, <1>2, RunAdded DEF IInv
<1> HIDE DEF r, h
<1>5. /\ at'[a] = "advance" /\ hand'[a] = h
      /\ \A b \in Starters : b # a => at'[b] = at[b] /\ hand'[b] = hand[b]
      /\ \A t \in 1..MaxTurn : at'[t] = at[t]
  BY <1>2, Placed
<1>6. /\ \A s : HasTurn(s)' <=> HasTurn(s)
      /\ \A b \in Starters : HandFits(at[b], hand[b], runs, turns) /\ hand[b].runs \subseteq DOMAIN runs
      /\ ~HasTurn(r)
      /\ \A b \in Starters : HandRings(b)
  BY <1>0, <1>2, <1>4 DEF HasTurn, IInv, Shape, HandsSound, HandFits, TurnsSound, RingInv
<1>7. ASSUME NEW b \in Starters PROVE HandRings(b)'
  <2>1. CASE b = a
    <3>1. \A s \in hand[a].runs : ~HasTurn(s)
      BY <1>0, <1>6 DEF HandRings, Naming
    <3> QED
      BY <1>1, <1>3, <1>4, <1>5, <1>6, <2>1, <3>1 DEF HandRings
  <2>2. CASE b # a
    <3>1. at[b] \in {"advance", "drop"} => hand[b].run \in DOMAIN runs
      BY <1>6 DEF HandFits
    <3> QED
      BY <1>4, <1>5, <1>6, <2>2, <3>1 DEF HandRings
  <2> QED
    BY <2>1, <2>2
<1>8. ASSUME NEW s, Rings(s)' PROVE Rings(s)
  <2>1. CASE HasTurn(s)'
    BY <1>6, <2>1 DEF Rings
  <2>2. ASSUME NEW b \in Starters, s \in hand'[b].runs, ~Undecided(b, s)' PROVE Rings(s)
    <3>1. CASE b = a
      BY <1>0, <1>3, <1>5, <2>2, <3>1 DEF Rings, Undecided
    <3>2. CASE b # a
      BY <1>5, <2>2, <3>2 DEF Rings, Undecided
    <3> QED
      BY <3>1, <3>2
  <2> QED
    BY <1>8, <2>1, <2>2 DEF Rings
<1>9. ~Rings(r)
  BY <1>4, <1>6 DEF Rings
<1>10. RingsSpent' /\ RingsAlone'
  BY <1>2, <1>4, <1>8, <1>9 DEF RingInv, RingsSpent, RingsAlone, Spent
<1>11. OneTurn' /\ HandsApart'
  BY <1>2, <1>3, <1>4, <1>5, <1>6 DEF RingInv, OneTurn, HandsApart
<1>12. PauseRepeats'
  BY <1>2, <1>4, <1>5, TurnFacts DEF RingInv, PauseRepeats
<1> QED
  BY <1>7, <1>10, <1>11, <1>12 DEF RingInv

\* The claim that was decided is the only one of a one-shot: it was armed so far.
LEMMA RingsAdvance ==
    ASSUME IInv, RingInv, NEW a \in Starters, Advance(a), hand[a].wait \in Active
    PROVE  RingInv'
<1> DEFINE w == hand[a].wait
           r == hand[a].run
           h == [Empty EXCEPT !.list = hand[a].list, !.runs = hand[a].runs]
<1>0. /\ sched \in [Waits -> WaitRows] /\ w \in Waits /\ at[a] = "advance" /\ sched[w].status = "active"
      /\ HandFits("advance", hand[a], runs, turns) /\ r \in hand[a].runs /\ r \in DOMAIN runs
  BY Starter DEF Advance, HandFits, Active
<1>1. /\ sched' = [sched EXCEPT ![w].status = IF sched[w].once THEN "done" ELSE "active"]
      /\ Go(a, "row") /\ hand' = [hand EXCEPT ![a] = h] /\ UNCHANGED <<runs, turns>>
  BY DEF Advance, NextRow
<1>2. h.runs = hand[a].runs
  BY DEF Empty
<1> HIDE DEF h
<1>3. /\ at'[a] = "row" /\ hand'[a] = h
      /\ \A b \in Starters : b # a => at'[b] = at[b] /\ hand'[b] = hand[b]
      /\ \A t \in 1..MaxTurn : at'[t] = at[t]
  BY <1>1, Placed
<1>4. \A s : HasTurn(s)' <=> HasTurn(s)
  BY <1>1 DEF HasTurn
<1>5. /\ \A v \in Waits : v # w => sched'[v] = sched[v]
      /\ sched'[w].once = sched[w].once /\ sched'[w].status = IF sched[w].once THEN "done" ELSE "active"
  BY <1>0, <1>1 DEF WaitRows
<1>6. \A s \in DOMAIN runs : runs[s].wait \in Waits
  <2>1. \A s \in DOMAIN runs : runs[s] \in RunRows
    BY ElementOfSeq DEF IInv, Shape, TypeOK
  <2> QED
    BY <2>1 DEF RunRows
<1>7. runs[r].wait = w
  BY <1>0 DEF RingInv, HandRings
<1>8. ASSUME NEW s, Rings(s)', s # r PROVE Rings(s)
  <2>1. CASE HasTurn(s)'
    BY <1>4, <2>1 DEF Rings
  <2>2. ASSUME NEW b \in Starters, s \in hand'[b].runs, ~Undecided(b, s)' PROVE Rings(s)
    BY <1>0, <1>2, <1>3, <1>8, <2>2 DEF Rings, Undecided
  <2> QED
    BY <1>8, <2>1, <2>2 DEF Rings
<1>9. ASSUME NEW s \in DOMAIN runs, Rings(s), runs[s].wait = w PROVE ~sched[w].once
  BY <1>0, <1>9 DEF RingInv, RingsSpent, Spent
<1>10. RingsSpent'
  <2> SUFFICES ASSUME NEW s \in DOMAIN runs, Rings(s)' PROVE Spent(runs[s].wait)'
    BY <1>1 DEF RingsSpent
  <2>1. CASE runs[s].wait = w
    BY <1>1, <1>5, <2>1 DEF Spent
  <2>2. CASE runs[s].wait # w
    BY <1>1, <1>5, <1>6, <1>7, <1>8, <2>2 DEF Spent, RingInv, RingsSpent
  <2> QED
    BY <2>1, <2>2
<1>11. RingsAlone'
  <2> SUFFICES ASSUME NEW s \in DOMAIN runs, NEW q \in DOMAIN runs, Rings(s)', Rings(q)',
                      runs[s].wait = runs[q].wait, sched'[runs[s].wait].once
               PROVE  s = q
    BY <1>1 DEF RingsAlone
  <2>1. CASE runs[s].wait = w
    BY <1>5, <1>8, <1>9, <2>1
  <2>2. CASE runs[s].wait # w
    BY <1>5, <1>6, <1>7, <1>8, <2>2 DEF RingInv, RingsAlone
  <2> QED
    BY <2>1, <2>2
<1>12. ASSUME NEW b \in Starters PROVE HandRings(b)'
  <2>1. CASE b = a
    BY <1>0, <1>2, <1>3, <1>4, <2>1 DEF HandRings, RingInv, Naming
  <2>2. CASE b # a
    BY <1>1, <1>3, <1>4, <2>2 DEF HandRings, RingInv
  <2> QED
    BY <2>1, <2>2
<1>13. OneTurn' /\ HandsApart'
  BY <1>1, <1>2, <1>3 DEF RingInv, OneTurn, HandsApart
<1>14. PauseRepeats'
  <2> SUFFICES ASSUME NEW t \in 1..MaxTurn, at[t] = "pause"
               PROVE  ~sched'[runs[turns[t].run].wait].once
    BY <1>1, <1>3 DEF PauseRepeats
  <2>1. runs[turns[t].run].wait \in Waits
    BY TurnFacts
  <2> QED
    BY <1>5, <2>1 DEF RingInv, PauseRepeats
<1> QED
  BY <1>10, <1>11, <1>12, <1>13, <1>14 DEF RingInv

\* The row of the turn names the fire that its starter is starting.
LEMMA RingsCreate == ASSUME IInv, RingInv, NEW a \in Starters, StartCreate(a) PROVE RingInv'
<1> DEFINE r == hand[a].run
           x == [run |-> r, thread |-> hand[a].thread, status |-> "running", told |-> FALSE]
           n == Len(turns) + 1
           h == [hand[a] EXCEPT !.turn = n]
<1>0. /\ hand[a] \in Hands /\ HandFits("create", hand[a], runs, turns) /\ at[a] = "create"
      /\ turns \in Seq(TurnRows) /\ Len(turns) \in Nat /\ DOMAIN turns = 1..Len(turns)
      /\ Nil \notin DOMAIN runs
  BY Starter, NilAssumption DEF StartCreate, IInv, Shape, TypeOK
<1>1. x \in TurnRows /\ x.run = r
  BY <1>0 DEF TurnRows, Hands
<1>2. turns' = Append(turns, x) /\ hand' = [hand EXCEPT ![a] = h] /\ UNCHANGED <<sched, runs>>
  BY <1>0 DEF StartCreate, Hands
<1> HIDE DEF x
<1>3. /\ DOMAIN turns' = DOMAIN turns \cup {n} /\ n \notin DOMAIN turns /\ turns'[n].run = r
      /\ \A t \in DOMAIN turns : turns'[t] = turns[t]
  <2>1. /\ Len(turns') = n /\ turns' \in Seq(TurnRows)
        /\ \A t \in 1..Len(turns) : turns'[t] = turns[t]
        /\ turns'[n] = x
    BY <1>0, <1>1, <1>2, AppendProperties
  <2>2. DOMAIN turns' = 1..n /\ 1..n = 1..Len(turns) \cup {n} /\ n \notin 1..Len(turns)
    BY <1>0, <2>1
  <2> QED
    BY <1>0, <1>1, <2>1, <2>2
<1>4. h.runs = hand[a].runs /\ h.run = r
  BY <1>0 DEF Hands
<1>5. PICK l \in {"claim", "bind"} : Go(a, l)
  BY DEF StartCreate
<1> HIDE DEF h, n
<1>6. /\ at'[a] = l /\ hand'[a] = h
      /\ \A b \in Starters : b # a => at'[b] = at[b] /\ hand'[b] = hand[b]
      /\ \A t \in 1..MaxTurn : at'[t] = at[t]
  BY <1>2, <1>5, Placed
<1>7. \A s : HasTurn(s)' <=> HasTurn(s) \/ s = r
  BY <1>3 DEF HasTurn
<1>8. /\ \A s \in hand[a].runs : ~HasTurn(s)
      /\ r \in hand[a].runs \/ r = Nil
      /\ \A b \in Starters : HandRings(b) /\ hand[b].runs \subseteq DOMAIN runs
  BY <1>0 DEF RingInv, HandRings, Naming, HandFits, IInv, Shape, HandsSound
<1>9. ASSUME NEW b \in Starters PROVE HandRings(b)'
  <2>1. CASE b = a
    BY <1>4, <1>5, <1>6, <1>7, <1>8, <2>1 DEF HandRings, Naming
  <2>2. CASE b # a
    <3>1. r \notin hand[b].runs
      BY <1>0, <1>8, <2>2 DEF RingInv, HandsApart
    <3> QED
      BY <1>2, <1>6, <1>7, <1>8, <2>2, <3>1 DEF HandRings
  <2> QED
    BY <2>1, <2>2
<1>10. ASSUME NEW s \in DOMAIN runs, Rings(s)' PROVE Rings(s)
  <2>1. CASE HasTurn(s)
    BY <2>1 DEF Rings
  <2>2. CASE s = r
    BY <1>0, <1>8, <2>2 DEF Rings, Undecided
  <2>3. ASSUME NEW b \in Starters, s \in hand'[b].runs, ~Undecided(b, s)' PROVE Rings(s)
    <3>1. CASE b = a
      BY <1>0, <1>4, <1>6, <2>3, <3>1 DEF Rings, Undecided
    <3>2. CASE b # a
      BY <1>6, <2>3, <3>2 DEF Rings, Undecided
    <3> QED
      BY <3>1, <3>2
  <2> QED
    BY <1>7, <1>10, <2>1, <2>2, <2>3 DEF Rings
<1>11. RingsSpent' /\ RingsAlone'
  BY <1>2, <1>10 DEF RingInv, RingsSpent, RingsAlone, Spent
<1>12. HandsApart'
  BY <1>4, <1>6 DEF RingInv, HandsApart
<1>13. OneTurn'
  <2>1. \A t \in DOMAIN turns : turns[t].run = r => r = Nil
    BY <1>8 DEF HasTurn
  <2> QED
    BY <1>3, <2>1 DEF RingInv, OneTurn
<1>14. PauseRepeats'
  BY <1>2, <1>3, <1>6, TurnFacts DEF RingInv, PauseRepeats
<1> QED
  BY <1>9, <1>11, <1>12, <1>13, <1>14 DEF RingInv

\* Nobody's hand changes, and no wait that is spent is armed as a one-shot again.
LEMMA RingsHeld ==
    ASSUME IInv, RingInv, RowsKept, DOMAIN turns' = DOMAIN turns, DOMAIN runs' = DOMAIN runs,
           hand' = hand, \A b \in Starters : at'[b] = at[b],
           \A w \in Waits : Spent(w) => Spent(w)' /\ (sched'[w].once => sched[w].once),
           \A t \in 1..MaxTurn : at'[t] = "pause" =>
               /\ turns[t].run \in DOMAIN runs /\ t \in DOMAIN turns
               /\ ~sched'[runs[turns[t].run].wait].once
    PROVE  RingInv'
<1>0. /\ \A r : HasTurn(r)' <=> HasTurn(r)
      /\ \A r \in DOMAIN runs : runs'[r].wait = runs[r].wait
      /\ \A b \in Starters : HandFits(at[b], hand[b], runs, turns) /\ HandRings(b)
  BY TurnsNamed DEF RowsKept, IInv, Shape, HandsSound, RingInv
<1>1. \A r \in DOMAIN runs : runs[r].wait \in Waits
  <2>1. \A r \in DOMAIN runs : runs[r] \in RunRows
    BY ElementOfSeq DEF IInv, Shape, TypeOK
  <2> QED
    BY <2>1 DEF RunRows
<1>2. \A r : Rings(r)' <=> Rings(r)
  BY <1>0 DEF Rings, Undecided
<1>3. ASSUME NEW b \in Starters PROVE HandRings(b)'
  <2>1. at[b] \in {"advance", "drop"} => hand[b].run \in DOMAIN runs
    BY <1>0 DEF HandFits
  <2> QED
    BY <1>0, <2>1 DEF HandRings
<1>4. OneTurn' /\ HandsApart'
  BY DEF RingInv, OneTurn, HandsApart, RowsKept
<1>5. RingsSpent'
  BY <1>0, <1>1, <1>2 DEF RingInv, RingsSpent
<1>6. RingsAlone'
  BY <1>0, <1>1, <1>2 DEF RingInv, RingsAlone, RingsSpent
<1>7. PauseRepeats'
  BY <1>0 DEF PauseRepeats, RowsKept
<1> QED
  BY <1>3, <1>4, <1>5, <1>6, <1>7 DEF RingInv

\* A wait is written by a client, a manager or the end of a turn.
LEMMA RingsEdit ==
    ASSUME IInv, RingInv, NEW w \in Waits, NEW x \in WaitRows, Set(w, x),
           x.status # "absent",
           sched[w].status # "absent" =>
               /\ x.once => sched[w].once
               /\ x.once /\ sched[w].status \in {"done", "cancelled"} => x.status \in {"done", "cancelled"},
           sched[w].status = "absent" => x.status = "active"
    PROVE  RingInv'
<1>0. /\ sched \in [Waits -> WaitRows] /\ sched' = [sched EXCEPT ![w] = x]
      /\ UNCHANGED <<runs, turns, at, hand>>
  BY DEF IInv, Shape, TypeOK, Set
<1>1. \A v \in Waits : sched'[v] = IF v = w THEN x ELSE sched[v]
  BY <1>0
<1>2. \A v \in Waits : Spent(v) => Spent(v)' /\ (sched'[v].once => sched[v].once)
  BY <1>1 DEF Spent
<1>3. ASSUME NEW t \in 1..MaxTurn, at[t] = "pause"
      PROVE  /\ turns[t].run \in DOMAIN runs /\ t \in DOMAIN turns
             /\ ~sched'[runs[turns[t].run].wait].once
  <2>1. /\ t \in DOMAIN turns /\ turns[t].run \in DOMAIN runs /\ runs[turns[t].run].wait \in Waits
        /\ ~sched[runs[turns[t].run].wait].once
    BY <1>3, TurnFacts DEF RingInv, PauseRepeats
  <2>2. Spent(runs[turns[t].run].wait)
    BY <2>1 DEF RingInv, RingsSpent, Rings, HasTurn
  <2> QED
    BY <1>2, <2>1, <2>2
<1>4. RowsKept
  BY <1>0, RowsUnchanged DEF IInv
<1> QED
  BY <1>0, <1>2, <1>3, <1>4, RingsHeld

LEMMA RingsEdits ==
    ASSUME IInv, RingInv, (\E w \in Waits : Edit(w)) \/ (\E t \in 1..MaxTurn : Report(t))
    PROVE  RingInv'
<1>0. sched \in [Waits -> WaitRows]
  BY DEF IInv, Shape, TypeOK
<1>1. ASSUME NEW w \in Waits, Create(w) PROVE RingInv'
  <2> DEFINE x == [status |-> "active", once |-> w \in OneShots]
  <2>1. x \in WaitRows /\ x.status = "active" /\ Set(w, x) /\ sched[w].status = "absent"
    BY <1>1 DEF Create, WaitRows
  <2> HIDE DEF x
  <2> QED
    BY <2>1, RingsEdit
<1>2. ASSUME NEW w \in Waits, NEW status \in {"active", "paused", "cancelled"},
             Set(w, [sched[w] EXCEPT !.status = status]), sched[w].status # "absent",
             status # "cancelled" => sched[w].status \in {"active", "paused"}
      PROVE  RingInv'
  <2> DEFINE x == [sched[w] EXCEPT !.status = status]
  <2>1. x \in WaitRows /\ x.status = status /\ x.once = sched[w].once /\ Set(w, x)
    BY <1>0, <1>2 DEF WaitRows
  <2> HIDE DEF x
  <2> QED
    BY <1>2, <2>1, RingsEdit
<1>3. ASSUME NEW w \in Waits, ManagerCancel(w) \/ HumanCancel(w) \/ Pause(w) \/ Resume(w)
      PROVE  RingInv'
  BY <1>2, <1>3 DEF ManagerCancel, HumanCancel, Pause, Resume, Active
<1>4. ASSUME NEW w \in Waits, Rearm(w) PROVE RingInv'
  <2> DEFINE x == [sched[w] EXCEPT !.status = "active", !.once = FALSE]
  <2>1. x \in WaitRows /\ x.status = "active" /\ ~x.once /\ Set(w, x)
    BY <1>0, <1>4 DEF WaitRows, Rearm
  <2> HIDE DEF x
  <2> QED
    BY <2>1, RingsEdit
<1>5. ASSUME NEW t \in 1..MaxTurn, Report(t) PROVE RingInv'
  <2>1. CASE turns[t].run # Nil /\ Rearm(runs[turns[t].run].wait)
    <3>1. runs[turns[t].run].wait \in Waits
      BY <1>5, <2>1, TurnFacts DEF Report
    <3> QED
      BY <1>4, <2>1, <3>1
  <2> QED
    BY <1>3, <1>5, <2>1 DEF Report
<1> QED
  BY <1>1, <1>3, <1>5 DEF Edit

LEMMA EndRows ==
    ASSUME IInv, NEW t \in 1..MaxTurn, Conclude(t) \/ Ending(t)
    PROVE  /\ RowsKept /\ DOMAIN turns' = DOMAIN turns /\ DOMAIN runs' = DOMAIN runs
           /\ InFlight' = InFlight \/ InFlight' = InFlight \ {turns[t].run}
<1>1. t \in DOMAIN turns /\ turns[t] \in TurnRows
  BY TurnFacts DEF Conclude, Ending, AutoPause, Release, FinishTurn, CloseRun
<1>2. CASE UNCHANGED <<runs, turns>>
  BY <1>2, RowsUnchanged DEF IInv, InFlight
<1>3. ASSUME NEW x \in TurnRows, x.run = turns[t].run, turns' = [turns EXCEPT ![t] = x], runs' = runs
      PROVE  /\ RowsKept /\ DOMAIN turns' = DOMAIN turns /\ DOMAIN runs' = DOMAIN runs
             /\ InFlight' = InFlight
  BY <1>1, <1>3, TurnUpdated DEF IInv, InFlight
<1>4. CASE Release(t)
  <2> DEFINE x == [turns[t] EXCEPT !.told = TRUE]
  <2>1. x \in TurnRows /\ x.run = turns[t].run
    BY <1>1 DEF TurnRows
  <2>2. turns' = [turns EXCEPT ![t] = x] /\ runs' = runs
    BY <1>1, <1>4 DEF Release, TurnRows
  <2> HIDE DEF x
  <2> QED
    BY <1>3, <2>1, <2>2
<1>5. CASE FinishTurn(t)
  <2> DEFINE x == [turns[t] EXCEPT !.status = "ended"]
  <2>1. x \in TurnRows /\ x.run = turns[t].run
    BY <1>1 DEF TurnRows
  <2>2. turns' = [turns EXCEPT ![t] = x] /\ runs' = runs
    BY <1>1, <1>5 DEF FinishTurn, TurnRows
  <2> HIDE DEF x
  <2> QED
    BY <1>3, <2>1, <2>2
<1>6. CASE CloseRun(t)
  <2>1. turns[t].run \in DOMAIN runs /\ FinishScheduled(turns[t].run) /\ turns' = turns
    BY <1>6, TurnFacts DEF CloseRun
  <2>2. DOMAIN runs' = DOMAIN runs
    BY <2>1 DEF FinishScheduled
  <2> QED
    BY <2>1, <2>2, FinishedScheduled DEF IInv
<1> QED
  BY <1>2, <1>4, <1>5, <1>6 DEF Conclude, Ending, AutoPause

\* A turn concludes and ends.
LEMMA RingsTurn ==
    ASSUME IInv, RingInv, NEW t \in 1..MaxTurn, Conclude(t) \/ Ending(t)
    PROVE  RingInv'
<1>0. /\ at[t] # "idle" /\ hand' = hand /\ \E l \in TurnLabels : Go(t, l)
      /\ Starters \subseteq Actors /\ t \notin Starters /\ t \in Actors /\ 1..MaxTurn \subseteq Actors
      /\ at \in [Actors -> StarterLabels \cup TurnLabels] /\ sched \in [Waits -> WaitRows]
      /\ runs \in Seq(RunRows) /\ turns \in Seq(TurnRows)
  BY ActorAssumption, BoundAssumption
     DEF Actors, Starters, IInv, Shape, TypeOK, Conclude, Ending, AutoPause, Release, FinishTurn,
         CloseRun, TurnLabels
<1>1. \A b \in Actors : b # t => at'[b] = at[b]
  BY <1>0 DEF Go
<1>2. /\ t \in DOMAIN turns /\ turns[t] \in TurnRows
      /\ \A r \in DOMAIN runs : runs[r].wait \in Waits
  BY <1>0, TurnFacts
<1>3. RowsKept /\ DOMAIN turns' = DOMAIN turns /\ DOMAIN runs' = DOMAIN runs
  BY EndRows
<1>4. CASE AutoPause(t)
  <2> DEFINE w == runs[turns[t].run].wait
  <2>1. /\ at[t] = "pause" /\ ~sched[w].once /\ w \in Waits /\ turns[t].run \in DOMAIN runs
    BY <1>4, TurnFacts DEF AutoPause, RingInv, PauseRepeats
  <2>2. /\ \A v \in Waits : v # w => sched'[v] = sched[v]
        /\ ~sched'[w].once /\ sched'[w].status = "paused"
    BY <1>0, <1>4, <2>1 DEF AutoPause, WaitRows
  <2>3. \A v \in Waits : Spent(v) => Spent(v)' /\ (sched'[v].once => sched[v].once)
    BY <2>2 DEF Spent
  <2>4. ASSUME NEW u \in 1..MaxTurn, at'[u] = "pause"
        PROVE  /\ turns[u].run \in DOMAIN runs /\ u \in DOMAIN turns
               /\ ~sched'[runs[turns[u].run].wait].once
    <3>1. u # t
      BY <1>0, <1>4, <2>4 DEF AutoPause, Go
    <3>2. at[u] = "pause"
      BY <1>0, <1>1, <2>4, <3>1
    <3>3. /\ turns[u].run \in DOMAIN runs /\ u \in DOMAIN turns /\ runs[turns[u].run].wait \in Waits
          /\ ~sched[runs[turns[u].run].wait].once
      BY <3>2, TurnFacts DEF RingInv, PauseRepeats
    <3> QED
      BY <2>2, <3>3
  <2> QED
    BY <1>0, <1>1, <1>3, <2>3, <2>4, RingsHeld
<1>5. CASE ~AutoPause(t)
  <2>1. sched' = sched
    BY <1>5 DEF Conclude, Ending, Release, FinishTurn, CloseRun
  <2>2. \A v \in Waits : Spent(v) => Spent(v)' /\ (sched'[v].once => sched[v].once)
    BY <2>1 DEF Spent
  <2>3. ASSUME NEW u \in 1..MaxTurn, at'[u] = "pause"
        PROVE  /\ turns[u].run \in DOMAIN runs /\ u \in DOMAIN turns
               /\ ~sched'[runs[turns[u].run].wait].once
    <3>1. CASE at[u] = "pause"
      BY <2>1, <3>1, TurnFacts DEF RingInv, PauseRepeats
    <3>2. CASE at[u] # "pause"
      <4>1. u = t
        BY <1>0, <1>1, <2>3, <3>2
      <4>2. turns[t].run # Nil /\ ~sched[runs[turns[t].run].wait].once
        BY <1>0, <1>5, <2>3, <4>1 DEF Conclude, Ending, Release, FinishTurn, CloseRun, Go
      <4> QED
        BY <1>0, <2>1, <4>1, <4>2, TurnFacts
    <3> QED
      BY <3>1, <3>2
  <2> QED
    BY <1>0, <1>1, <1>3, <2>2, <2>3, RingsHeld
<1> QED
  BY <1>4, <1>5

\* A process that dies has nothing in hand; what has a turn keeps it.
LEMMA RingsCrash == ASSUME IInv, RingInv, Crash PROVE RingInv'
<1>0. /\ RowsKept /\ DOMAIN runs' = DOMAIN runs /\ DOMAIN turns' = DOMAIN turns
      /\ \A r : HasTurn(r)' <=> HasTurn(r)
  BY CrashRows, TurnsNamed
<1>1. Starters \subseteq Actors /\ 1..MaxTurn \subseteq Actors /\ Starters \cap Nat = {}
  BY ActorAssumption DEF Actors, Starters
<1>2. /\ \A b \in Starters : at'[b] = "idle" /\ hand'[b].runs = {}
      /\ \A t \in 1..MaxTurn : at'[t] \in {"run", "idle"}
      /\ sched' = sched
  <2>1. \A b \in Starters : b \notin Unfinished
    BY <1>1 DEF Unfinished, IInv, Shape, TypeOK
  <2> QED
    BY <1>1, <2>1, EmptyHand DEF Crash
<1>3. \A r : Rings(r)' => Rings(r)
  BY <1>0, <1>2 DEF Rings
<1>4. RingsSpent' /\ RingsAlone'
  BY <1>0, <1>2, <1>3 DEF RingInv, RingsSpent, RingsAlone, Spent, RowsKept
<1>5. OneTurn' /\ HandsApart' /\ PauseRepeats'
  BY <1>0, <1>2 DEF RingInv, OneTurn, HandsApart, PauseRepeats, RowsKept
<1>6. \A b \in Starters : HandRings(b)'
  BY <1>2 DEF HandRings
<1> QED
  BY <1>4, <1>5, <1>6 DEF RingInv

LEMMA RingStep == IInv /\ RingInv /\ [Next]_vars => RingInv'
<1> SUFFICES ASSUME IInv, RingInv, [Next]_vars PROVE RingInv'
  OBVIOUS
<1>1. CASE TickBegin
  <2>1. PICK list \in SUBSET Active : hand' = [hand EXCEPT ![Ticker] = [Empty EXCEPT !.list = list]]
    BY <1>1 DEF TickBegin
  <2> DEFINE h == [Empty EXCEPT !.list = list]
  <2>2. h.runs = {} /\ hand' = [hand EXCEPT ![Ticker] = h] /\ Ticker \in Starters
    BY <2>1 DEF Empty, Starters
  <2> HIDE DEF h
  <2> QED
    BY <1>1, <2>2, RingsBegin DEF TickBegin
<1>2. ASSUME NEW c \in Clients, NEW w \in Waits, RunNow(c, w) PROVE RingInv'
  <2> DEFINE h == [Empty EXCEPT !.list = {w}]
  <2>1. h.runs = {} /\ hand' = [hand EXCEPT ![c] = h] /\ c \in Starters
    BY <1>2 DEF RunNow, Empty, Starters
  <2> HIDE DEF h
  <2> QED
    BY <1>2, <2>1, RingsBegin DEF RunNow
<1>3. ASSUME NEW c \in Clients, NEW th \in Threads, Send(c, th) PROVE RingInv'
  <2> DEFINE h == [Empty EXCEPT !.thread = th]
  <2>1. h.runs = {} /\ hand' = [hand EXCEPT ![c] = h] /\ c \in Starters
    BY <1>3 DEF Send, Empty, Starters
  <2> HIDE DEF h
  <2> QED
    BY <1>3, <2>1, RingsBegin DEF Send
<1>4. ASSUME NEW a \in Starters, Claiming(a) PROVE RingInv'
  BY <1>4, RingsClaiming, RingsInsert, RingsAdvance DEF Claiming
<1>5. ASSUME NEW a \in Starters, Starting(a) PROVE RingInv'
  BY <1>5, RingsStarting, RingsCreate, RingsClaim DEF Starting
<1>6. CASE UNCHANGED vars
  <2>1. /\ UNCHANGED <<sched, runs, turns, at, hand>>
        /\ RowsKept
    BY <1>6, RowsUnchanged DEF vars, IInv
  <2>2. \A w \in Waits : Spent(w) => Spent(w)' /\ (sched'[w].once => sched[w].once)
    BY <2>1 DEF Spent
  <2>3. ASSUME NEW t \in 1..MaxTurn, at'[t] = "pause"
        PROVE  /\ turns[t].run \in DOMAIN runs /\ t \in DOMAIN turns
               /\ ~sched'[runs[turns[t].run].wait].once
    BY <2>1, <2>3, TurnFacts DEF RingInv, PauseRepeats
  <2> QED
    BY <2>1, <2>2, <2>3, RingsHeld
<1> QED
  BY <1>1, <1>2, <1>3, <1>4, <1>5, <1>6, RingsEdits, RingsTurn, RingsCrash DEF Next

LEMMA RingInit == Init => RingInv
<1> SUFFICES ASSUME Init PROVE RingInv
  OBVIOUS
<1>1. /\ \A a \in Starters : at[a] = "idle" /\ hand[a].runs = {}
      /\ \A t \in 1..MaxTurn : at[t] = "idle"
      /\ DOMAIN runs = {} /\ DOMAIN turns = {}
  BY EmptyHand DEF Init, Actors
<1> QED
  BY <1>1 DEF RingInv, HandRings, OneTurn, HandsApart, RingsSpent, RingsAlone, PauseRepeats

\* A one-shot rings once, for any waits, callers, pauses and restarts: its fire is
\* decided when the wait is read again after the claim, and it is done from then on
\* (advanceAfterFire, schedule_tick.go).
THEOREM RingsOnce == Spec => []OneShotRingsOnce
<1>1. IInv /\ RingInv => OneShotRingsOnce
  <2> SUFFICES ASSUME IInv, RingInv, NEW w \in Waits, sched[w].once
               PROVE  Cardinality(Ringing(w)) <= 1
    BY DEF OneShotRingsOnce
  <2>1. \A t \in DOMAIN turns : turns[t].run \in DOMAIN runs \cup {Nil}
    BY DEF IInv, Shape, TurnsSound
  <2>2. ASSUME NEW t \in Ringing(w), NEW u \in Ringing(w) PROVE t = u
    <3>1. /\ t \in DOMAIN turns /\ u \in DOMAIN turns
          /\ turns[t].run \in DOMAIN runs /\ turns[u].run \in DOMAIN runs
          /\ turns[t].run # Nil
          /\ runs[turns[t].run].wait = w /\ runs[turns[u].run].wait = w
      BY <2>1 DEF Ringing
    <3>2. turns[t].run = turns[u].run
      BY <3>1 DEF RingInv, RingsAlone, Rings, HasTurn
    <3> QED
      BY <3>1, <3>2 DEF RingInv, OneTurn
  <2>3. CASE Ringing(w) = {}
    BY <2>3, FS_EmptySet
  <2>4. CASE Ringing(w) # {}
    <3>1. PICK t \in Ringing(w) : Ringing(w) = {t}
      BY <2>2, <2>4
    <3>2. Cardinality({t}) = 1
      BY FS_Singleton
    <3> QED
      BY <3>1, <3>2
  <2> QED
    BY <2>3, <2>4
<1> QED
  BY <1>1, RingInit, RingStep, Invariance, PTL DEF Spec

-----------------------------------------------------------------------------
\* The schedules implement the alarms of module Alarms.

\* What a starter holds is an open fire, or one that has its turn.
HeldOpen == \A a \in Starters : /\ at[a] = "unrun" => HasTurn(hand[a].run)
                                /\ \A r \in hand[a].runs : HasTurn(r) \/ r \in InFlight

LEMMA HasTurnKept ==
    ASSUME RowsKept, NEW r, HasTurn(r)
    PROVE  HasTurn(r)'
BY DEF RowsKept, HasTurn

\* A starter goes on with fewer fires; it may have closed the one it drops or has given a turn.
LEMMA HeldGo ==
    ASSUME IInv, RingInv, HeldOpen, NEW a \in Starters, NEW l, NEW h,
           Go(a, l), hand' = [hand EXCEPT ![a] = h], RowsKept, h.runs \subseteq hand[a].runs,
           l = "unrun" => HasTurn(h.run),
           \/ InFlight \subseteq InFlight'
           \/ /\ InFlight \ {hand[a].run} \subseteq InFlight' /\ hand[a].run \in hand[a].runs
              /\ hand[a].run \notin h.runs \/ HasTurn(hand[a].run)
    PROVE  HeldOpen'
<1>1. /\ at'[a] = l /\ hand'[a] = h
      /\ \A b \in Starters : b # a => at'[b] = at[b] /\ hand'[b] = hand[b]
  BY Placed
<1>2. ASSUME NEW b \in Starters, at'[b] = "unrun" PROVE HasTurn(hand[b].run)'
  <2>1. HasTurn(hand'[b].run)
    BY <1>1, <1>2 DEF HeldOpen
  <2> QED
    BY <2>1 DEF RowsKept, HasTurn
<1>3. ASSUME NEW b \in Starters, NEW r \in hand'[b].runs PROVE HasTurn(r)' \/ r \in InFlight'
  <2>1. r \in hand[b].runs
    BY <1>1, <1>3
  <2>2. HasTurn(r) \/ r \in InFlight
    BY <2>1 DEF HeldOpen
  <2>3. CASE r # hand[a].run \/ InFlight \subseteq InFlight'
    BY <2>2, <2>3, HasTurnKept
  <2>4. CASE r = hand[a].run /\ ~(InFlight \subseteq InFlight')
    <3>1. HasTurn(r) \/ b # a
      BY <1>1, <1>3, <2>4
    <3>2. b = a
      BY <2>1, <2>4 DEF RingInv, HandsApart
    <3> QED
      BY <3>1, <3>2, HasTurnKept
  <2> QED
    BY <2>3, <2>4
<1> QED
  BY <1>2, <1>3 DEF HeldOpen

\* A step that writes no wait, begins no fire and gives none a turn.
Quiet == RowsKept /\ DOMAIN turns' = DOMAIN turns /\ sched' = sched /\ InFlight' \subseteq InFlight

LEMMA QuietRows ==
    ASSUME IInv, UNCHANGED <<sched, runs, turns>>
    PROVE  Quiet /\ InFlight' = InFlight
BY RowsUnchanged DEF Quiet, IInv, InFlight

LEMMA ClaimingQuiet ==
    ASSUME IInv, RingInv, HeldOpen, NEW a \in Starters,
           \/ \E w \in Waits : Row(a, w)
           \/ Skip(a) \/ Drop(a) \/ Unlock(a)
           \/ Advance(a) /\ hand[a].wait \notin Active
           \/ Insert(a) /\ Len(runs) = MaxRun
    PROVE  Quiet /\ HeldOpen'
<1>0. /\ hand \in [Actors -> Hands] /\ a \in Actors /\ at \in [Actors -> StarterLabels \cup TurnLabels]
      /\ hand[a] \in Hands
  BY Starter DEF IInv, Shape, TypeOK
<1>1. ASSUME NEW w \in Waits, Row(a, w) PROVE Quiet /\ HeldOpen'
  <2>1. Quiet /\ InFlight' = InFlight
    BY <1>1, QuietRows DEF Row
  <2>2. PICK l \in {"row", "skip", "insert"} : Go(a, l)
    BY <1>0, <1>1 DEF Row, Go
  <2>3. hand'[a].runs = hand[a].runs /\ hand' = [hand EXCEPT ![a] = hand'[a]]
    BY <1>0, <1>1 DEF Row, Hands
  <2> QED
    BY <2>1, <2>2, <2>3, HeldGo DEF Quiet
<1>2. ASSUME NEW claims \in SUBSET hand[a].runs, NextRow(a, claims), RowsKept,
             \/ InFlight \subseteq InFlight'
             \/ /\ InFlight \ {hand[a].run} \subseteq InFlight' /\ hand[a].run \in hand[a].runs
                /\ hand[a].run \notin claims
      PROVE  HeldOpen'
  <2> DEFINE h == [Empty EXCEPT !.list = hand[a].list, !.runs = claims]
  <2>1. h.runs = claims
    BY DEF Empty
  <2>2. Go(a, "row") /\ hand' = [hand EXCEPT ![a] = h]
    BY <1>2 DEF NextRow
  <2> HIDE DEF h
  <2> QED
    BY <1>2, <2>1, <2>2, HeldGo
<1>3. CASE Skip(a)
  <2>1. RowsKept /\ InFlight' = InFlight
    BY <1>3, SkipRows
  <2> QED
    BY <1>2, <1>3, <2>1 DEF Skip, Quiet
<1>4. CASE Drop(a)
  <2>1. RowsKept /\ InFlight' = InFlight \ {hand[a].run} /\ hand[a].run \in hand[a].runs
    BY <1>4, Starter, FinishedRun DEF Drop, HandFits, IInv
  <2> QED
    BY <1>2, <1>4, <2>1 DEF Drop, Quiet
<1>5. CASE Unlock(a)
  <2> DEFINE l == IF hand[a].runs = {} THEN "idle" ELSE "start"
             h == [Empty EXCEPT !.runs = hand[a].runs]
  <2>1. h.runs = hand[a].runs /\ l # "unrun"
    BY DEF Empty
  <2>2. Go(a, l) /\ hand' = [hand EXCEPT ![a] = h]
    BY <1>5 DEF Unlock, NextFire
  <2>3. Quiet /\ InFlight' = InFlight
    BY <1>5, QuietRows DEF Unlock
  <2> HIDE DEF h, l
  <2> QED
    BY <2>1, <2>2, <2>3, HeldGo DEF Quiet
<1>6. CASE Advance(a) /\ hand[a].wait \notin Active
  <2>1. Go(a, "drop") /\ hand' = [hand EXCEPT ![a] = hand[a]]
    BY <1>0, <1>6 DEF Advance
  <2>2. Quiet /\ InFlight' = InFlight
    BY <1>6, QuietRows DEF Advance
  <2> QED
    BY <2>1, <2>2, HeldGo DEF Quiet
<1>7. CASE Insert(a) /\ Len(runs) = MaxRun
  <2>1. Quiet /\ InFlight' = InFlight
    BY <1>7, QuietRows DEF Insert
  <2> QED
    BY <1>2, <1>7, <2>1 DEF Insert, Quiet
<1> QED
  BY <1>1, <1>3, <1>4, <1>5, <1>6, <1>7

LEMMA StartingQuiet ==
    ASSUME IInv, RingInv, HeldOpen, NEW a \in Starters,
           \/ \E r \in DOMAIN runs : StartNext(a, r)
           \/ StartFail(a) \/ Bind(a) \/ ClaimFail(a) \/ Refuse(a) \/ Unrun(a) \/ FinishStart(a)
    PROVE  Quiet /\ HeldOpen'
<1>0. /\ hand \in [Actors -> Hands] /\ a \in Actors
      /\ hand[a] \in Hands /\ HandFits(at[a], hand[a], runs, turns)
      /\ hand[a].runs \subseteq DOMAIN runs
  BY Starter DEF IInv, Shape, TypeOK, HandFits
<1>1. ASSUME NEW claims \in SUBSET hand[a].runs, NextFire(a, claims), RowsKept,
             \/ InFlight \subseteq InFlight'
             \/ /\ InFlight \ {hand[a].run} \subseteq InFlight' /\ hand[a].run \in hand[a].runs
                /\ hand[a].run \notin claims
      PROVE  HeldOpen'
  <2> DEFINE l == IF claims = {} THEN "idle" ELSE "start"
             h == [Empty EXCEPT !.runs = claims]
  <2>1. h.runs = claims /\ l # "unrun"
    BY DEF Empty
  <2>2. Go(a, l) /\ hand' = [hand EXCEPT ![a] = h]
    BY <1>1 DEF NextFire
  <2> HIDE DEF h, l
  <2> QED
    BY <1>1, <2>1, <2>2, HeldGo
<1>2. ASSUME NEW r \in DOMAIN runs, StartNext(a, r) PROVE Quiet /\ HeldOpen'
  <2>1. PICK l \in {"finish", "create"} : Go(a, l)
    BY <1>2 DEF StartNext
  <2>2. hand'[a].runs = hand[a].runs /\ hand' = [hand EXCEPT ![a] = hand'[a]]
    BY <1>0, <1>2 DEF StartNext, Hands
  <2>3. Quiet /\ InFlight' = InFlight
    BY <1>2, QuietRows DEF StartNext
  <2> QED
    BY <2>1, <2>2, <2>3, HeldGo DEF Quiet
<1>3. CASE StartFail(a)
  <2>1. Quiet /\ InFlight' = InFlight
    BY <1>3, QuietRows DEF StartFail
  <2>2. CASE hand[a].run = Nil
    BY <1>1, <1>3, <2>1, <2>2 DEF StartFail, Return, Quiet
  <2>3. CASE hand[a].run # Nil
    <3>1. Go(a, "finish") /\ hand' = [hand EXCEPT ![a] = hand[a]]
      BY <1>0, <1>3, <2>3 DEF StartFail
    <3> QED
      BY <2>1, <3>1, HeldGo DEF Quiet
  <2> QED
    BY <2>1, <2>2, <2>3
<1>4. CASE Bind(a)
  <2>1. Go(a, "claim") /\ hand' = [hand EXCEPT ![a] = hand[a]]
    BY <1>0, <1>4 DEF Bind
  <2> QED
    BY <1>4, <2>1, BindRows, HeldGo DEF Bind, Quiet
<1>5. CASE ClaimFail(a)
  <2>1. hand'[a].runs = hand[a].runs /\ hand' = [hand EXCEPT ![a] = hand'[a]]
    BY <1>0, <1>5 DEF ClaimFail, Hands
  <2>2. Quiet /\ InFlight' = InFlight /\ Go(a, "refuse")
    BY <1>5, QuietRows DEF ClaimFail
  <2> QED
    BY <2>1, <2>2, HeldGo DEF Quiet
<1>6. CASE Refuse(a)
  <2>1. Quiet /\ InFlight' = InFlight
    BY <1>6, RefuseRows DEF Refuse, Quiet, InFlight
  <2>2. CASE hand[a].run = Nil
    <3>1. NextFire(a, {}) /\ {} \in SUBSET hand[a].runs
      BY <1>6, <2>2 DEF Refuse, Return
    <3> QED
      BY <1>1, <2>1, <3>1 DEF Quiet
  <2>3. CASE hand[a].run # Nil
    <3>1. /\ hand'[a].runs = hand[a].runs /\ hand'[a].run = hand[a].run
          /\ hand' = [hand EXCEPT ![a] = hand'[a]] /\ Go(a, "unrun")
      BY <1>0, <1>6, <2>3 DEF Refuse, Hands
    <3>2. HasTurn(hand[a].run)
      BY <1>0, <1>6 DEF Refuse, HandFits, HasTurn
    <3> QED
      BY <2>1, <3>1, <3>2, HeldGo DEF Quiet
  <2> QED
    BY <2>1, <2>2, <2>3
<1>7. CASE Unrun(a)
  <2>1. /\ RowsKept /\ InFlight' = InFlight \ {hand[a].run}
        /\ hand[a].run \in hand[a].runs /\ HasTurn(hand[a].run)
    BY <1>0, <1>7, FinishedScheduled DEF Unrun, HandFits, IInv, HeldOpen
  <2>2. Go(a, "finish") /\ hand' = [hand EXCEPT ![a] = hand[a]]
    BY <1>0, <1>7 DEF Unrun
  <2> QED
    BY <1>7, <2>1, <2>2, HeldGo DEF Unrun, Quiet
<1>8. CASE FinishStart(a)
  <2>1. RowsKept /\ InFlight' = InFlight \ {hand[a].run} /\ hand[a].run \in hand[a].runs
    BY <1>0, <1>8, FinishedRun DEF FinishStart, HandFits, Hands, IInv
  <2> QED
    BY <1>1, <1>8, <2>1 DEF FinishStart, Quiet
<1> QED
  BY <1>2, <1>3, <1>4, <1>5, <1>6, <1>7, <1>8

LEMMA ClaimQuiet ==
    ASSUME IInv, HeldOpen, NEW a \in Starters, Claim(a)
    PROVE  Quiet /\ HeldOpen'
<1>1. Quiet /\ InFlight' = InFlight
  BY QuietRows DEF Claim
<1>2. /\ hand[a].turn \in Nat /\ Starters \subseteq Actors /\ Starters \cap Nat = {}
      /\ DOMAIN at = Actors /\ DOMAIN hand = Actors
  BY Starter, ActorAssumption DEF Claim, HandFits, IInv, Shape, TypeOK, Actors, Starters
<1>3. /\ \A b \in Starters : at'[b] = "unrun" => at[b] = "unrun" /\ b # a
      /\ \A b \in Starters : hand'[b].runs \subseteq hand[b].runs /\ (b # a => hand'[b] = hand[b])
  BY <1>2 DEF Claim, Empty
<1> QED
  BY <1>1, <1>3, HasTurnKept DEF Quiet, HeldOpen

LEMMA BeginQuiet ==
    ASSUME IInv, RingInv, HeldOpen,
           \/ TickBegin
           \/ \E c \in Clients : (\E w \in Waits : RunNow(c, w)) \/ \E th \in Threads : Send(c, th)
    PROVE  Quiet /\ HeldOpen'
<1>1. Quiet /\ InFlight' = InFlight
  BY QuietRows DEF TickBegin, RunNow, Send
<1>2. PICK a \in Starters, l \in {"row", "create"}, h \in Hands :
          h.runs = {} /\ Go(a, l) /\ hand' = [hand EXCEPT ![a] = h]
  <2>1. CASE TickBegin
    <3>1. PICK list \in SUBSET Active : hand' = [hand EXCEPT ![Ticker] = [Empty EXCEPT !.list = list]]
      BY <2>1 DEF TickBegin
    <3>2. [Empty EXCEPT !.list = list] \in Hands /\ [Empty EXCEPT !.list = list].runs = {}
      BY EmptyHand DEF Active, Hands, Empty
    <3> QED
      BY <2>1, <3>1, <3>2 DEF TickBegin, Starters
  <2>2. ASSUME NEW c \in Clients, NEW w \in Waits, RunNow(c, w)
        PROVE  \E a \in Starters, l \in {"row", "create"}, h \in Hands :
                  h.runs = {} /\ Go(a, l) /\ hand' = [hand EXCEPT ![a] = h]
    <3>1. [Empty EXCEPT !.list = {w}] \in Hands /\ [Empty EXCEPT !.list = {w}].runs = {}
      BY EmptyHand DEF Hands, Empty
    <3> QED
      BY <2>2, <3>1 DEF RunNow, Starters
  <2>3. ASSUME NEW c \in Clients, NEW th \in Threads, Send(c, th)
        PROVE  \E a \in Starters, l \in {"row", "create"}, h \in Hands :
                  h.runs = {} /\ Go(a, l) /\ hand' = [hand EXCEPT ![a] = h]
    <3>1. [Empty EXCEPT !.thread = th] \in Hands /\ [Empty EXCEPT !.thread = th].runs = {}
      BY EmptyHand DEF Hands, Empty
    <3> QED
      BY <2>3, <3>1 DEF Send, Starters
  <2> QED
    BY <2>1, <2>2, <2>3
<1> QED
  BY <1>1, <1>2, HeldGo DEF Quiet

\* The end of a turn closes a fire that has one.
LEMMA EndQuiet ==
    ASSUME IInv, RingInv, HeldOpen, NEW t \in 1..MaxTurn, Conclude(t) \/ Ending(t)
    PROVE  HeldOpen' /\ (~AutoPause(t) => Quiet)
<1>1. /\ RowsKept /\ DOMAIN turns' = DOMAIN turns
      /\ InFlight' = InFlight \/ InFlight' = InFlight \ {turns[t].run}
  BY EndRows
<1>2. ~AutoPause(t) => sched' = sched
  BY DEF Conclude, Ending, Release, FinishTurn, CloseRun
<1>3. HasTurn(turns[t].run)
  BY TurnFacts DEF HasTurn, Conclude, Ending, AutoPause, Release, FinishTurn, CloseRun
<1>4. hand' = hand /\ \A b \in Starters : at'[b] = at[b]
  <2>1. Starters \subseteq Actors /\ t \notin Starters
    BY ActorAssumption, BoundAssumption DEF Actors, Starters
  <2> QED
    BY <2>1 DEF Conclude, Ending, AutoPause, Release, FinishTurn, CloseRun, Go, IInv, Shape, TypeOK
<1>5. HeldOpen'
  BY <1>1, <1>3, <1>4, HasTurnKept DEF HeldOpen
<1> QED
  BY <1>1, <1>2, <1>5 DEF Quiet

LEMMA CrashQuiet ==
    ASSUME IInv, Crash
    PROVE  Quiet /\ HeldOpen'
<1>1. RowsKept /\ DOMAIN runs' = DOMAIN runs /\ DOMAIN turns' = DOMAIN turns
  BY CrashRows
<1>2. InFlight' \subseteq InFlight
  <2>1. \A r \in DOMAIN runs : runs[r] \in RunRows
    BY ElementOfSeq DEF IInv, Shape, TypeOK
  <2>2. \A r \in DOMAIN runs : runs'[r].status \in {runs[r].status, "ended"}
    BY <2>1 DEF Crash, RunRows
  <2> QED
    BY <1>1, <2>2 DEF InFlight
<1>3. \A b \in Starters : at'[b] # "unrun" /\ hand'[b].runs = {}
  BY EmptyHand DEF Crash, Actors
<1>4. sched' = sched
  BY DEF Crash
<1> QED
  BY <1>1, <1>2, <1>3, <1>4 DEF Quiet, HeldOpen

\* The turns of a wait do not change without a new row.
LEMMA SameRinging ==
    ASSUME IInv, RowsKept, DOMAIN turns' = DOMAIN turns, NEW w
    PROVE  Ringing(w)' = Ringing(w)
<1>1. /\ \A t \in DOMAIN turns : turns[t].run \in DOMAIN runs \cup {Nil}
      /\ \A t \in DOMAIN turns : turns'[t].run = turns[t].run
      /\ \A r \in DOMAIN runs : runs'[r].wait = runs[r].wait
  BY DEF IInv, Shape, TurnsSound, RowsKept
<1> QED
  BY <1>1 DEF Ringing

\* A wait that rings exists and is not armed as a one-shot.
LEMMA RungIsSpent ==
    ASSUME IInv, RingInv, NEW w \in Waits, Ringing(w) # {}
    PROVE  Spent(w)
<1>1. PICK t \in DOMAIN turns : turns[t].run # Nil /\ runs[turns[t].run].wait = w
  BY DEF Ringing
<1>2. turns[t].run \in DOMAIN runs
  BY <1>1 DEF IInv, Shape, TurnsSound
<1> QED
  BY <1>1, <1>2 DEF RingInv, RingsSpent, Rings, HasTurn

LEMMA AlarmsClose ==
    ASSUME IInv, Quiet
    PROVE  Clock!Next
<1>1. Active' = Active /\ Rung' = Rung
  BY SameRinging DEF Quiet, Active, Rung
<1>2. Open' \subseteq Open
  BY DEF Quiet, RowsKept, Open, InFlight
<1>3. Open \ Open' \in SUBSET Open /\ Clock!Close(Open \ Open')
  BY <1>1, <1>2 DEF Clock!Close
<1> QED
  BY <1>3 DEF Clock!Next

\* One wait is written: armed within the cap and not as a one-shot that rang, made to
\* repeat, or disarmed.
Written(w, x) ==
    /\ sched' = [sched EXCEPT ![w] = x] /\ UNCHANGED <<runs, turns>>
    /\ x.status = "active" => UnderCap \/ w \in Active
    /\ \/ x.status = "active" /\ ~x.once
       \/ x.status = "active" /\ sched[w].status = "absent"
       \/ /\ x.once = sched[w].once
          /\ x.status = "active" => sched[w].status \in {"active", "paused"}

LEMMA AlarmsWrite ==
    ASSUME IInv, RingInv, NEW w \in Waits, NEW x \in WaitRows, Written(w, x)
    PROVE  Clock!Next \/ UNCHANGED Clock!vars
<1>1. sched \in [Waits -> WaitRows]
  BY DEF IInv, Shape, TypeOK
<1>2. Open' = Open /\ \A v \in Waits : Ringing(v)' = Ringing(v)
  BY DEF Written, Open, InFlight, Ringing
<1>3. Active' = IF x.status = "active" THEN Active \cup {w} ELSE Active \ {w}
  BY <1>1 DEF Written, Active
<1>4. Rung' = IF x.once /\ Ringing(w) # {} THEN Rung \cup {w} ELSE Rung \ {w}
  BY <1>1, <1>2 DEF Written, Rung
<1>5. w \in Rung => sched[w].status \in {"done", "cancelled"} /\ sched[w].once /\ Ringing(w) # {}
  BY RungIsSpent DEF Rung, Spent
<1>6. x.status = "active" => Clock!Room(w)
  <2>1. Clock!Cardinality(Active) = Cardinality(Active)
    BY DEF Clock!Cardinality, Cardinality
  <2> QED
    BY <2>1 DEF Written, UnderCap, Clock!Room
<1>7. CASE x.status = "active" /\ ~x.once
  <2>1. Clock!Rearm(w)
    BY <1>2, <1>3, <1>4, <1>6, <1>7 DEF Clock!Rearm
  <2> QED
    BY <2>1 DEF Clock!Next
<1>8. CASE x.status = "active" /\ x.once
  <2>1. w \notin Rung
    BY <1>5, <1>8 DEF Written
  <2>2. Ringing(w) = {}
    BY <1>8, <2>1, RungIsSpent DEF Written, Rung, Spent
  <2>3. Clock!Arm(w)
    BY <1>2, <1>3, <1>4, <1>6, <1>8, <2>1, <2>2 DEF Clock!Arm
  <2> QED
    BY <2>3 DEF Clock!Next
<1>9. CASE x.status # "active"
  <2>1. Rung' = Rung
    BY <1>4, <1>9 DEF Written, Rung
  <2>2. CASE w \in Active
    <3>1. Clock!Disarm(w)
      BY <1>2, <1>3, <1>9, <2>1, <2>2 DEF Clock!Disarm
    <3> QED
      BY <3>1 DEF Clock!Next
  <2>3. CASE w \notin Active
    BY <1>2, <1>3, <1>9, <2>1, <2>3 DEF Clock!vars
  <2> QED
    BY <2>2, <2>3
<1> QED
  BY <1>7, <1>8, <1>9

\* Clients, managers, the ticker after a claim and a failed turn write waits.
LEMMA WritesWait ==
    ASSUME IInv, RingInv,
           \/ \E w \in Waits : Edit(w)
           \/ \E t \in 1..MaxTurn : Report(t) \/ AutoPause(t)
           \/ \E a \in Starters : Advance(a) /\ hand[a].wait \in Active
    PROVE  \E w \in Waits, x \in WaitRows : Written(w, x)
<1>0. sched \in [Waits -> WaitRows]
  BY DEF IInv, Shape, TypeOK
<1>1. ASSUME NEW w \in Waits, Create(w) PROVE \E x \in WaitRows : Written(w, x)
  <2> DEFINE x == [status |-> "active", once |-> w \in OneShots]
  <2>1. x \in WaitRows /\ x.status = "active"
    BY DEF WaitRows
  <2>2. sched[w].status = "absent" /\ UnderCap /\ Set(w, x)
    BY <1>1 DEF Create
  <2> HIDE DEF x
  <2> QED
    BY <2>1, <2>2 DEF Written, Set
<1>2. ASSUME NEW w \in Waits, NEW status \in {"active", "paused", "cancelled", "done"},
             sched' = [sched EXCEPT ![w] = [sched[w] EXCEPT !.status = status]],
             UNCHANGED <<runs, turns>>,
             status = "active" => /\ UnderCap \/ w \in Active
                                  /\ sched[w].status \in {"active", "paused"}
      PROVE  \E x \in WaitRows : Written(w, x)
  <2> DEFINE x == [sched[w] EXCEPT !.status = status]
  <2>1. x \in WaitRows /\ x.status = status /\ x.once = sched[w].once
    BY <1>0 DEF WaitRows
  <2>2. sched' = [sched EXCEPT ![w] = x]
    BY <1>2
  <2> HIDE DEF x
  <2> QED
    BY <1>2, <2>1, <2>2 DEF Written
<1>3. ASSUME NEW w \in Waits, ManagerCancel(w) \/ HumanCancel(w) \/ Pause(w) \/ Resume(w)
      PROVE  \E x \in WaitRows : Written(w, x)
  BY <1>2, <1>3 DEF ManagerCancel, HumanCancel, Pause, Resume, Set
<1>4. ASSUME NEW w \in Waits, Rearm(w) PROVE \E x \in WaitRows : Written(w, x)
  <2> DEFINE x == [sched[w] EXCEPT !.status = "active", !.once = FALSE]
  <2>1. x \in WaitRows /\ x.status = "active" /\ ~x.once
    BY <1>0 DEF WaitRows
  <2>2. (UnderCap \/ w \in Active) /\ Set(w, x)
    BY <1>4 DEF Rearm
  <2> HIDE DEF x
  <2> QED
    BY <2>1, <2>2 DEF Written, Set
<1>5. ASSUME NEW t \in 1..MaxTurn, Report(t) PROVE \E w \in Waits, x \in WaitRows : Written(w, x)
  <2>1. CASE turns[t].run # Nil /\ Rearm(runs[turns[t].run].wait)
    <3>1. runs[turns[t].run].wait \in Waits
      BY <1>5, <2>1, TurnFacts DEF Report
    <3> QED
      BY <1>4, <2>1, <3>1
  <2> QED
    BY <1>3, <1>5, <2>1 DEF Report
<1>6. ASSUME NEW t \in 1..MaxTurn, AutoPause(t) PROVE \E w \in Waits, x \in WaitRows : Written(w, x)
  <2>1. runs[turns[t].run].wait \in Waits
    BY <1>6, TurnFacts DEF AutoPause
  <2> QED
    BY <1>2, <1>6, <2>1 DEF AutoPause
<1>7. ASSUME NEW a \in Starters, Advance(a), hand[a].wait \in Active
      PROVE  \E w \in Waits, x \in WaitRows : Written(w, x)
  <2>1. PICK w \in Waits : w = hand[a].wait /\ sched[w].status = "active" /\ w \in Active
    BY <1>7 DEF Active
  <2>2. PICK status \in {"active", "done"} :
            sched' = [sched EXCEPT ![w] = [sched[w] EXCEPT !.status = status]]
    BY <1>7, <2>1 DEF Advance
  <2> QED
    BY <1>2, <1>7, <2>1, <2>2 DEF Advance
<1> QED
  BY <1>1, <1>3, <1>5, <1>6, <1>7 DEF Edit

\* A write of a wait closes no fire and takes none from a starter.
LEMMA HeldWritten ==
    ASSUME IInv, RingInv, HeldOpen,
           \/ \E w \in Waits : Edit(w)
           \/ \E t \in 1..MaxTurn : Report(t)
           \/ \E a \in Starters : Advance(a) /\ hand[a].wait \in Active
    PROVE  HeldOpen'
<1>1. ASSUME UNCHANGED <<runs, turns, at, hand>> PROVE HeldOpen'
  BY <1>1 DEF HeldOpen, HasTurn, InFlight
<1>2. ASSUME NEW a \in Starters, Advance(a), hand[a].wait \in Active PROVE HeldOpen'
  <2> DEFINE h == [Empty EXCEPT !.list = hand[a].list, !.runs = hand[a].runs]
  <2>1. h.runs = hand[a].runs
    BY DEF Empty
  <2>2. Go(a, "row") /\ hand' = [hand EXCEPT ![a] = h]
    BY <1>2 DEF Advance, NextRow
  <2>3. RowsKept /\ InFlight' = InFlight
    BY <1>2, RowsUnchanged DEF Advance, IInv, InFlight
  <2> HIDE DEF h
  <2> QED
    BY <2>1, <2>2, <2>3, HeldGo
<1> QED
  BY <1>1, <1>2 DEF Edit, Create, HumanCancel, Pause, Resume, Report, ManagerCancel, Rearm, Set

\* The claim opens a fire of a wait that has none (HasRunningRun, under fireMu).
LEMMA AlarmsFire ==
    ASSUME IInv, HeldOpen, NEW a \in Starters, Insert(a), Len(runs) # MaxRun
    PROVE  Clock!Next /\ HeldOpen'
<1> DEFINE w == hand[a].wait
           x == [wait |-> w, status |-> "running", turn |-> Nil]
           r == Len(runs) + 1
           h == [hand[a] EXCEPT !.run = r, !.runs = @ \cup {r}]
<1>0. /\ HandFits("insert", hand[a], runs, turns) /\ hand[a] \in Hands /\ w \in Waits
      /\ Len(runs) \in Nat /\ Len(runs) <= MaxRun /\ ~Claimed(w) /\ at[a] = "insert"
  BY Starter DEF Insert, IInv, Shape, TypeOK, FreshClaim, HandFits
<1>1. x \in RunRows /\ x.wait = w /\ x.status = "running"
  BY <1>0 DEF RunRows
<1>2. /\ runs' = Append(runs, x) /\ Go(a, "advance") /\ hand' = [hand EXCEPT ![a] = h]
      /\ UNCHANGED <<sched, turns>> /\ Len(runs) < MaxRun
  <2>1. /\ runs' = Append(runs, x) /\ Go(a, "advance") /\ hand' = [hand EXCEPT ![a] = h]
        /\ UNCHANGED <<sched, turns>>
    BY DEF Insert
  <2>2. Len(runs) < MaxRun
    BY <1>0, BoundAssumption
  <2> QED
    BY <2>1, <2>2
<1>3. h.runs = hand[a].runs \cup {r}
  BY <1>0 DEF Hands
<1> HIDE DEF x
<1>4. /\ RowsKept /\ DOMAIN runs' = DOMAIN runs \cup {r} /\ runs'[r] = x
      /\ r \in 1..MaxRun /\ r \notin DOMAIN runs
      /\ \A s \in DOMAIN runs : runs'[s] = runs[s]
  BY <1>1, <1>2, RunAdded DEF IInv
<1> HIDE DEF r, h, w
<1>5. InFlight' = InFlight \cup {r} /\ InFlight \subseteq DOMAIN runs
  BY <1>1, <1>4 DEF InFlight
<1>6. Open' = Open \cup {[fire |-> r, wait |-> w]}
  BY <1>1, <1>4, <1>5 DEF Open
<1>7. \A g \in Open : g.fire # r /\ g.wait # w
  BY <1>0, <1>4, <1>5 DEF Open, Claimed
<1>8. Active' = Active /\ Rung' = Rung
  BY <1>2, <1>4, SameRinging DEF Active, Rung
<1>9. Clock!Fire(r, w)
  BY <1>6, <1>7, <1>8 DEF Clock!Fire
<1>10. /\ at'[a] = "advance" /\ hand'[a] = h
       /\ \A b \in Starters : b # a => at'[b] = at[b] /\ hand'[b] = hand[b]
  BY <1>2, Placed
<1>11. HeldOpen'
  BY <1>2, <1>3, <1>4, <1>5, <1>10 DEF HeldOpen, HasTurn
<1> QED
  BY <1>0, <1>4, <1>9, <1>11 DEF Clock!Next

\* The row of a turn that names its fire is the ring.
LEMMA AlarmsRing ==
    ASSUME IInv, RingInv, HeldOpen, NEW a \in Starters, StartCreate(a)
    PROVE  (Clock!Next \/ UNCHANGED Clock!vars) /\ HeldOpen'
<1> DEFINE r == hand[a].run
           x == [run |-> r, thread |-> hand[a].thread, status |-> "running", told |-> FALSE]
           n == Len(turns) + 1
           h == [hand[a] EXCEPT !.turn = n]
<1>0. /\ hand[a] \in Hands /\ HandFits("create", hand[a], runs, turns) /\ at[a] = "create"
      /\ turns \in Seq(TurnRows) /\ Len(turns) \in Nat /\ DOMAIN turns = 1..Len(turns)
      /\ Nil \notin DOMAIN runs /\ r \in DOMAIN runs \cup {Nil}
  BY Starter, NilAssumption DEF StartCreate, IInv, Shape, TypeOK, HandFits
<1>1. x \in TurnRows /\ x.run = r
  BY <1>0 DEF TurnRows, Hands
<1>2. turns' = Append(turns, x) /\ hand' = [hand EXCEPT ![a] = h] /\ UNCHANGED <<sched, runs>>
  BY <1>0 DEF StartCreate, Hands
<1> HIDE DEF x
<1>3. /\ RowsKept /\ DOMAIN turns' = DOMAIN turns \cup {n} /\ turns'[n].run = r
      /\ \A t \in DOMAIN turns : turns'[t] = turns[t]
  <2>1. /\ Len(turns') = n /\ turns' \in Seq(TurnRows)
        /\ \A t \in 1..Len(turns) : turns'[t] = turns[t]
        /\ turns'[n] = x
    BY <1>0, <1>1, <1>2, AppendProperties
  <2>2. DOMAIN turns' = 1..n /\ 1..n = 1..Len(turns) \cup {n}
    BY <1>0, <2>1
  <2>3. RowsKept
    BY <1>0, <1>1, <1>2, TurnAdded DEF StartCreate, IInv
  <2> QED
    BY <1>0, <1>1, <2>1, <2>2, <2>3
<1>4. h.runs = hand[a].runs
  BY <1>0 DEF Hands
<1>5. PICK l \in {"claim", "bind"} : Go(a, l)
  BY DEF StartCreate
<1> HIDE DEF h, n
<1>6. Active' = Active /\ Open' = Open /\ InFlight' = InFlight
  BY <1>2 DEF Active, Open, InFlight
<1>7. HeldOpen'
  BY <1>2, <1>3, <1>4, <1>5, <1>6, HeldGo
<1>8. \A t \in DOMAIN turns : turns[t].run \in DOMAIN runs \cup {Nil}
  BY DEF IInv, Shape, TurnsSound
<1>9. CASE r = Nil
  <2>1. \A v : Ringing(v)' = Ringing(v)
    BY <1>2, <1>3, <1>9 DEF Ringing
  <2> QED
    BY <1>2, <1>6, <1>7, <2>1 DEF Rung, Clock!vars
<1>10. CASE r # Nil
  <2> DEFINE w == runs[r].wait
  <2>1. r \in hand[a].runs /\ r \in DOMAIN runs /\ w \in Waits
    <3>1. r \in hand[a].runs /\ hand[a].runs \subseteq DOMAIN runs
      BY <1>0, <1>10 DEF HandFits
    <3>2. runs \in Seq(RunRows)
      BY DEF IInv, Shape, TypeOK
    <3>3. runs[r] \in RunRows
      BY <3>1, <3>2, ElementOfSeq
    <3> QED
      BY <3>1, <3>3 DEF RunRows
  <2>2. ~HasTurn(r)
    BY <1>0, <2>1 DEF RingInv, HandRings, Naming
  <2>3. Rings(r)
    BY <1>0, <2>1 DEF Rings, Undecided
  <2>4. r \in InFlight
    BY <2>1, <2>2 DEF HeldOpen
  <2>5. \A v : Ringing(v)' = IF v = w THEN Ringing(v) \cup {n} ELSE Ringing(v)
    BY <1>2, <1>3, <1>10 DEF Ringing
  <2>6. CASE ~sched[w].once
    <3>1. Rung' = Rung
      BY <1>2, <2>5, <2>6 DEF Rung
    <3> QED
      BY <1>6, <1>7, <3>1 DEF Clock!vars
  <2>7. CASE sched[w].once
    <3>1. Rung' = Rung \cup {w}
      BY <1>2, <2>1, <2>5, <2>7 DEF Rung
    <3>2. w \notin Active
      BY <2>1, <2>3, <2>7 DEF RingInv, RingsSpent, Spent, Active
    <3>3. ASSUME NEW t \in Ringing(w) PROVE FALSE
      <4>1. t \in DOMAIN turns /\ turns[t].run \in DOMAIN runs /\ runs[turns[t].run].wait = w
        BY <1>8, <3>3 DEF Ringing
      <4>2. HasTurn(turns[t].run) /\ Rings(turns[t].run)
        BY <4>1 DEF HasTurn, Rings
      <4>3. turns[t].run = r
        BY <2>1, <2>3, <2>7, <4>1, <4>2 DEF RingInv, RingsAlone
      <4> QED
        BY <2>2, <4>2, <4>3
    <3>4. w \notin Rung
      BY <3>3 DEF Rung
    <3>5. [fire |-> r, wait |-> w] \in Open
      BY <2>4 DEF Open
    <3>6. \E f \in Open : f.wait = w
      BY <3>5
    <3>7. Clock!Ring(w)
      BY <1>6, <3>1, <3>2, <3>4, <3>6 DEF Clock!Ring
    <3> QED
      BY <1>7, <2>1, <3>7 DEF Clock!Next
  <2> QED
    BY <2>6, <2>7
<1> QED
  BY <1>9, <1>10

LEMMA AlarmsStep ==
    ASSUME IInv, RingInv, HeldOpen, [Next]_vars
    PROVE  (Clock!Next \/ UNCHANGED Clock!vars) /\ HeldOpen'
<1>1. ASSUME NEW a \in Starters, Claiming(a)
      PROVE  (Clock!Next \/ UNCHANGED Clock!vars) /\ HeldOpen'
  BY <1>1, ClaimingQuiet, AlarmsClose, AlarmsFire, WritesWait, AlarmsWrite, HeldWritten DEF Claiming
<1>2. ASSUME NEW a \in Starters, Starting(a)
      PROVE  (Clock!Next \/ UNCHANGED Clock!vars) /\ HeldOpen'
  BY <1>2, StartingQuiet, ClaimQuiet, AlarmsClose, AlarmsRing DEF Starting
<1>3. ASSUME NEW t \in 1..MaxTurn, Conclude(t) \/ Ending(t)
      PROVE  (Clock!Next \/ UNCHANGED Clock!vars) /\ HeldOpen'
  BY <1>3, EndQuiet, AlarmsClose, WritesWait, AlarmsWrite
<1>4. CASE UNCHANGED vars
  <2>1. Quiet
    BY <1>4, QuietRows DEF vars
  <2>2. HeldOpen'
    BY <1>4 DEF vars, HeldOpen, HasTurn, InFlight
  <2> QED
    BY <2>1, <2>2, AlarmsClose
<1> QED
  BY <1>1, <1>2, <1>3, <1>4, BeginQuiet, CrashQuiet, AlarmsClose, WritesWait, AlarmsWrite, HeldWritten
     DEF Next

\* The schedules are the alarms of module Alarms, for any waits, callers, pauses, busy
\* conversations and restarts: arming keeps to the cap, a wait has one open fire, a turn is
\* started only for an open fire, and a one-shot is spent before its one turn begins.
THEOREM AlarmsRefined == Spec => ImplementsAlarms
<1>1. Init => Clock!Init /\ HeldOpen
  <2> SUFFICES ASSUME Init PROVE Clock!Init /\ HeldOpen
    OBVIOUS
  <2>1. DOMAIN runs = {} /\ DOMAIN turns = {} /\ \A w \in Waits : sched[w] = Absent
    BY DEF Init
  <2>2. Active = {} /\ Open = {} /\ Rung = {}
    BY <2>1 DEF Active, Absent, Open, InFlight, Rung
  <2>3. HeldOpen
    BY EmptyHand DEF Init, HeldOpen, Actors
  <2> QED
    BY <2>2, <2>3 DEF Clock!Init
<1>2. IInv /\ RingInv /\ HeldOpen /\ [Next]_vars => [Clock!Next]_(Clock!vars) /\ HeldOpen'
  BY AlarmsStep
<1> QED
  BY <1>1, <1>2, InitInv, StepInv, RingInit, RingStep, PTL DEF Spec, ImplementsAlarms, Clock!Spec

-----------------------------------------------------------------------------
\* Only a crash leaves a fire without an owner.

\* What a process that has not died yet has left behind.
NoneLost == lost = {}

\* While the process lives, every running fire is in the hand of the goroutine that claimed
\* it or has a turn that will close it: what turn.go:748 takes for granted is right up to
\* the first restart, and finishing those fires in the recovery would make it right at all.
THEOREM OwnedWithoutCrash == MaxCrash = 0 => (Spec => []RunningRunHasOwner)
<1> SUFFICES ASSUME MaxCrash = 0 PROVE Spec => []RunningRunHasOwner
  OBVIOUS
<1>1. Init => NoneLost
  BY DEF Init, NoneLost
<1>2. IInv /\ NoneLost /\ [Next]_vars => NoneLost'
  <2> SUFFICES ASSUME IInv, lost = {}, [Next]_vars PROVE lost' = {}
    BY DEF NoneLost
  <2>1. ~Crash
    BY DEF Crash, IInv, Shape, TypeOK
  <2>2. \A a \in Starters : Claiming(a) => lost' = lost
    BY DEF Claiming, Row, Insert, Skip, Advance, Drop, Unlock
  <2>3. \A a \in Starters : Starting(a) => lost' = lost
    BY DEF Starting, StartNext, StartFail, StartCreate, Bind, Claim, ClaimFail, Refuse, Unrun,
           FinishStart
  <2>4. \A t \in 1..MaxTurn : Report(t) \/ Conclude(t) \/ Ending(t) => lost' = lost
    BY DEF Report, Rearm, ManagerCancel, Set, Conclude, Ending, AutoPause, Release, FinishTurn, CloseRun
  <2>5. \A w \in Waits : Edit(w) => lost' = lost
    BY DEF Edit, Create, HumanCancel, Pause, Resume, Set
  <2> QED
    BY <2>1, <2>2, <2>3, <2>4, <2>5 DEF Next, TickBegin, RunNow, Send, vars
<1>3. IInv /\ NoneLost => RunningRunHasOwner
  BY DEF NoneLost, IInv, ClaimOwned, RunningRunHasOwner
<1> QED
  BY <1>1, <1>2, <1>3, InitInv, StepInv, PTL DEF Spec
=============================================================================
