------------------------ MODULE WorkerRegistryProofs ------------------------
(***************************************************************************)
(* The registry for any callers, ids, roles, handles and limits.           *)
(***************************************************************************)
EXTENDS WorkerRegistry, SequenceTheorems, FiniteSetTheorems, TLAPS

\* Evicting from the archive leaves a sequence of what was in it.
LEMMA KeptIsSequence ==
    ASSUME NEW S, NEW ids \in Seq(S)
    PROVE  Kept(ids) \in Seq(S)
<1>1. CASE Len(ids) > ArchiveLimit
  <2> DEFINE m == Len(ids) - ArchiveLimit + 1
  <2>1. m \in Int /\ Len(ids) \in Int /\ m >= 1
    BY <1>1, BoundsAssumption
  <2>2. \A i \in m .. Len(ids) : ids[i] \in S
    BY <2>1
  <2>3. SubSeq(ids, m, Len(ids)) \in Seq(S)
    BY <2>1, <2>2, SubSeqProperties
  <2> QED
    BY <1>1, <2>3 DEF Kept
<1>2. CASE ~(Len(ids) > ArchiveLimit)
  BY <1>2 DEF Kept
<1> QED
  BY <1>1, <1>2

\* A sequence of some elements is one of more of them.
LEMMA SequenceOfMore ==
    ASSUME NEW S, NEW T, S \subseteq T, NEW s \in Seq(S)
    PROVE  s \in Seq(T)
OBVIOUS

\* The checkpoint of a handle that has had a life.
LEMMA CheckpointTyped ==
    ASSUME TypeOK, NEW h \in Handles, LifeSound(h), wk[h].id \in Ids
    PROVE  CheckpointOf(h) \in Checkpoints
<1>1. wk[h] \in WorkerRecords
  BY DEF TypeOK
<1>2. wk[h].gen \in 1..MaxGen
  BY <1>1, BoundsAssumption DEF LifeSound, WorkerRecords
<1> QED
  BY <1>1, <1>2 DEF CheckpointOf, Checkpoints, WorkerRecords

\* Get only returns handles of the id it is asked for.
LEMMA GetSound ==
    ASSUME TypeOK, TablesSound, NEW id \in Ids, Get(id) # Nil
    PROVE  Get(id) \in Handles /\ wk[Get(id)].id = id
BY DEF Get, TypeOK, TablesSound

-----------------------------------------------------------------------------

LEMMA IdleSound == Idle \in Calls /\ CallSound(Idle)
BY BoundsAssumption DEF Idle, Calls, Ops, CallSound

\* A step that touches nothing but the locals of one call.
LEMMA QuietStep ==
    ASSUME IInv, NEW c \in Callers, NEW r \in Calls, CallSound(r), r.op # "start",
           call' = [call EXCEPT ![c] = r],
           roleLock' \in [Roles -> Callers \cup {Nil}],
           UNCHANGED <<wk, registry, snap, streak>>
    PROVE  IInv'
<1> USE DEF IInv, registry
<1>1. TypeOK'
  BY DEF TypeOK
<1>2. CallsSound'
  <2> SUFFICES ASSUME NEW d \in Callers PROVE CallSound(call[d])'
    BY DEF CallsSound
  <2>1. CallSound(call'[d])
    BY DEF CallsSound, TypeOK
  <2> QED
    BY <2>1 DEF CallSound, Ended, Done
<1>3. StartsAlone'
  BY DEF StartsAlone, TypeOK
<1>4. LivesSound'
  BY DEF LivesSound, LifeSound, Done
<1>5. TablesSound'
  BY DEF TablesSound
<1>6. OneLifePerId' /\ CollectedHasEnded'
  BY DEF OneLifePerId, CollectedHasEnded, Done
<1> QED
  BY <1>1, <1>2, <1>3, <1>4, <1>5, <1>6

LEMMA ReturnStep ==
    ASSUME IInv, NEW c \in Callers, Return(c), UNCHANGED <<wk, registry, snap, streak>>
    PROVE  IInv'
<1>1. roleLock' \in [Roles -> Callers \cup {Nil}]
  BY DEF Return, IInv, TypeOK
<1>2. Idle.op # "start" /\ call' = [call EXCEPT ![c] = Idle]
  BY DEF Return, Idle
<1> QED
  BY <1>1, <1>2, IdleSound, QuietStep

LEMMA GotoStep ==
    ASSUME IInv, NEW c \in Callers, NEW r \in Calls, CallSound(r), r.op # "start",
           Goto(c, r), UNCHANGED <<wk, registry, snap, streak>>
    PROVE  IInv'
<1>1. roleLock' \in [Roles -> Callers \cup {Nil}] /\ call' = [call EXCEPT ![c] = r]
  BY DEF Goto, IInv, TypeOK
<1> QED
  BY <1>1, QuietStep

LEMMA ReusableMinted ==
    ASSUME TypeOK, TablesSound, LivesSound, NEW role
    PROVE  Reusable(role) \subseteq minted
<1>1. \A k \in 1..Len(pastIDs) : pastIDs[k] \in minted
  BY DEF TablesSound
<1>2. \A k \in Archived(role) : pastIDs[k] \in minted
  BY <1>1 DEF Archived
<1>3. {pastIDs[k] : k \in {n \in Archived(role) : \A m \in Archived(role) : m <= n}} \subseteq minted
  BY <1>2
<1>4. ASSUME NEW id \in Ids, agents[id] # Nil PROVE id \in minted
  <2>1. agents[id] \in Handles /\ wk[agents[id]].id = id
    BY <1>4 DEF TypeOK, TablesSound
  <2>2. LifeSound(agents[id])
    BY <2>1 DEF LivesSound
  <2> QED
    BY <2>1, <2>2 DEF LifeSound
<1>5. ASSUME NEW id \in Ids, pending[id] # Nil PROVE id \in minted
  <2>1. pending[id] \in Handles /\ wk[pending[id]].id = id
    BY <1>5 DEF TypeOK, TablesSound
  <2>2. LifeSound(pending[id])
    BY <2>1 DEF LivesSound
  <2> QED
    BY <2>1, <2>2 DEF LifeSound
<1>6. FinishedIn(agents, role) \subseteq minted /\ FinishedIn(pending, role) \subseteq minted
  BY <1>4, <1>5 DEF FinishedIn
<1> QED
  BY <1>3, <1>6 DEF Reusable

\* Nothing but the locals of c changes in these steps.
QuietCall(c) ==
    \/ \E role \in Roles : SpawnLock(c, role)
    \/ \E id \in Ids : ResumeCall(c, id) \/ SendCall(c, id) \/ CloseCall(c, id) \/ ObserveCall(c, id)
    \/ \E ids \in SUBSET Ids \ {{}} : WaitCall(c, ids)
    \/ SpawnFindRunning(c) \/ SpawnNoneRunning(c) \/ SpawnSteer(c) \/ SpawnRunningGone(c)
    \/ SpawnReuse(c) \/ SpawnNoneReusable(c) \/ MintRefused(c)
    \/ Recall(c) \/ RecallRefused(c) \/ ClaimRefused(c)
    \/ WaitSnapshot(c) \/ WaitReturn(c) \/ Cleanup(c) \/ CancelReturn(c)
    \/ ObserveEnd(c) \/ ObserveReturn(c) \/ OutOfBounds(c)

LEMMA QuietCallStep ==
    ASSUME IInv, NEW c \in Callers, QuietCall(c)
    PROVE  IInv'
<1> USE DEF registry
<1>0. TypeOK /\ TablesSound /\ LivesSound /\ minted \subseteq Ids /\ call[c] \in Calls /\ CallSound(call[c])
  BY DEF IInv, TypeOK, CallsSound
<1>1. ASSUME NEW role \in Roles, SpawnLock(c, role) PROVE IInv'
  <2> DEFINE r == [Idle EXCEPT !.op = "spawn", !.role = role]
  <2>1. r \in Calls /\ CallSound(r) /\ r.op # "start"
    BY IdleSound DEF Idle, Calls, Ops, CallSound
  <2>2. roleLock' \in [Roles -> Callers \cup {Nil}]
    BY <1>1, <1>0 DEF SpawnLock, TypeOK
  <2> QED
    BY <1>1, <2>1, <2>2, QuietStep DEF SpawnLock
<1>2. ASSUME NEW id \in Ids, ResumeCall(c, id) PROVE IInv'
  <2> DEFINE r == [Idle EXCEPT !.op = "recall", !.id = id]
  <2>0. id \in minted
    BY <1>2 DEF ResumeCall
  <2>1. r \in Calls /\ CallSound(r) /\ r.op # "start"
    BY <2>0, IdleSound DEF Idle, Calls, Ops, CallSound
  <2> QED
    BY <1>2, <2>1, GotoStep DEF ResumeCall
<1>3. ASSUME NEW id \in Ids, SendCall(c, id) PROVE IInv'
  <2> DEFINE r == [Idle EXCEPT !.op = "push", !.h = Get(id)]
  <2>0. Get(id) \in Handles
    BY <1>0, <1>3, GetSound DEF SendCall
  <2>1. r \in Calls /\ CallSound(r) /\ r.op # "start"
    BY <2>0, IdleSound DEF Idle, Calls, Ops, CallSound
  <2> QED
    BY <1>3, <2>1, GotoStep DEF SendCall
<1>4. ASSUME NEW id \in Ids, CloseCall(c, id) PROVE IInv'
  <2> DEFINE h == Get(id)
             r == [Idle EXCEPT !.op = IF Done(h) THEN "closeDone" ELSE "closeLive", !.h = h, !.gen = wk[h].gen]
  <2>1. h \in Handles /\ wk[h].id = id /\ wk[h] \in WorkerRecords
    BY <1>0, <1>4, GetSound DEF CloseCall, TypeOK
  <2>2. wk[h].gen \in 0..MaxGen
    BY <2>1 DEF WorkerRecords
  <2>3. r \in Calls /\ r.op # "start"
    BY <2>1, <2>2, IdleSound DEF Idle, Calls, Ops
  <2>4. CallSound(r)
    BY <2>1, <2>2 DEF CallSound, Ended, Idle
  <2> QED
    BY <1>4, <2>3, <2>4, GotoStep DEF CloseCall
<1>5. ASSUME NEW id \in Ids, ObserveCall(c, id) PROVE IInv'
  <2> DEFINE h == pending[id]
             r == [Idle EXCEPT !.op = "observe", !.id = id, !.h = h, !.gen = wk[h].gen]
  <2>1. h \in Handles /\ wk[h] \in WorkerRecords
    BY <1>0, <1>5 DEF ObserveCall, TypeOK
  <2>2. wk[h].gen \in 0..MaxGen
    BY <2>1 DEF WorkerRecords
  <2>3. r \in Calls /\ CallSound(r) /\ r.op # "start"
    BY <2>1, <2>2, IdleSound DEF Idle, Calls, Ops, CallSound
  <2> QED
    BY <1>5, <2>3, GotoStep DEF ObserveCall
<1>6. ASSUME NEW ids \in SUBSET Ids, WaitCall(c, ids) PROVE IInv'
  <2> DEFINE r == [Idle EXCEPT !.op = "wait", !.todo = ids]
  <2>1. r \in Calls /\ CallSound(r) /\ r.op # "start"
    BY IdleSound DEF Idle, Calls, Ops, CallSound
  <2> QED
    BY <1>6, <2>1, GotoStep DEF WaitCall
<1>7. CASE SpawnFindRunning(c)
  <2>1. PICK h \in Running(call[c].role) : Goto(c, [call[c] EXCEPT !.op = "steer", !.id = wk[h].id])
    BY <1>7 DEF SpawnFindRunning
  <2>2. wk[h].id \in Ids
    BY <2>1 DEF Running, Live
  <2> DEFINE r == [call[c] EXCEPT !.op = "steer", !.id = wk[h].id]
  <2>3. r \in Calls /\ CallSound(r) /\ r.op # "start"
    BY <1>0, <1>7, <2>2 DEF SpawnFindRunning, Calls, Ops, CallSound
  <2> QED
    BY <1>7, <2>1, <2>3, GotoStep DEF SpawnFindRunning
<1>8. CASE SpawnNoneRunning(c)
  <2> DEFINE r == [call[c] EXCEPT !.op = "reuse"]
  <2>1. r \in Calls /\ CallSound(r) /\ r.op # "start"
    BY <1>0, <1>8 DEF SpawnNoneRunning, Calls, Ops, CallSound
  <2> QED
    BY <1>8, <2>1, GotoStep DEF SpawnNoneRunning
<1>9. CASE SpawnSteer(c)
  <2> DEFINE r == [call[c] EXCEPT !.op = "push", !.h = Get(call[c].id)]
  <2>1. call[c].id \in Ids
    BY <1>0, <1>9 DEF SpawnSteer, CallSound
  <2>2. r \in Calls /\ CallSound(r) /\ r.op # "start"
    BY <1>0, <1>9, <2>1, GetSound DEF SpawnSteer, Calls, Ops, CallSound
  <2> QED
    BY <1>9, <2>2, GotoStep DEF SpawnSteer
<1>10. CASE SpawnRunningGone(c)
  <2> DEFINE r == [call[c] EXCEPT !.op = "reuse", !.id = Nil]
  <2>1. r \in Calls /\ CallSound(r) /\ r.op # "start"
    BY <1>0, <1>10 DEF SpawnRunningGone, Calls, Ops, CallSound
  <2> QED
    BY <1>10, <2>1, GotoStep DEF SpawnRunningGone
<1>11. CASE SpawnReuse(c)
  <2>1. PICK id \in Reusable(call[c].role) : Goto(c, [call[c] EXCEPT !.op = "recall", !.id = id])
    BY <1>11 DEF SpawnReuse
  <2> DEFINE r == [call[c] EXCEPT !.op = "recall", !.id = id]
  <2>2. r \in Calls /\ CallSound(r) /\ r.op # "start"
    BY <1>0, <1>11, <2>1, ReusableMinted DEF SpawnReuse, Calls, Ops, CallSound
  <2> QED
    BY <1>11, <2>1, <2>2, GotoStep DEF SpawnReuse
<1>12. CASE SpawnNoneReusable(c)
  <2> DEFINE r == [call[c] EXCEPT !.op = "mint"]
  <2>1. r \in Calls /\ CallSound(r) /\ r.op # "start"
    BY <1>0, <1>12 DEF SpawnNoneReusable, Calls, Ops, CallSound
  <2> QED
    BY <1>12, <2>1, GotoStep DEF SpawnNoneReusable
<1>13. CASE Recall(c)
  <2> DEFINE id == call[c].id
             h == Get(id)
             fromPast == [call[c] EXCEPT !.op = "claim", !.past = past[id]]
             fromHandle == [call[c] EXCEPT !.op = "claim", !.past = CheckpointOf(h)]
  <2>1. id \in Ids /\ id \in minted
    BY <1>0, <1>13 DEF Recall, CallSound
  <2>2. CASE past[id] # Nil /\ Goto(c, fromPast)
    <3>1. past[id] \in Checkpoints
      BY <1>0, <2>1, <2>2 DEF TypeOK
    <3>2. fromPast \in Calls /\ CallSound(fromPast) /\ fromPast.op # "start"
      BY <1>0, <1>13, <2>1, <3>1 DEF Recall, Calls, Ops, CallSound
    <3> QED
      BY <1>13, <2>2, <3>2, GotoStep DEF Recall
  <2>3. CASE h # Nil /\ Goto(c, fromHandle)
    <3>1. h \in Handles /\ wk[h].id \in Ids
      BY <1>0, <2>1, <2>3, GetSound
    <3>2. CheckpointOf(h) \in Checkpoints
      BY <1>0, <3>1, CheckpointTyped DEF IInv, LivesSound
    <3>3. fromHandle \in Calls /\ CallSound(fromHandle) /\ fromHandle.op # "start"
      BY <1>0, <1>13, <2>1, <3>2 DEF Recall, Calls, Ops, CallSound
    <3> QED
      BY <1>13, <2>3, <3>3, GotoStep DEF Recall
  <2> QED
    BY <1>13, <2>2, <2>3 DEF Recall
<1>14. CASE WaitSnapshot(c)
  <2>1. PICK id \in call[c].todo :
            Goto(c, [call[c] EXCEPT !.todo = @ \ {id},
                        !.tokens = IF Get(id) # Nil /\ Done(Get(id)) THEN @ \cup {Token(Get(id))} ELSE @])
    BY <1>14 DEF WaitSnapshot
  <2>2. id \in Ids
    BY <1>0, <1>14, <2>1 DEF WaitSnapshot, CallSound
  <2> DEFINE ended == IF Get(id) # Nil /\ Done(Get(id)) THEN {Token(Get(id))} ELSE {}
             r == [call[c] EXCEPT !.todo = @ \ {id}, !.tokens = call[c].tokens \cup ended]
  <2>3. \A token \in ended : token \in [h : Handles, gen : 0..MaxGen] /\ Ended(token.h, token.gen)
    <3> SUFFICES ASSUME Get(id) # Nil, Done(Get(id)) PROVE Token(Get(id)) \in [h : Handles, gen : 0..MaxGen] /\ Ended(Get(id), wk[Get(id)].gen)
      BY DEF Token
    <3>1. Get(id) \in Handles /\ wk[Get(id)].id \in Ids /\ wk[Get(id)] \in WorkerRecords
      BY <1>0, <2>2, GetSound DEF TypeOK
    <3>2. wk[Get(id)].gen \in 0..MaxGen
      BY <3>1 DEF WorkerRecords
    <3> QED
      BY <3>1, <3>2 DEF Token, Ended
  <2>4. r \in Calls /\ CallSound(r) /\ r.op # "start"
    BY <1>0, <1>14, <2>3 DEF WaitSnapshot, Calls, Ops, CallSound
  <2>5. Goto(c, r)
    <3>1. CASE Get(id) # Nil /\ Done(Get(id))
      BY <2>1, <3>1
    <3>2. CASE ~(Get(id) # Nil /\ Done(Get(id)))
      BY <2>1, <3>2
    <3> QED
      BY <3>1, <3>2
  <2> QED
    BY <1>14, <2>4, <2>5, GotoStep DEF WaitSnapshot
<1>15. CASE Cleanup(c)
  <2> DEFINE r == [Idle EXCEPT !.op = "cancelling", !.todo = Live]
  <2>1. Live \subseteq Handles
    BY DEF Live
  <2>2. r \in Calls /\ CallSound(r) /\ r.op # "start"
    BY <2>1, IdleSound DEF Idle, Calls, Ops, CallSound
  <2> QED
    BY <1>15, <2>2, GotoStep DEF Cleanup
<1>16. CASE ObserveEnd(c)
  <2> DEFINE owed == pending[call[c].id]
             r == [call[c] EXCEPT !.op = "observed", !.tokens = {Token(owed)}]
  <2>1. call[c].id \in Ids
    BY <1>0, <1>16 DEF ObserveEnd, CallSound
  <2>2. CASE owed # Nil /\ Done(owed) /\ Goto(c, r)
    <3>1. owed \in Handles /\ wk[owed].id \in Ids /\ wk[owed] \in WorkerRecords
      BY <1>0, <2>1, <2>2 DEF TypeOK, TablesSound
    <3>2. Token(owed) \in [h : Handles, gen : 0..MaxGen] /\ Ended(owed, wk[owed].gen)
      BY <3>1, <2>2 DEF Token, Ended, WorkerRecords
    <3>3. r \in Calls /\ r.op # "start"
      BY <1>0, <3>2 DEF Calls, Ops
    <3>4. r.op = "observed" /\ \A token \in r.tokens : Ended(token.h, token.gen)
      BY <1>0, <3>2 DEF Calls, Token
    <3>5. CallSound(r)
      BY <3>4 DEF CallSound
    <3> QED
      BY <1>16, <2>2, <3>3, <3>5, GotoStep DEF ObserveEnd
  <2>3. CASE Return(c)
    BY <1>16, <2>3, ReturnStep DEF ObserveEnd
  <2> QED
    BY <1>16, <2>2, <2>3 DEF ObserveEnd
<1>17. CASE MintRefused(c) \/ RecallRefused(c) \/ ClaimRefused(c) \/ WaitReturn(c)
            \/ CancelReturn(c) \/ ObserveReturn(c) \/ OutOfBounds(c)
  BY <1>17, ReturnStep DEF MintRefused, RecallRefused, ClaimRefused, WaitReturn, CancelReturn,
                           ObserveReturn, OutOfBounds
<1> QED
  BY <1>1, <1>2, <1>3, <1>4, <1>5, <1>6, <1>7, <1>8, <1>9, <1>10, <1>11, <1>12, <1>13, <1>14, <1>15,
     <1>16, <1>17 DEF QuietCall

-----------------------------------------------------------------------------
\* Steps that begin no life.

\* What a step may do to the locals of the calls: keep them, while a call about
\* to start keeps its claimed handle, or replace them by sound ones.
CallsMove == \A d \in Callers :
    \/ call'[d] = call[d] /\ (call[d].op = "start" => wk'[call[d].h].phase = "claimed")
    \/ CallSound(call'[d]) /\ call'[d].op # "start"

\* A handle stays in its life, and an ended life stays ended.
Calm(k) == wk'[k].id = wk[k].id /\ wk'[k].gen = wk[k].gen /\ (Done(k) => Done(k)')

LEMMA CallsKept ==
    ASSUME IInv, TypeOK', CallsMove, minted \subseteq minted', \A k \in Handles : Calm(k)
    PROVE  CallsSound' /\ StartsAlone'
<1>0. CallsSound /\ StartsAlone /\ TypeOK
  BY DEF IInv
<1>1. ASSUME NEW h \in Handles, NEW gen, Ended(h, gen) PROVE Ended(h, gen)'
  BY <1>1 DEF Ended, Calm
<1>2. ASSUME NEW d \in Callers PROVE CallSound(call[d])'
  <2>0. call'[d] \in Calls
    BY DEF TypeOK
  <2>1. CASE call'[d] = call[d] /\ (call[d].op = "start" => wk'[call[d].h].phase = "claimed")
    <3>1. CallSound(call[d])
      BY <1>0 DEF CallsSound
    <3>2. \A token \in call'[d].tokens : token.h \in Handles /\ Ended(token.h, token.gen)
      BY <2>0, <2>1, <3>1 DEF CallSound, Calls
    <3>3. \A token \in call'[d].tokens : Ended(token.h, token.gen)'
      BY <3>2 DEF Ended, Calm
    <3>4. call'[d].op = "closeDone" => Ended(call[d].h, call[d].gen)'
      BY <2>1, <3>1 DEF CallSound, Ended, Calm
    <3>5. call'[d].op = "closeLive" => wk'[call'[d].h].id \in Ids
      BY <2>1, <3>1 DEF CallSound, Calm
    <3> QED
      BY <2>1, <3>1, <3>3, <3>4, <3>5 DEF CallSound
  <2>2. CASE CallSound(call'[d]) /\ call'[d].op # "start"
    <3>2. \A token \in call'[d].tokens : token.h \in Handles /\ Ended(token.h, token.gen)
      BY <2>0, <2>2 DEF CallSound, Calls
    <3>3. \A token \in call'[d].tokens : Ended(token.h, token.gen)'
      BY <3>2 DEF Ended, Calm
    <3>4. call'[d].op = "closeDone" => Ended(call[d].h, call[d].gen)'
      BY <2>2 DEF CallSound, Ended, Calm
    <3>5. call'[d].op = "closeLive" => wk'[call'[d].h].id \in Ids
      BY <2>2 DEF CallSound, Calm
    <3> QED
      BY <2>2, <3>3, <3>4, <3>5 DEF CallSound
  <2> QED
    BY <2>1, <2>2 DEF CallsMove
<1>3. StartsAlone'
  BY <1>0 DEF StartsAlone, CallsMove
<1> QED
  BY <1>2, <1>3 DEF CallsSound

\* One handle changes within its life, the tables at most forget an id.
LEMMA WorkerChange ==
    ASSUME IInv, NEW h \in Handles, NEW w \in WorkerRecords,
           wk' = [wk EXCEPT ![h] = w], w.id = wk[h].id, w.gen = wk[h].gen,
           Done(h) => w.phase = "done", w.collected => w.phase = "done",
           w.phase \in {"claimed", "running"} => w.failures < Budget,
           w.phase = "snapped" => snap'[h] \in Checkpoints,
           snap' \in [Handles -> Checkpoints \cup {Nil}],
           \A k \in Handles \ {h} : snap'[k] = snap[k],
           UNCHANGED <<agents, minted, closed>>,
           pending' \in [Ids -> Handles \cup {Nil}],
           \A id \in Ids : pending'[id] \in {pending[id], Nil},
           past' \in [Ids -> Checkpoints \cup {Nil}], pastIDs' \in Seq(minted),
           roleLock' \in [Roles -> Callers \cup {Nil}],
           call' \in [Callers -> Calls], streak' \in [Ids -> Nat], CallsMove
    PROVE  IInv'
<1>0. TypeOK /\ LivesSound /\ TablesSound /\ OneLifePerId /\ CollectedHasEnded
  BY DEF IInv
<1>1. TypeOK'
  BY <1>0, SequenceOfMore DEF TypeOK
<1>2. \A k \in Handles : wk'[k] = IF k = h THEN w ELSE wk[k]
  BY <1>0 DEF TypeOK
<1>3. \A k \in Handles : Calm(k)
  BY <1>2 DEF Calm, Done
<1>4. CallsSound' /\ StartsAlone'
  BY <1>1, <1>3, CallsKept
<1>5. LivesSound'
  <2> SUFFICES ASSUME NEW k \in Handles PROVE LifeSound(k)'
    BY DEF LivesSound
  <2>1. LifeSound(k)
    BY <1>0 DEF LivesSound
  <2> QED
    BY <1>2, <2>1 DEF LifeSound, Done
<1>6. TablesSound'
  BY <1>0, <1>3 DEF TablesSound, TypeOK, Calm
<1>7. OneLifePerId'
  BY <1>0, <1>3 DEF OneLifePerId, Calm
<1>8. CollectedHasEnded'
  BY <1>0, <1>2 DEF CollectedHasEnded, Done
<1> QED
  BY <1>1, <1>4, <1>5, <1>6, <1>7, <1>8 DEF IInv

\* The steps of a worker goroutine, which no call takes part in.
LEMMA WorkerStepKeeps ==
    ASSUME IInv, NEW h \in Handles, WorkerStep(h)
    PROVE  IInv'
<1> USE DEF registry
<1>0. /\ TypeOK /\ TablesSound /\ LifeSound(h) /\ CallsSound /\ wk[h] \in WorkerRecords
      /\ snap[h] \in Checkpoints \cup {Nil} /\ (wk[h].collected => Done(h))
  BY DEF IInv, LivesSound, TypeOK, CollectedHasEnded
<1>1. ASSUME wk[h].phase # "claimed", UNCHANGED call, \A k \in Handles \ {h} : wk'[k] = wk[k]
      PROVE  CallsMove
  BY <1>0, <1>1 DEF CallsSound, CallSound, CallsMove
<1>2. CASE ReadInbox(h)
  <2> DEFINE w == [wk[h] EXCEPT !.inbox = FALSE]
  <2>1. wk' = [wk EXCEPT ![h] = w]
    BY <1>0, <1>2 DEF ReadInbox, TypeOK
  <2>2. /\ w \in WorkerRecords /\ w.id = wk[h].id /\ w.gen = wk[h].gen /\ w.phase = "running"
        /\ w.collected = wk[h].collected /\ w.failures < Budget
    BY <1>0, <1>2 DEF ReadInbox, WorkerRecords, LifeSound
  <2>3. CallsMove
    BY <1>0, <1>1, <1>2, <2>1 DEF ReadInbox, TypeOK
  <2> QED
    BY <1>0, <1>2, <2>1, <2>2, <2>3, WorkerChange DEF TablesSound, ReadInbox, TypeOK, Done
<1>3. ASSUME NEW timedOut \in BOOLEAN, Complete(h, timedOut) PROVE IInv'
  <2> DEFINE count == IF timedOut THEN wk[h].failures + 1 ELSE 0
             w == [wk[h] EXCEPT !.phase = "completed", !.failures = count]
  <2>1. wk' = [wk EXCEPT ![h] = w]
    <3>1. CASE timedOut
      BY <1>3, <3>1 DEF Complete
    <3>2. CASE ~timedOut
      BY <1>3, <3>2 DEF Complete
    <3> QED
      BY <3>1, <3>2
  <2>2. wk[h].failures \in 0..Budget /\ wk[h].failures < Budget /\ wk[h].id \in Ids
    BY <1>0, <1>3 DEF Complete, LifeSound, WorkerRecords, Done
  <2>3. wk[h].failures + 1 \in 0..Budget /\ 0 \in 0..Budget
    BY <2>2, BoundsAssumption
  <2>4. /\ w \in WorkerRecords /\ w.id = wk[h].id /\ w.gen = wk[h].gen /\ w.phase = "completed"
        /\ w.collected = wk[h].collected
    BY <1>0, <2>3 DEF WorkerRecords, Phases
  <2>5. CallsMove
    BY <1>0, <1>1, <1>3, <2>1 DEF Complete, TypeOK
  <2>6. streak' \in [Ids -> Nat]
    <3>1. streak \in [Ids -> Nat]
      BY <1>0 DEF TypeOK
    <3>2. \E n \in Nat : streak' = [streak EXCEPT ![wk[h].id] = n]
      <4>1. streak[wk[h].id] + 1 \in Nat
        BY <2>2, <3>1
      <4>2. CASE timedOut
        BY <1>3, <4>1, <4>2 DEF Complete
      <4>3. CASE ~timedOut
        BY <1>3, <4>3 DEF Complete
      <4> QED
        BY <4>2, <4>3
    <3> QED
      BY <3>1, <3>2
  <2> QED
    BY <1>0, <1>3, <2>1, <2>4, <2>5, <2>6, WorkerChange DEF TablesSound, Complete, TypeOK, Done
<1>4. CASE Drain(h)
  <2> DEFINE w == [wk[h] EXCEPT !.phase = "drained", !.inbox = FALSE, !.undelivered = wk[h].inbox]
  <2>1. wk' = [wk EXCEPT ![h] = w]
    BY <1>0, <1>4 DEF Drain, TypeOK
  <2>2. /\ w \in WorkerRecords /\ w.id = wk[h].id /\ w.gen = wk[h].gen /\ w.phase = "drained"
        /\ w.collected = wk[h].collected
    BY <1>0 DEF WorkerRecords, Phases
  <2>3. CallsMove
    BY <1>0, <1>1, <1>4, <2>1 DEF Drain, TypeOK
  <2> QED
    BY <1>0, <1>4, <2>1, <2>2, <2>3, WorkerChange DEF TablesSound, Drain, TypeOK, Done
<1>5. CASE Snap(h)
  <2> DEFINE w == [wk[h] EXCEPT !.phase = "snapped"]
  <2>1. wk' = [wk EXCEPT ![h] = w]
    BY <1>0, <1>5 DEF Snap, TypeOK
  <2>2. /\ w \in WorkerRecords /\ w.id = wk[h].id /\ w.gen = wk[h].gen /\ w.phase = "snapped"
        /\ w.collected = wk[h].collected
    BY <1>0 DEF WorkerRecords, Phases
  <2>3. CallsMove
    BY <1>0, <1>1, <1>5, <2>1 DEF Snap, TypeOK
  <2>4. CheckpointOf(h) \in Checkpoints
    BY <1>0, <1>5, CheckpointTyped DEF Snap, LifeSound, Done
  <2>5. /\ snap' \in [Handles -> Checkpoints \cup {Nil}] /\ snap'[h] \in Checkpoints
        /\ \A k \in Handles \ {h} : snap'[k] = snap[k]
    BY <1>0, <1>5, <2>4 DEF Snap, TypeOK
  <2> QED
    BY <1>0, <1>5, <2>1, <2>2, <2>3, <2>5, WorkerChange DEF TablesSound, Snap, TypeOK, Done
<1>6. CASE Remember(h)
  <2> DEFINE w == [wk[h] EXCEPT !.phase = "archived"]
             id == wk[h].id
             ids == IF past[id] = Nil THEN Append(pastIDs, id) ELSE pastIDs
             kept == {Kept(ids)[k] : k \in DOMAIN Kept(ids)}
  <2>1. wk' = [wk EXCEPT ![h] = w]
    BY <1>0, <1>6 DEF Remember, TypeOK
  <2>2. /\ w \in WorkerRecords /\ w.id = wk[h].id /\ w.gen = wk[h].gen /\ w.phase = "archived"
        /\ w.collected = wk[h].collected
    BY <1>0 DEF WorkerRecords, Phases
  <2>3. CallsMove
    BY <1>0, <1>1, <1>6, <2>1 DEF Remember, TypeOK
  <2>4. snap[h] \in Checkpoints /\ id \in Ids /\ id \in minted
    BY <1>0, <1>6 DEF Remember, LifeSound, Done
  <2>5. snap' \in [Handles -> Checkpoints \cup {Nil}] /\ \A k \in Handles \ {h} : snap'[k] = snap[k]
    BY <1>0, <1>6 DEF Remember, TypeOK
  <2>6. ids \in Seq(minted)
    BY <1>0, <2>4 DEF TablesSound
  <2>7. Kept(ids) \in Seq(minted)
    BY <2>6, KeptIsSequence
  <2>8. pastIDs' \in Seq(minted) /\ past' \in [Ids -> Checkpoints \cup {Nil}]
    <3>1. CASE closed
      BY <1>0, <1>6, <3>1 DEF Remember, TypeOK, TablesSound
    <3>2. CASE ~closed
      <4>1. /\ pastIDs' = Kept(ids)
            /\ past' = [i \in Ids |-> IF i \notin kept THEN Nil ELSE IF i = id THEN snap[h] ELSE past[i]]
        BY <1>6, <3>2 DEF Remember
      <4>2. \A i \in Ids : past[i] \in Checkpoints \cup {Nil}
        BY <1>0 DEF TypeOK
      <4> HIDE DEF kept, ids
      <4> QED
        BY <2>4, <2>7, <4>1, <4>2
    <3> QED
      BY <3>1, <3>2
  <2> HIDE DEF ids, kept
  <2> QED
    BY <1>0, <1>6, <2>1, <2>2, <2>3, <2>5, <2>8, WorkerChange DEF TablesSound, Remember, TypeOK, Done
<1>7. CASE CloseDone(h)
  <2> DEFINE w == [wk[h] EXCEPT !.phase = "done"]
  <2>1. wk' = [wk EXCEPT ![h] = w]
    BY <1>0, <1>7 DEF CloseDone, TypeOK
  <2>2. /\ w \in WorkerRecords /\ w.id = wk[h].id /\ w.gen = wk[h].gen /\ w.phase = "done"
        /\ w.collected = wk[h].collected
    BY <1>0 DEF WorkerRecords, Phases
  <2>3. CallsMove
    BY <1>0, <1>1, <1>7, <2>1 DEF CloseDone, TypeOK
  <2> QED
    BY <1>0, <1>7, <2>1, <2>2, <2>3, WorkerChange DEF TablesSound, CloseDone, TypeOK, Done
<1> QED
  BY <1>2, <1>3, <1>4, <1>5, <1>6, <1>7 DEF WorkerStep, Ending

\* The steps of a call that change one handle: start, steer, settle, cancel.
LEMMA HandleCallStep ==
    ASSUME IInv, NEW c \in Callers,
           Start(c) \/ Push(c) \/ CloseCancel(c) \/ CancelNext(c)
    PROVE  IInv'
<1> USE DEF registry
<1>0. /\ TypeOK /\ TablesSound /\ CallsSound /\ StartsAlone /\ LivesSound /\ CollectedHasEnded
      /\ call[c] \in Calls /\ CallSound(call[c])
  BY DEF IInv, TypeOK, CallsSound
<1>1. ASSUME NEW h \in Handles, NEW w \in WorkerRecords, NEW r \in Calls,
             wk' = [wk EXCEPT ![h] = w], w.phase = wk[h].phase,
             call' = [call EXCEPT ![c] = r], CallSound(r), r.op # "start"
      PROVE  CallsMove
  <2>1. ASSUME NEW d \in Callers \ {c}, call[d].op = "start"
        PROVE  call'[d] = call[d] /\ wk'[call[d].h].phase = "claimed"
    BY <1>0, <1>1, <2>1 DEF TypeOK, CallsSound, CallSound
  <2>2. call'[c] = r
    BY <1>0, <1>1 DEF TypeOK
  <2>3. \A d \in Callers \ {c} : call'[d] = call[d]
    BY <1>0, <1>1 DEF TypeOK
  <2> QED
    BY <1>1, <2>1, <2>2, <2>3 DEF CallsMove
<1>2. CASE Start(c)
  <2> DEFINE h == call[c].h
             w == [wk[h] EXCEPT !.phase = "running", !.cancelled = wk[h].closeRequested]
  <2>0. h \in Handles /\ wk[h].phase = "claimed" /\ wk[h] \in WorkerRecords /\ LifeSound(h)
    BY <1>0, <1>2 DEF Start, CallSound, TypeOK, LivesSound
  <2>1. wk' = [wk EXCEPT ![h] = w]
    BY <1>2 DEF Start
  <2>2. /\ w \in WorkerRecords /\ w.id = wk[h].id /\ w.gen = wk[h].gen /\ w.phase = "running"
        /\ w.collected = wk[h].collected /\ w.failures < Budget
    BY <2>0 DEF WorkerRecords, Phases, LifeSound
  <2>3. call' \in [Callers -> Calls] /\ roleLock' \in [Roles -> Callers \cup {Nil}]
    BY <1>0, <1>2, IdleSound DEF Start, Return, TypeOK
  <2>4. CallsMove
    <3>1. \A d \in Callers \ {c} : call[d].op = "start" => call[d].h # h
      BY <1>0, <1>2 DEF StartsAlone, Start
    <3>2. ASSUME NEW d \in Callers \ {c}, call[d].op = "start"
          PROVE  call'[d] = call[d] /\ wk'[call[d].h].phase = "claimed"
      BY <1>0, <1>2, <2>0, <2>1, <3>1, <3>2 DEF Start, Return, TypeOK, CallsSound, CallSound
    <3>3. call'[c] = Idle /\ \A d \in Callers \ {c} : call'[d] = call[d]
      BY <1>0, <1>2 DEF Start, Return, TypeOK
    <3> QED
      BY <3>2, <3>3, IdleSound DEF CallsMove, Idle
  <2>5. ~Done(h) /\ ~wk[h].collected
    BY <1>0, <2>0 DEF Done, CollectedHasEnded
  <2> HIDE DEF h, w
  <2> QED
    BY <1>0, <1>2, <2>0, <2>1, <2>2, <2>3, <2>4, <2>5, WorkerChange DEF TablesSound, Start, TypeOK
<1>3. CASE Push(c)
  <2> DEFINE h == call[c].h
             w == [wk[h] EXCEPT !.inbox = TRUE]
  <2>0. h \in Handles /\ wk[h] \in WorkerRecords /\ LifeSound(h) /\ (wk[h].collected => Done(h))
    BY <1>0, <1>3 DEF Push, CallSound, TypeOK, LivesSound, CollectedHasEnded
  <2>1. wk' = [wk EXCEPT ![h] = w]
    BY <1>3 DEF Push
  <2>2. /\ w \in WorkerRecords /\ w.id = wk[h].id /\ w.gen = wk[h].gen /\ w.phase = wk[h].phase
        /\ w.collected = wk[h].collected /\ w.failures = wk[h].failures
    BY <2>0 DEF WorkerRecords
  <2>3. call' \in [Callers -> Calls] /\ roleLock' \in [Roles -> Callers \cup {Nil}]
    BY <1>0, <1>3, IdleSound DEF Push, Return, TypeOK
  <2>4. CallsMove
    BY <1>1, <1>3, <2>0, <2>1, <2>2, IdleSound DEF Push, Return, Idle
  <2>5. UNCHANGED <<registry, snap, streak>>
    BY <1>3 DEF Push
  <2> HIDE DEF h, w
  <2> QED
    BY <1>0, <2>0, <2>1, <2>2, <2>3, <2>4, <2>5, WorkerChange DEF TablesSound, TypeOK, LifeSound, Done
<1>4. ASSUME NEW h \in Handles, CancelWorker(h) \/ UNCHANGED wk, NEW r \in Calls, CallSound(r), r.op # "start",
             call' = [call EXCEPT ![c] = r], roleLock' \in [Roles -> Callers \cup {Nil}],
             UNCHANGED <<registry, snap, streak>>
      PROVE  IInv'
  <2> DEFINE w == [wk[h] EXCEPT !.cancelled = TRUE]
  <2>0. wk[h] \in WorkerRecords /\ LifeSound(h) /\ (wk[h].collected => Done(h))
    BY <1>0 DEF TypeOK, LivesSound, CollectedHasEnded
  <2>1. CASE UNCHANGED wk
    BY <1>4, <2>1, QuietStep
  <2>2. CASE wk' = [wk EXCEPT ![h] = w]
    <3>2. /\ w \in WorkerRecords /\ w.id = wk[h].id /\ w.gen = wk[h].gen /\ w.phase = wk[h].phase
          /\ w.collected = wk[h].collected /\ w.failures = wk[h].failures
      BY <2>0 DEF WorkerRecords
    <3>3. call' \in [Callers -> Calls]
      BY <1>0, <1>4 DEF TypeOK
    <3>4. CallsMove
      BY <1>1, <1>4, <2>2, <3>2
    <3> HIDE DEF w
    <3> QED
      BY <1>0, <1>4, <2>0, <2>2, <3>2, <3>3, <3>4, WorkerChange DEF TablesSound, TypeOK, LifeSound, Done
  <2> QED
    BY <1>4, <2>1, <2>2 DEF CancelWorker
<1>5. CASE CloseCancel(c)
  <2>1. call[c].h \in Handles /\ (CancelWorker(call[c].h) \/ UNCHANGED wk)
    BY <1>0, <1>5 DEF CloseCancel, CallSound
  <2>2. roleLock' \in [Roles -> Callers \cup {Nil}] /\ call' = [call EXCEPT ![c] = Idle]
    BY <1>0, <1>5 DEF CloseCancel, Return, TypeOK
  <2> QED
    BY <1>4, <1>5, <2>1, <2>2, IdleSound DEF CloseCancel, Idle
<1>6. CASE CancelNext(c)
  <2>1. PICK h \in call[c].todo : CancelWorker(h) /\ Goto(c, [call[c] EXCEPT !.todo = @ \ {h}])
    BY <1>6 DEF CancelNext
  <2> DEFINE r == [call[c] EXCEPT !.todo = @ \ {h}]
  <2>2. h \in Handles /\ r \in Calls /\ CallSound(r) /\ r.op # "start"
    BY <1>0, <1>6, <2>1 DEF CancelNext, CallSound, Calls
  <2>3. roleLock' \in [Roles -> Callers \cup {Nil}]
    BY <1>0, <2>1 DEF Goto, TypeOK
  <2> QED
    BY <1>4, <1>6, <2>1, <2>2, <2>3 DEF CancelNext, Goto
<1> QED
  BY <1>2, <1>3, <1>5, <1>6

\* Settling the generation a token names, provided a result is only collected of
\* a life that has ended.
LEMMA SettleKeeps ==
    ASSUME IInv, NEW c \in Callers, NEW h \in Handles, NEW gen, NEW discard \in BOOLEAN,
           ~discard => Ended(h, gen),
           Collects([h |-> h, gen |-> gen]), Settle([h |-> h, gen |-> gen], discard),
           NEW r \in Calls, CallSound(r), r.op # "start",
           call' = [call EXCEPT ![c] = r], roleLock' \in [Roles -> Callers \cup {Nil}]
    PROVE  IInv'
<1> DEFINE w == [wk[h] EXCEPT !.collected = ~discard, !.closeRequested = discard]
           id == wk[h].id
<1>0. /\ TypeOK /\ TablesSound /\ CallsSound /\ LifeSound(h) /\ wk[h] \in WorkerRecords
      /\ wk[h].gen = gen /\ pending[wk[h].id] = h
  BY DEF IInv, TypeOK, LivesSound, Collects
<1>1. wk' = [wk EXCEPT ![h] = w]
  BY DEF Settle
<1>2. /\ w \in WorkerRecords /\ w.id = wk[h].id /\ w.gen = wk[h].gen /\ w.phase = wk[h].phase
      /\ w.collected = ~discard /\ w.failures = wk[h].failures
  BY <1>0 DEF WorkerRecords
<1>3. w.collected => Done(h)
  BY <1>0, <1>2 DEF Ended
<1>4. /\ pending' \in [Ids -> Handles \cup {Nil}]
      /\ \A i \in Ids : pending'[i] \in {pending[i], Nil}
  BY <1>0 DEF Settle, TypeOK
<1>5. past' \in [Ids -> Checkpoints \cup {Nil}]
  <2>1. CASE ~(past[id] # Nil /\ past[id].gen = wk[h].gen)
    <3>1. past' = past
      BY <2>1 DEF Settle
    <3> QED
      BY <1>0, <3>1 DEF TypeOK
  <2>2. CASE past[id] # Nil /\ past[id].gen = wk[h].gen
    <3>1. past' = [past EXCEPT ![id] = [past[id] EXCEPT !.collected = ~discard, !.closeRequested = discard]]
      BY <2>2 DEF Settle
    <3>2. CASE id \in Ids
      <4>1. past[id] \in Checkpoints
        BY <1>0, <2>2, <3>2 DEF TypeOK
      <4>2. [past[id] EXCEPT !.collected = ~discard, !.closeRequested = discard] \in Checkpoints
        BY <4>1 DEF Checkpoints
      <4> HIDE DEF id
      <4> QED
        BY <1>0, <3>1, <3>2, <4>2 DEF TypeOK
    <3>3. CASE id \notin Ids
      <4>1. past' = past
        BY <1>0, <3>1, <3>3 DEF TypeOK
      <4> QED
        BY <1>0, <4>1 DEF TypeOK
    <3> QED
      BY <3>2, <3>3
  <2> QED
    BY <2>1, <2>2
<1>6. UNCHANGED <<agents, pastIDs, minted, closed, snap, streak>>
  BY DEF Settle
<1>7. call' \in [Callers -> Calls]
  BY <1>0 DEF TypeOK
<1>8. CallsMove
  <2>1. ASSUME NEW d \in Callers \ {c}, call[d].op = "start"
        PROVE  call'[d] = call[d] /\ wk'[call[d].h].phase = "claimed"
    <3> HIDE DEF w
    <3> QED
      BY <1>0, <1>1, <1>2, <2>1 DEF TypeOK, CallsSound, CallSound
  <2>2. call'[c] = r /\ \A d \in Callers \ {c} : call'[d] = call[d]
    BY <1>0 DEF TypeOK
  <2> QED
    BY <2>1, <2>2 DEF CallsMove
<1> HIDE DEF w, id
<1> QED
  BY <1>0, <1>1, <1>2, <1>3, <1>4, <1>5, <1>6, <1>7, <1>8, WorkerChange DEF TablesSound, TypeOK, LifeSound, Done

LEMMA SettleCallStep ==
    ASSUME IInv, NEW c \in Callers, Collect(c) \/ CloseFinished(c) \/ CloseRunning(c)
    PROVE  IInv'
<1>0. /\ TypeOK /\ call[c] \in Calls /\ CallSound(call[c])
  BY DEF IInv, TypeOK, CallsSound
<1>1. CASE Collect(c)
  <2>1. PICK token \in call[c].tokens :
          /\ Goto(c, [call[c] EXCEPT !.op = "collect", !.tokens = @ \ {token}])
          /\ IF Collects(token) THEN Settle(token, FALSE)
             ELSE UNCHANGED <<wk, registry, snap, streak>>
    BY <1>1 DEF Collect
  <2> DEFINE r == [call[c] EXCEPT !.op = "collect", !.tokens = @ \ {token}]
  <2>2. r \in Calls /\ r.op = "collect" /\ r.tokens \subseteq call[c].tokens
    BY <1>0 DEF Calls, Ops
  <2>3. CallSound(r)
    BY <1>0, <2>2 DEF CallSound
  <2>4. /\ token.h \in Handles /\ token = [h |-> token.h, gen |-> token.gen]
        /\ Ended(token.h, token.gen)
    BY <1>0, <2>1 DEF Calls, CallSound
  <2>5. roleLock' \in [Roles -> Callers \cup {Nil}] /\ call' = [call EXCEPT ![c] = r]
    BY <1>0, <2>1 DEF Goto, TypeOK
  <2> HIDE DEF r
  <2>6. CASE Collects(token)
    BY <2>1, <2>2, <2>3, <2>4, <2>5, <2>6, SettleKeeps
  <2>7. CASE ~Collects(token)
    BY <2>1, <2>2, <2>3, <2>5, <2>7, QuietStep
  <2> QED
    BY <2>6, <2>7
<1>2. CASE CloseFinished(c)
  <2> DEFINE token == [h |-> call[c].h, gen |-> call[c].gen]
  <2>1. call[c].h \in Handles /\ Ended(call[c].h, call[c].gen)
    BY <1>0, <1>2 DEF CloseFinished, CallSound
  <2>2. roleLock' \in [Roles -> Callers \cup {Nil}] /\ call' = [call EXCEPT ![c] = Idle] /\ Idle.op # "start"
    BY <1>0, <1>2 DEF CloseFinished, Return, TypeOK, Idle
  <2>3. CASE Collects(token)
    <3>1. Settle(token, FALSE)
      BY <1>2, <2>3 DEF CloseFinished
    <3> QED
      BY <2>1, <2>2, <2>3, <3>1, IdleSound, SettleKeeps
  <2>4. CASE ~Collects(token)
    <3>1. UNCHANGED <<wk, registry, snap, streak>>
      BY <1>2, <2>4 DEF CloseFinished
    <3> QED
      BY <2>2, <3>1, IdleSound, QuietStep
  <2> QED
    BY <2>3, <2>4
<1>3. CASE CloseRunning(c)
  <2> DEFINE token == [h |-> call[c].h, gen |-> call[c].gen]
             r == [call[c] EXCEPT !.op = "closeCancel"]
  <2>1. call[c].h \in Handles
    BY <1>0, <1>3 DEF CloseRunning, CallSound
  <2>2. r \in Calls /\ CallSound(r) /\ r.op # "start"
    BY <1>0, <2>1 DEF Calls, Ops, CallSound
  <2>3. \/ Return(c) \/ Goto(c, r)
    BY <1>3 DEF CloseRunning
  <2>4. CASE Collects(token) /\ Settle(token, TRUE)
    <3>1. CASE Return(c)
      <4>1. roleLock' \in [Roles -> Callers \cup {Nil}] /\ call' = [call EXCEPT ![c] = Idle] /\ Idle.op # "start"
        BY <1>0, <3>1 DEF Return, TypeOK, Idle
      <4> QED
        BY <2>1, <2>4, <4>1, IdleSound, SettleKeeps
    <3>2. CASE Goto(c, r)
      <4>1. roleLock' \in [Roles -> Callers \cup {Nil}] /\ call' = [call EXCEPT ![c] = r]
        BY <1>0, <3>2 DEF Goto, TypeOK
      <4> HIDE DEF r
      <4> QED
        BY <2>1, <2>2, <2>4, <4>1, SettleKeeps
    <3> QED
      BY <2>3, <3>1, <3>2
  <2>5. CASE Return(c) /\ UNCHANGED <<wk, registry, snap, streak>>
    BY <2>5, ReturnStep
  <2> QED
    BY <1>3, <2>4, <2>5 DEF CloseRunning
<1> QED
  BY <1>1, <1>2, <1>3

-----------------------------------------------------------------------------
\* Steps that begin a life.

\* A life may begin on a handle that is not in one, for an id that nobody lives.
LEMMA NewLife ==
    ASSUME IInv, ~closed, NEW c \in Callers, NEW h \in Handles, NEW id \in Ids, NEW w \in WorkerRecords,
           Done(h), wk' = [wk EXCEPT ![h] = w],
           \A k \in Handles : ~Done(k) => wk[k].id # id,
           wk[h].id \in {Nil, id}, w.gen > wk[h].gen \/ wk[h].id = Nil,
           w.id = id, w.gen >= 1, w.phase = "claimed", ~w.collected, w.failures < Budget,
           agents' = [agents EXCEPT ![id] = h], pending' = [pending EXCEPT ![id] = h],
           minted' = minted \cup {id}, UNCHANGED <<past, pastIDs, closed, snap, streak>>,
           NEW r \in Calls, Goto(c, r), r.op = "start", r.h = h, r.tokens = call[c].tokens
    PROVE  IInv'
<1>0. /\ TypeOK /\ CallsSound /\ StartsAlone /\ LivesSound /\ TablesSound /\ OneLifePerId
      /\ CollectedHasEnded /\ Nil \notin Ids
  BY NilAssumption DEF IInv
<1>1. \A k \in Handles : wk'[k] = IF k = h THEN w ELSE wk[k]
  BY <1>0 DEF TypeOK
<1>2. TypeOK'
  BY <1>0 DEF TypeOK, Goto
<1>11. pastIDs' \in Seq(minted')
  BY <1>0, SequenceOfMore DEF TablesSound
<1>3. call'[c] = r /\ \A d \in Callers \ {c} : call'[d] = call[d]
  BY <1>0 DEF TypeOK, Goto
<1>4. ASSUME NEW k \in Handles, NEW gen \in 0..MaxGen, Ended(k, gen) PROVE Ended(k, gen)'
  <2>1. wk[k] \in WorkerRecords /\ wk[h] \in WorkerRecords
    BY <1>0 DEF TypeOK
  <2>2. wk[k].gen \in Nat /\ w.gen \in Nat
    BY <2>1, BoundsAssumption DEF WorkerRecords
  <2> QED
    BY <1>0, <1>1, <1>4, <2>2 DEF Ended, Done
<1>5. ASSUME NEW d \in Callers PROVE \A token \in call'[d].tokens : Ended(token.h, token.gen)'
  <2>1. call[d].tokens \subseteq [h : Handles, gen : 0..MaxGen] /\ CallSound(call[d])
    BY <1>0 DEF TypeOK, Calls, CallsSound
  <2>2. call'[d].tokens = call[d].tokens
    BY <1>3
  <2>3. \A token \in call[d].tokens : Ended(token.h, token.gen)
    BY <2>1 DEF CallSound
  <2>4. \A token \in call[d].tokens : token.h \in Handles /\ token.gen \in 0..MaxGen
    BY <2>1
  <2> QED
    BY <1>4, <2>2, <2>3, <2>4
<1>6. CallsSound'
  <2> SUFFICES ASSUME NEW d \in Callers PROVE CallSound(call[d])'
    BY DEF CallsSound
  <2>1. CASE d = c
    BY <1>1, <1>3, <1>5, <2>1 DEF CallSound
  <2>2. CASE d # c
    <3>1. call'[d] = call[d] /\ CallSound(call[d]) /\ call[d] \in Calls
      BY <1>0, <1>3, <2>2 DEF CallsSound, TypeOK
    <3>2. call[d].op = "start" => wk'[call[d].h].phase = "claimed"
      BY <1>1, <3>1 DEF CallSound, Done
    <3>3. call[d].op = "closeDone" => Ended(call[d].h, call[d].gen)'
      BY <1>4, <3>1 DEF CallSound, Calls
    <3> QED
      BY <1>5, <3>1, <3>2, <3>3 DEF CallSound
  <2> QED
    BY <2>1, <2>2
<1>7. StartsAlone'
  <2>1. \A d \in Callers \ {c} : call[d].op = "start" => call[d].h # h
    BY <1>0 DEF CallsSound, CallSound, Done
  <2> QED
    BY <1>0, <1>3, <2>1 DEF StartsAlone
<1>8. LivesSound'
  <2> SUFFICES ASSUME NEW k \in Handles PROVE LifeSound(k)'
    BY DEF LivesSound
  <2>1. CASE k = h
    BY <1>0, <1>1, <2>1 DEF LifeSound, Done, TypeOK
  <2>2. CASE k # h
    <3>1. LifeSound(k) /\ wk'[k] = wk[k]
      BY <1>0, <1>1, <2>2 DEF LivesSound
    <3> QED
      BY <1>0, <3>1 DEF LifeSound, Done, TypeOK
  <2> QED
    BY <2>1, <2>2
<1>9. TablesSound'
  BY <1>0, <1>1, <1>11 DEF TablesSound, TypeOK
<1>10. OneLifePerId' /\ CollectedHasEnded'
  BY <1>0, <1>1 DEF OneLifePerId, CollectedHasEnded, Done
<1> QED
  BY <1>2, <1>6, <1>7, <1>8, <1>9, <1>10 DEF IInv

LEMMA BeginStepKeeps ==
    ASSUME IInv, NEW c \in Callers, Mint(c) \/ ClaimInPlace(c) \/ ClaimFresh(c)
    PROVE  IInv'
<1>0. /\ TypeOK /\ LivesSound /\ TablesSound /\ call[c] \in Calls /\ CallSound(call[c])
      /\ Nil \notin Ids /\ Nil \notin Handles
  BY NilAssumption DEF IInv, TypeOK, CallsSound
<1>1. CASE Mint(c)
  <2>1. PICK id \in {i \in Ids \ minted : RoleOf[i] = call[c].role}, h \in Unused :
          /\ wk' = [wk EXCEPT ![h] = Life(id, 1, "claimed", 0)]
          /\ agents' = [agents EXCEPT ![id] = h]
          /\ pending' = [pending EXCEPT ![id] = h]
          /\ minted' = minted \cup {id}
          /\ Goto(c, [call[c] EXCEPT !.op = "start", !.h = h])
    BY <1>1 DEF Mint
  <2> DEFINE w == Life(id, 1, "claimed", 0)
             r == [call[c] EXCEPT !.op = "start", !.h = h]
  <2>2. h \in Handles /\ wk[h].id = Nil
    BY <2>1 DEF Unused
  <2>3. w \in WorkerRecords /\ w.id = id /\ w.gen = 1 /\ w.phase = "claimed" /\ ~w.collected /\ w.failures = 0
    <3>2. id \in Ids /\ 1 \in 0..MaxGen /\ 0 \in 0..Budget
      BY <2>1, BoundsAssumption
    <3> QED
      BY <3>2 DEF Life, WorkerRecords, Phases
  <2>4. r \in Calls /\ r.op = "start" /\ r.h = h /\ r.tokens = call[c].tokens
    BY <1>0, <2>2 DEF Calls, Ops
  <2>5. Done(h) /\ \A k \in Handles : ~Done(k) => wk[k].id # id
    BY <1>0, <2>1, <2>2 DEF LivesSound, LifeSound
  <2>6. ~closed /\ UNCHANGED <<past, pastIDs, closed, snap, streak>>
    BY <1>1 DEF Mint
  <2>7. /\ wk' = [wk EXCEPT ![h] = w] /\ Goto(c, r) /\ minted' = minted \cup {id}
        /\ agents' = [agents EXCEPT ![id] = h] /\ pending' = [pending EXCEPT ![id] = h]
    BY <2>1
  <2>8. id \in Ids /\ w.gen >= 1 /\ w.failures < Budget /\ wk[h].id \in {Nil, id}
    BY <2>1, <2>2, <2>3, BoundsAssumption
  <2> HIDE DEF w, r
  <2> QED
    BY <2>2, <2>3, <2>4, <2>5, <2>6, <2>7, <2>8, NewLife
<1>2. ASSUME NEW h \in Handles, Done(h), NEW gen \in 1..MaxGen, NEW failures \in 0..Budget, failures < Budget,
             call[c].op = "claim", ~closed, \A k \in Handles : ~Done(k) => wk[k].id # call[c].id,
             wk[h].id \in {Nil, call[c].id}, gen > wk[h].gen \/ wk[h].id = Nil, call[c].id \in minted,
             wk' = [wk EXCEPT ![h] = Life(call[c].id, gen, "claimed", failures)],
             agents' = [agents EXCEPT ![call[c].id] = h], pending' = [pending EXCEPT ![call[c].id] = h],
             Goto(c, [call[c] EXCEPT !.op = "start", !.h = h, !.past = Nil]),
             UNCHANGED <<past, pastIDs, minted, closed, snap, streak>>
      PROVE  IInv'
  <2> DEFINE id == call[c].id
             w == Life(id, gen, "claimed", failures)
             r == [call[c] EXCEPT !.op = "start", !.h = h, !.past = Nil]
  <2>1. id \in Ids
    BY <1>0, <1>2 DEF CallSound
  <2>2. /\ w \in WorkerRecords /\ w.id = id /\ w.gen = gen /\ w.phase = "claimed" /\ ~w.collected
        /\ w.failures = failures
    <3>2. gen \in 0..MaxGen
      BY <1>2
    <3> QED
      BY <1>2, <2>1, <3>2 DEF Life, WorkerRecords, Phases
  <2>3. r \in Calls /\ r.op = "start" /\ r.h = h /\ r.tokens = call[c].tokens
    BY <1>0 DEF Calls, Ops
  <2>4. minted' = minted \cup {id}
    BY <1>2
  <2>5. /\ wk' = [wk EXCEPT ![h] = w] /\ Goto(c, r)
        /\ agents' = [agents EXCEPT ![id] = h] /\ pending' = [pending EXCEPT ![id] = h]
    BY <1>2
  <2>6. /\ \A k \in Handles : ~Done(k) => wk[k].id # id
        /\ wk[h].id \in {Nil, id} /\ (w.gen > wk[h].gen \/ wk[h].id = Nil) /\ w.gen >= 1 /\ w.failures < Budget
    BY <1>2, <2>2
  <2>7. Done(h) /\ ~closed /\ UNCHANGED <<past, pastIDs, closed, snap, streak>>
    BY <1>2
  <2> HIDE DEF w, r, id
  <2> QED
    BY <2>1, <2>2, <2>3, <2>4, <2>5, <2>6, <2>7, NewLife
<1>3. CASE ClaimInPlace(c)
  <2> DEFINE h == agents[call[c].id]
  <2>1. call[c].id \in Ids /\ h # Nil /\ Done(h)
    BY <1>0, <1>3 DEF ClaimInPlace, CallSound
  <2>2. h \in Handles /\ wk[h].id = call[c].id
    BY <1>0, <2>1 DEF TypeOK, TablesSound
  <2>3. wk[h] \in WorkerRecords /\ LifeSound(h)
    BY <1>0, <2>2 DEF TypeOK, LivesSound
  <2>4. ~(wk[h].failures >= Budget) /\ wk[h].gen < MaxGen
    BY <1>3 DEF ClaimInPlace, Refused
  <2>5. wk[h].gen + 1 \in 1..MaxGen /\ wk[h].gen + 1 > wk[h].gen /\ wk[h].failures < Budget
        /\ wk[h].failures \in 0..Budget /\ wk[h].id \in minted
    BY <2>1, <2>2, <2>3, <2>4, BoundsAssumption DEF WorkerRecords, LifeSound
  <2>6. \A k \in Handles : ~Done(k) => wk[k].id # call[c].id
    BY <1>0, <1>3, <2>1 DEF LivesSound, LifeSound, ClaimInPlace
  <2>7. agents' = [agents EXCEPT ![call[c].id] = h]
    BY <1>0, <1>3, <2>1 DEF ClaimInPlace, TypeOK
  <2> QED
    BY <1>2, <1>3, <2>1, <2>2, <2>5, <2>6, <2>7 DEF ClaimInPlace
<1>4. CASE ClaimFresh(c)
  <2> DEFINE past0 == call[c].past
  <2>1. PICK h \in Unused :
          /\ wk' = [wk EXCEPT ![h] = Life(call[c].id, past0.gen + 1, "claimed", past0.failures)]
          /\ agents' = [agents EXCEPT ![call[c].id] = h]
          /\ pending' = [pending EXCEPT ![call[c].id] = h]
          /\ Goto(c, [call[c] EXCEPT !.op = "start", !.h = h, !.past = Nil])
    BY <1>4 DEF ClaimFresh
  <2>2. past0 \in Checkpoints /\ call[c].id \in Ids
    BY <1>0, <1>4 DEF ClaimFresh, CallSound
  <2>3. ~(past0.failures >= Budget) /\ past0.gen < MaxGen
    BY <1>4 DEF ClaimFresh, Refused
  <2>4. past0.gen + 1 \in 1..MaxGen /\ past0.failures \in 0..Budget /\ past0.failures < Budget
    BY <2>2, <2>3, BoundsAssumption DEF Checkpoints
  <2>5. h \in Handles /\ wk[h].id = Nil /\ Done(h)
    BY <1>0, <2>1 DEF Unused, LivesSound, LifeSound
  <2>6. \A k \in Handles : ~Done(k) => wk[k].id # call[c].id
    BY <1>0, <1>4 DEF LivesSound, LifeSound, ClaimFresh
  <2>7. call[c].id \in minted
    BY <1>0, <1>4 DEF ClaimFresh, CallSound
  <2> QED
    BY <1>2, <1>4, <2>1, <2>4, <2>5, <2>6, <2>7 DEF ClaimFresh
<1> QED
  BY <1>1, <1>3, <1>4

-----------------------------------------------------------------------------
\* The host's steps on the whole registry.

LEMMA StatsKeeps ==
    ASSUME IInv, Stats
    PROVE  IInv'
<1>0. /\ TypeOK /\ CallsSound /\ StartsAlone /\ LivesSound /\ TablesSound /\ OneLifePerId /\ CollectedHasEnded
  BY DEF IInv
<1>1. UNCHANGED <<wk, pending, past, pastIDs, minted, closed, roleLock, call, snap, streak>>
  BY DEF Stats
<1>2. \A id \in Ids : agents'[id] = IF agents[id] # Nil /\ Done(agents[id]) THEN Nil ELSE agents[id]
  BY DEF Stats
<1>3. TypeOK'
  BY <1>0, <1>1 DEF TypeOK, Stats
<1>4. CallsSound' /\ StartsAlone'
  <2>1. CallsMove /\ (\A k \in Handles : Calm(k)) /\ minted \subseteq minted'
    BY <1>0, <1>1 DEF CallsMove, CallsSound, CallSound, Calm, Done
  <2> QED
    BY <1>3, <2>1, CallsKept
<1>5. LivesSound'
  <2> SUFFICES ASSUME NEW h \in Handles PROVE LifeSound(h)'
    BY DEF LivesSound
  <2>1. LifeSound(h)
    BY <1>0 DEF LivesSound
  <2> QED
    BY <1>1, <1>2, <2>1 DEF LifeSound, Done
<1>6. TablesSound'
  BY <1>0, <1>1, <1>2 DEF TablesSound
<1>7. OneLifePerId' /\ CollectedHasEnded'
  BY <1>0, <1>1 DEF OneLifePerId, CollectedHasEnded, Done
<1> QED
  BY <1>3, <1>4, <1>5, <1>6, <1>7 DEF IInv

LEMMA ShutdownKeeps ==
    ASSUME IInv, NEW c \in Callers, Shutdown(c)
    PROVE  IInv'
<1>0. /\ TypeOK /\ CallsSound /\ StartsAlone /\ LivesSound /\ TablesSound /\ OneLifePerId /\ CollectedHasEnded
  BY DEF IInv
<1>1. /\ UNCHANGED <<wk, minted, snap, streak, roleLock>> /\ closed' = TRUE
      /\ agents' = [id \in Ids |-> Nil] /\ pending' = [id \in Ids |-> Nil]
      /\ past' = [id \in Ids |-> Nil] /\ pastIDs' = <<>>
  BY DEF Shutdown, Goto
<1> DEFINE r == [Idle EXCEPT !.op = "cancelling", !.todo = Live]
<1>2. r \in Calls /\ CallSound(r) /\ r.op # "start"
  <2>1. Live \subseteq Handles
    BY DEF Live
  <2> QED
    BY <2>1, IdleSound DEF Idle, Calls, Ops, CallSound
<1>3. call' = [call EXCEPT ![c] = r]
  BY DEF Shutdown, Goto
<1> HIDE DEF r
<1>4. TypeOK'
  BY <1>0, <1>1, <1>2, <1>3 DEF TypeOK
<1>5. CallsSound' /\ StartsAlone'
  <2>1. call'[c] = r /\ \A d \in Callers \ {c} : call'[d] = call[d]
    BY <1>0, <1>3 DEF TypeOK
  <2>2. CallsMove
    BY <1>0, <1>1, <1>2, <2>1 DEF CallsMove, CallsSound, CallSound
  <2>3. (\A k \in Handles : Calm(k)) /\ minted \subseteq minted'
    BY <1>1 DEF Calm, Done
  <2> QED
    BY <1>4, <2>2, <2>3, CallsKept
<1>6. LivesSound'
  BY <1>0, <1>1 DEF LivesSound, LifeSound, Done
<1>7. TablesSound'
  BY <1>1 DEF TablesSound
<1>8. OneLifePerId' /\ CollectedHasEnded'
  BY <1>0, <1>1 DEF OneLifePerId, CollectedHasEnded, Done
<1> QED
  BY <1>4, <1>5, <1>6, <1>7, <1>8 DEF IInv

LEMMA ResetKeeps ==
    ASSUME IInv, ResetTimeouts
    PROVE  IInv'
<1>0. /\ TypeOK /\ CallsSound /\ StartsAlone /\ LivesSound /\ TablesSound /\ OneLifePerId /\ CollectedHasEnded
  BY DEF IInv
<1>1. UNCHANGED <<agents, pending, pastIDs, minted, closed, roleLock, call, snap>>
  BY DEF ResetTimeouts
<1>2. \A h \in Handles : wk'[h] \in {wk[h], [wk[h] EXCEPT !.failures = 0]}
  BY DEF ResetTimeouts
<1>3. ASSUME NEW h \in Handles
      PROVE  /\ wk'[h] \in WorkerRecords /\ wk'[h].id = wk[h].id /\ wk'[h].gen = wk[h].gen
             /\ wk'[h].phase = wk[h].phase /\ wk'[h].collected = wk[h].collected
             /\ wk'[h].failures \in {wk[h].failures, 0}
  <2>1. wk[h] \in WorkerRecords /\ 0 \in 0..Budget
    BY <1>0, BoundsAssumption DEF TypeOK
  <2>2. CASE wk'[h] = wk[h]
    BY <2>1, <2>2
  <2>3. CASE wk'[h] = [wk[h] EXCEPT !.failures = 0]
    BY <2>1, <2>3 DEF WorkerRecords
  <2> QED
    BY <1>2, <2>2, <2>3
<1>4. past' \in [Ids -> Checkpoints \cup {Nil}]
  <2>1. \A id \in Ids : past[id] \in Checkpoints => [past[id] EXCEPT !.failures = 0] \in Checkpoints
    BY BoundsAssumption DEF Checkpoints
  <2>2. \A id \in Ids : past[id] \in Checkpoints \cup {Nil}
    BY <1>0 DEF TypeOK
  <2>3. past' = [id \in Ids |-> IF past[id] = Nil THEN Nil ELSE [past[id] EXCEPT !.failures = 0]]
    BY DEF ResetTimeouts
  <2>4. ASSUME NEW id \in Ids
        PROVE  (IF past[id] = Nil THEN Nil ELSE [past[id] EXCEPT !.failures = 0]) \in Checkpoints \cup {Nil}
    BY <2>1, <2>2
  <2> QED
    BY <2>3, <2>4
<1>5. wk' \in [Handles -> WorkerRecords] /\ streak' \in [Ids -> Nat]
  <2>1. wk' = [h \in Handles |-> wk'[h]]
    BY DEF ResetTimeouts
  <2> QED
    BY <1>3, <2>1 DEF ResetTimeouts
<1>6. TypeOK'
  BY <1>0, <1>1, <1>4, <1>5 DEF TypeOK
<1>7. CallsSound' /\ StartsAlone'
  <2>1. CallsMove
    <3>1. ASSUME NEW d \in Callers, call[d].op = "start" PROVE wk'[call[d].h].phase = "claimed"
      <4>1. call[d].h \in Handles /\ wk[call[d].h].phase = "claimed"
        BY <1>0, <3>1 DEF CallsSound, CallSound
      <4> QED
        BY <1>3, <4>1
    <3> QED
      BY <1>1, <3>1 DEF CallsMove
  <2>2. (\A k \in Handles : Calm(k)) /\ minted \subseteq minted'
    BY <1>1, <1>3 DEF Calm, Done
  <2> QED
    BY <1>6, <2>1, <2>2, CallsKept
<1>8. LivesSound'
  <2> SUFFICES ASSUME NEW h \in Handles PROVE LifeSound(h)'
    BY DEF LivesSound
  <2>1. LifeSound(h) /\ wk'[h].failures \in {wk[h].failures, 0} /\ 0 < Budget
    BY <1>0, <1>3, BoundsAssumption DEF LivesSound
  <2> QED
    BY <1>1, <1>3, <2>1 DEF LifeSound, Done
<1>9. TablesSound'
  BY <1>0, <1>1, <1>3 DEF TablesSound, TypeOK
<1>10. OneLifePerId' /\ CollectedHasEnded'
  BY <1>0, <1>3 DEF OneLifePerId, CollectedHasEnded, Done
<1> QED
  BY <1>6, <1>7, <1>8, <1>9, <1>10 DEF IInv

-----------------------------------------------------------------------------

LEMMA StartsSound == Init => IInv
<1> SUFFICES ASSUME Init PROVE IInv
  OBVIOUS
<1>1. Unborn \in WorkerRecords /\ Unborn.id = Nil /\ Unborn.phase = "done" /\ ~Unborn.collected
  BY BoundsAssumption DEF Unborn, Life, WorkerRecords, Phases
<1>2. \A h \in Handles : wk[h] = Unborn
  BY DEF Init
<1>3. TypeOK
  <2>1. wk \in [Handles -> WorkerRecords]
    BY <1>1 DEF Init
  <2>2. call \in [Callers -> Calls]
    BY IdleSound DEF Init
  <2>3. closed \in BOOLEAN /\ minted \subseteq Ids
    BY DEF Init
  <2>5. pastIDs \in Seq(Ids)
    <3>1. pastIDs = <<>>
      BY DEF Init
    <3> QED
      BY <3>1
  <2>4. /\ agents \in [Ids -> Handles \cup {Nil}] /\ pending \in [Ids -> Handles \cup {Nil}]
        /\ past \in [Ids -> Checkpoints \cup {Nil}] /\ roleLock \in [Roles -> Callers \cup {Nil}]
        /\ snap \in [Handles -> Checkpoints \cup {Nil}] /\ streak \in [Ids -> Nat]
    BY DEF Init
  <2> QED
    BY <2>1, <2>2, <2>3, <2>4, <2>5 DEF TypeOK
<1>4. CallsSound /\ StartsAlone
  BY IdleSound DEF Init, CallsSound, StartsAlone, Idle
<1>5. LivesSound
  BY <1>1, <1>2, NilAssumption DEF LivesSound, LifeSound, Done
<1>6. TablesSound
  BY DEF Init, TablesSound
<1>7. OneLifePerId /\ CollectedHasEnded
  BY <1>1, <1>2 DEF OneLifePerId, CollectedHasEnded, Done
<1> QED
  BY <1>3, <1>4, <1>5, <1>6, <1>7 DEF IInv

LEMMA StepKeeps == IInv /\ [Next]_vars => IInv'
<1> SUFFICES ASSUME IInv, [Next]_vars PROVE IInv'
  OBVIOUS
<1>1. ASSUME NEW c \in Callers, BeginStep(c) \/ CallStep(c) PROVE IInv'
  <2>1. \/ QuietCall(c) \/ Shutdown(c)
        \/ Start(c) \/ Push(c) \/ CloseCancel(c) \/ CancelNext(c)
        \/ Collect(c) \/ CloseFinished(c) \/ CloseRunning(c)
        \/ Mint(c) \/ ClaimInPlace(c) \/ ClaimFresh(c)
    BY <1>1 DEF BeginStep, CallStep, SpawnStep, ResumeStep, SettleStep, HostStep, QuietCall
  <2> QED
    BY <2>1, QuietCallStep, ShutdownKeeps, HandleCallStep, SettleCallStep, BeginStepKeeps
<1>2. ASSUME NEW h \in Handles, WorkerStep(h) PROVE IInv'
  BY <1>2, WorkerStepKeeps
<1>3. CASE UNCHANGED vars
  BY <1>3 DEF vars, IInv, TypeOK, CallsSound, CallSound, Ended, StartsAlone, LivesSound, LifeSound,
              TablesSound, OneLifePerId, CollectedHasEnded, Done
<1> QED
  BY <1>1, <1>2, <1>3, StatsKeeps, ResetKeeps DEF Next

\* Every variable keeps its type; in particular no handle and no checkpoint ever
\* counts more watchdog stops than the budget, in any interleaving.
THEOREM TypeCorrect == Spec => []TypeOK
<1>1. IInv => TypeOK
  BY DEF IInv
<1> QED
  BY <1>1, StartsSound, StepKeeps, PTL DEF Spec

\* No interleaving of spawns, resumes and Stats gives one agent id two workers.
THEOREM NoSecondWorker == Spec => []OneLifePerId
<1>1. IInv => OneLifePerId
  BY DEF IInv
<1> QED
  BY <1>1, StartsSound, StepKeeps, PTL DEF Spec

\* A wait or a close never marks the result of a life that still runs as collected.
THEOREM NothingCollectedEarly == Spec => []CollectedHasEnded
<1>1. IInv => CollectedHasEnded
  BY DEF IInv
<1> QED
  BY <1>1, StartsSound, StepKeeps, PTL DEF Spec

-----------------------------------------------------------------------------
\* What a step does to the lives and the tables: one of five things.

\* It begins no life, settles none, and leaves the tables alone.
Unsettled(k) == /\ wk'[k].id = wk[k].id /\ wk'[k].collected = wk[k].collected
                /\ wk'[k].closeRequested = wk[k].closeRequested /\ (Done(k) => Done(k)')

Ends(k) == ~Done(k) /\ Done(k)'

TablesStay == /\ UNCHANGED <<agents, pending, closed>>
              /\ \A k \in Handles : Unsettled(k)
              /\ \A h, k \in Handles : Ends(h) /\ Ends(k) => h = k

Settles == \E token \in [h : Handles, gen : 0..MaxGen], discard \in BOOLEAN :
    wk[token.h].id \in Ids /\ Collects(token) /\ Settle(token, discard)

Empties == /\ ~closed /\ closed' /\ UNCHANGED wk
           /\ agents' = [id \in Ids |-> Nil] /\ pending' = [id \in Ids |-> Nil]

\* A life begins on a handle that is not in one, under the cap.
Begins == \E id \in Ids, h \in Handles, w \in WorkerRecords :
    /\ ~closed /\ Done(h) /\ wk[h].id \in {Nil, id} /\ ~(Cardinality(Live) >= Cap)
    /\ wk' = [wk EXCEPT ![h] = w]
    /\ w.id = id /\ w.phase = "claimed" /\ ~w.collected /\ ~w.closeRequested
    /\ UNCHANGED closed
    /\ agents' = [agents EXCEPT ![id] = h]
    /\ pending' = [pending EXCEPT ![id] = h]

LEMMA OneHandle ==
    ASSUME TypeOK, NEW h \in Handles, NEW w, wk' = [wk EXCEPT ![h] = w],
           w.id = wk[h].id, w.collected = wk[h].collected,
           w.closeRequested = wk[h].closeRequested, Done(h) => w.phase = "done",
           UNCHANGED <<agents, pending, closed>>
    PROVE  TablesStay
<1>1. \A k \in Handles : wk'[k] = IF k = h THEN w ELSE wk[k]
  BY DEF TypeOK
<1> QED
  BY <1>1 DEF TablesStay, Unsettled, Ends, Done

LEMMA SameTables ==
    ASSUME UNCHANGED <<wk, agents, pending, closed>>
    PROVE  TablesStay
BY DEF TablesStay, Unsettled, Ends, Done

LEMMA QuietTables ==
    ASSUME NEW c \in Callers, QuietCall(c)
    PROVE  TablesStay
<1>1. UNCHANGED <<wk, registry, snap, streak>>
  BY DEF QuietCall, SpawnLock, ResumeCall, SendCall, CloseCall, ObserveCall, WaitCall,
         SpawnFindRunning, SpawnNoneRunning, SpawnSteer, SpawnRunningGone, SpawnReuse,
         SpawnNoneReusable, MintRefused, Recall, RecallRefused, ClaimRefused, WaitSnapshot,
         WaitReturn, Cleanup, CancelReturn, ObserveEnd, ObserveReturn, OutOfBounds
<1> QED
  BY <1>1, SameTables DEF registry

\* A cancel, a push and a start change one handle within its life.
LEMMA HandleCallTables ==
    ASSUME IInv, NEW c \in Callers, Start(c) \/ Push(c) \/ CloseCancel(c) \/ CancelNext(c)
    PROVE  TablesStay
<1>0. TypeOK /\ CallSound(call[c])
  BY DEF IInv, CallsSound
<1>1. UNCHANGED <<agents, pending, closed>>
  BY DEF Start, Push, CloseCancel, CancelNext, registry
<1>2. ASSUME NEW h \in Handles, CancelWorker(h) PROVE TablesStay
  <2>1. CASE wk' = wk
    BY <1>1, <2>1, SameTables
  <2>2. CASE wk' = [wk EXCEPT ![h].cancelled = TRUE]
    <3> DEFINE w == [wk[h] EXCEPT !.cancelled = TRUE]
    <3>1. wk' = [wk EXCEPT ![h] = w]
      BY <1>0, <2>2 DEF TypeOK
    <3>2. w.id = wk[h].id /\ w.collected = wk[h].collected /\ w.phase = wk[h].phase
          /\ w.closeRequested = wk[h].closeRequested
      BY <1>0 DEF TypeOK, WorkerRecords
    <3> HIDE DEF w
    <3> QED
      BY <1>0, <1>1, <3>1, <3>2, OneHandle DEF Done
  <2> QED
    BY <1>2, <2>1, <2>2 DEF CancelWorker
<1>3. CASE Start(c)
  <2> DEFINE h == call[c].h
             w == [wk[h] EXCEPT !.phase = "running", !.cancelled = wk[h].closeRequested]
  <2>1. h \in Handles /\ wk[h].phase = "claimed" /\ wk' = [wk EXCEPT ![h] = w]
    BY <1>0, <1>3 DEF Start, CallSound
  <2>2. w.id = wk[h].id /\ w.collected = wk[h].collected
        /\ w.closeRequested = wk[h].closeRequested
    BY <1>0, <2>1 DEF TypeOK, WorkerRecords
  <2> HIDE DEF h, w
  <2> QED
    BY <1>0, <1>1, <2>1, <2>2, OneHandle DEF Done
<1>4. CASE Push(c)
  <2> DEFINE h == call[c].h
             w == [wk[h] EXCEPT !.inbox = TRUE]
  <2>1. h \in Handles /\ wk' = [wk EXCEPT ![h] = w]
    BY <1>0, <1>4 DEF Push, CallSound, TypeOK
  <2>2. w.id = wk[h].id /\ w.collected = wk[h].collected /\ w.phase = wk[h].phase
        /\ w.closeRequested = wk[h].closeRequested
    BY <1>0, <2>1 DEF TypeOK, WorkerRecords
  <2> HIDE DEF h, w
  <2> QED
    BY <1>0, <1>1, <2>1, <2>2, OneHandle DEF Done
<1>5. CASE CloseCancel(c)
  <2>1. call[c].h \in Handles
    BY <1>0, <1>5 DEF CloseCancel, CallSound
  <2> QED
    BY <1>1, <1>2, <1>5, <2>1, SameTables DEF CloseCancel
<1>6. CASE CancelNext(c)
  <2>1. call[c].todo \subseteq Handles
    BY <1>0, <1>6 DEF CancelNext, CallSound
  <2> QED
    BY <1>2, <1>6, <2>1 DEF CancelNext
<1> QED
  BY <1>3, <1>4, <1>5, <1>6

LEMMA WorkerTables ==
    ASSUME IInv, NEW h \in Handles, WorkerStep(h)
    PROVE  TablesStay
<1>0. TypeOK /\ wk[h] \in WorkerRecords
  BY DEF IInv, TypeOK
<1>1. UNCHANGED <<agents, pending, closed>>
  <2>1. ASSUME NEW timedOut \in BOOLEAN, Complete(h, timedOut)
        PROVE  UNCHANGED <<agents, pending, closed>>
    BY <2>1 DEF Complete, registry
  <2> QED
    BY <2>1 DEF WorkerStep, Ending, ReadInbox, Drain, Snap, Remember, CloseDone, registry
<1>2. PICK w : /\ wk' = [wk EXCEPT ![h] = w]
               /\ w.id = wk[h].id /\ w.collected = wk[h].collected
               /\ w.closeRequested = wk[h].closeRequested
  <2>1. CASE ReadInbox(h)
    <3> DEFINE w == [wk[h] EXCEPT !.inbox = FALSE]
    <3>1. wk' = [wk EXCEPT ![h] = w]
      BY <1>0, <2>1 DEF ReadInbox, TypeOK
    <3>2. w.id = wk[h].id /\ w.collected = wk[h].collected
          /\ w.closeRequested = wk[h].closeRequested
      BY <1>0 DEF WorkerRecords
    <3> HIDE DEF w
    <3> QED
      BY <3>1, <3>2
  <2>2. ASSUME NEW timedOut \in BOOLEAN, Complete(h, timedOut)
        PROVE  \E w : /\ wk' = [wk EXCEPT ![h] = w]
                      /\ w.id = wk[h].id /\ w.collected = wk[h].collected
                      /\ w.closeRequested = wk[h].closeRequested
    <3> DEFINE count == IF timedOut THEN wk[h].failures + 1 ELSE 0
    <3>1. wk' = [wk EXCEPT ![h] = [wk[h] EXCEPT !.phase = "completed", !.failures = count]]
      <4>1. CASE timedOut
        BY <2>2, <4>1 DEF Complete
      <4>2. CASE ~timedOut
        BY <2>2, <4>2 DEF Complete
      <4> QED
        BY <4>1, <4>2
    <3> HIDE DEF count
    <3> DEFINE w == [wk[h] EXCEPT !.phase = "completed", !.failures = count]
    <3>2. w.id = wk[h].id /\ w.collected = wk[h].collected
          /\ w.closeRequested = wk[h].closeRequested
      BY <1>0 DEF WorkerRecords
    <3>3. wk' = [wk EXCEPT ![h] = w]
      BY <3>1
    <3> HIDE DEF w
    <3> QED
      BY <3>2, <3>3
  <2>3. CASE Drain(h)
    <3> DEFINE w == [wk[h] EXCEPT !.phase = "drained", !.inbox = FALSE, !.undelivered = wk[h].inbox]
    <3>1. wk' = [wk EXCEPT ![h] = w]
      BY <1>0, <2>3 DEF Drain, TypeOK
    <3>2. w.id = wk[h].id /\ w.collected = wk[h].collected
          /\ w.closeRequested = wk[h].closeRequested
      BY <1>0 DEF WorkerRecords
    <3> HIDE DEF w
    <3> QED
      BY <3>1, <3>2
  <2>4. ASSUME NEW place, wk' = [wk EXCEPT ![h].phase = place]
        PROVE  \E w : /\ wk' = [wk EXCEPT ![h] = w]
                      /\ w.id = wk[h].id /\ w.collected = wk[h].collected
                      /\ w.closeRequested = wk[h].closeRequested
    <3> DEFINE w == [wk[h] EXCEPT !.phase = place]
    <3>1. wk' = [wk EXCEPT ![h] = w]
      BY <1>0, <2>4 DEF TypeOK
    <3>2. w.id = wk[h].id /\ w.collected = wk[h].collected
          /\ w.closeRequested = wk[h].closeRequested
      BY <1>0 DEF WorkerRecords
    <3> HIDE DEF w
    <3> QED
      BY <3>1, <3>2
  <2> QED
    BY <2>1, <2>2, <2>3, <2>4 DEF WorkerStep, Ending, Snap, Remember, CloseDone
<1>3. ~Done(h)
  <2>1. \A timedOut \in BOOLEAN : Complete(h, timedOut) => ~Done(h)
    BY DEF Complete, Done
  <2> QED
    BY <2>1 DEF WorkerStep, Ending, ReadInbox, Drain, Snap, Remember, CloseDone, Done
<1> QED
  BY <1>0, <1>1, <1>2, <1>3, OneHandle

LEMMA ResetTables ==
    ASSUME IInv, ResetTimeouts
    PROVE  TablesStay
<1>1. \A h \in Handles : /\ wk[h] \in WorkerRecords
                         /\ wk'[h] \in {wk[h], [wk[h] EXCEPT !.failures = 0]}
  BY DEF ResetTimeouts, IInv, TypeOK
<1>2. \A w \in WorkerRecords : LET v == [w EXCEPT !.failures = 0]
                               IN /\ v.id = w.id /\ v.collected = w.collected
                                  /\ v.closeRequested = w.closeRequested /\ v.phase = w.phase
  BY DEF WorkerRecords
<1> QED
  BY <1>1, <1>2 DEF TablesStay, Unsettled, Ends, Done, ResetTimeouts

LEMMA SettleTables ==
    ASSUME IInv, NEW c \in Callers, Collect(c) \/ CloseFinished(c) \/ CloseRunning(c)
    PROVE  TablesStay \/ Settles
<1>0. call[c] \in Calls /\ CallSound(call[c])
  BY DEF IInv, TypeOK, CallsSound
<1>1. CASE Collect(c)
  <2>1. PICK token \in call[c].tokens :
            IF Collects(token) THEN Settle(token, FALSE)
            ELSE UNCHANGED <<wk, registry, snap, streak>>
    BY <1>1 DEF Collect
  <2>2. token \in [h : Handles, gen : 0..MaxGen] /\ wk[token.h].id \in Ids /\ FALSE \in BOOLEAN
    BY <1>0, <2>1 DEF Calls, CallSound, Ended
  <2>3. CASE Collects(token)
    BY <2>1, <2>2, <2>3 DEF Settles
  <2>4. CASE ~Collects(token)
    BY <2>1, <2>4, SameTables DEF registry
  <2> QED
    BY <2>3, <2>4
<1>2. CASE CloseFinished(c) \/ CloseRunning(c)
  <2> DEFINE token == [h |-> call[c].h, gen |-> call[c].gen]
  <2>1. token \in [h : Handles, gen : 0..MaxGen] /\ wk[token.h].id \in Ids
    BY <1>0, <1>2 DEF CloseFinished, CloseRunning, CallSound, Calls, Ended
  <2>2. \/ UNCHANGED <<wk, registry, snap, streak>>
        \/ \E discard \in BOOLEAN : Collects(token) /\ Settle(token, discard)
    BY <1>2 DEF CloseFinished, CloseRunning
  <2> HIDE DEF token
  <2>3. UNCHANGED <<wk, registry, snap, streak>> => TablesStay
    BY SameTables DEF registry
  <2> QED
    BY <2>1, <2>2, <2>3 DEF Settles
<1> QED
  BY <1>1, <1>2

LEMMA BeginTables ==
    ASSUME IInv, NEW c \in Callers, Mint(c) \/ ClaimInPlace(c) \/ ClaimFresh(c)
    PROVE  Begins
<1>0. /\ TypeOK /\ LivesSound /\ TablesSound /\ call[c] \in Calls /\ CallSound(call[c])
      /\ TypeOK'
  BY StepKeeps DEF IInv, TypeOK, CallsSound, Next, CallStep, SpawnStep, ResumeStep
<1>1. ASSUME NEW id \in Ids, NEW h \in Handles, NEW gen, NEW failures,
             ~closed, Done(h), wk[h].id \in {Nil, id}, ~(Cardinality(Live) >= Cap),
             wk' = [wk EXCEPT ![h] = Life(id, gen, "claimed", failures)],
             agents' = [agents EXCEPT ![id] = h], pending' = [pending EXCEPT ![id] = h],
             UNCHANGED closed
      PROVE  Begins
  <2> DEFINE w == Life(id, gen, "claimed", failures)
  <2>1. w.id = id /\ w.phase = "claimed" /\ ~w.collected /\ ~w.closeRequested
    BY DEF Life
  <2>2. wk' = [wk EXCEPT ![h] = w]
    BY <1>1
  <2>3. w \in WorkerRecords
    <3> HIDE DEF w
    <3>1. wk'[h] = w
      BY <1>0, <2>2 DEF TypeOK
    <3> QED
      BY <1>0, <3>1 DEF TypeOK
  <2> HIDE DEF w
  <2> QED
    BY <1>1, <2>1, <2>2, <2>3 DEF Begins
<1>2. \A h \in Unused : h \in Handles /\ wk[h].id = Nil /\ Done(h)
  BY <1>0, NilAssumption DEF Unused, LivesSound, LifeSound
<1>3. UNCHANGED closed
  BY DEF Mint, ClaimInPlace, ClaimFresh
<1>4. CASE Mint(c)
  <2>1. PICK id \in {i \in Ids \ minted : RoleOf[i] = call[c].role}, h \in Unused :
          /\ wk' = [wk EXCEPT ![h] = Life(id, 1, "claimed", 0)]
          /\ agents' = [agents EXCEPT ![id] = h]
          /\ pending' = [pending EXCEPT ![id] = h]
    BY <1>4 DEF Mint
  <2>2. ~closed /\ ~(Cardinality(Live) >= Cap)
    <3>1. Cardinality(Live) \in Nat
      <4>1. IsFiniteSet(Live)
        BY FiniteAssumption, FS_Subset DEF Live
      <4> QED
        BY <4>1, FS_CardinalityType
    <3>2. ~closed /\ Cardinality(Live) < Cap
      BY <1>4 DEF Mint
    <3> QED
      BY <3>1, <3>2, BoundsAssumption
  <2> QED
    BY <1>1, <1>2, <1>3, <2>1, <2>2
<1>5. CASE ClaimInPlace(c)
  <2>1. /\ call[c].id \in Ids /\ agents[call[c].id] # Nil /\ ~closed
        /\ Done(agents[call[c].id]) /\ ~Refused(wk[agents[call[c].id]].failures)
    BY <1>0, <1>5 DEF ClaimInPlace, CallSound
  <2>2. PICK id \in Ids : id = call[c].id
    BY <2>1
  <2>3. PICK h \in Handles : h = agents[id] /\ wk[h].id = id
    BY <1>0, <2>1, <2>2 DEF TypeOK, TablesSound
  <2>4. wk' = [wk EXCEPT ![h] = Life(id, wk[h].gen + 1, "claimed", wk[h].failures)]
    BY <1>5, <2>2, <2>3 DEF ClaimInPlace
  <2>5. agents' = [agents EXCEPT ![id] = h]
    BY <1>0, <1>5, <2>3 DEF ClaimInPlace, TypeOK
  <2>6. pending' = [pending EXCEPT ![id] = h]
    BY <1>5, <2>2, <2>3 DEF ClaimInPlace
  <2> QED
    BY <1>1, <2>1, <2>2, <2>3, <2>4, <2>5, <2>6, <1>3 DEF Refused
<1>6. CASE ClaimFresh(c)
  <2>1. PICK h \in Unused :
          /\ wk' = [wk EXCEPT ![h] = Life(call[c].id, call[c].past.gen + 1, "claimed",
                                          call[c].past.failures)]
          /\ agents' = [agents EXCEPT ![call[c].id] = h]
          /\ pending' = [pending EXCEPT ![call[c].id] = h]
    BY <1>6 DEF ClaimFresh
  <2>2. call[c].id \in Ids /\ ~closed /\ ~Refused(call[c].past.failures)
    BY <1>0, <1>6 DEF ClaimFresh, CallSound
  <2> QED
    BY <1>1, <1>2, <1>3, <2>1, <2>2 DEF Refused
<1> QED
  BY <1>4, <1>5, <1>6

LEMMA StepKinds ==
    ASSUME IInv, [Next]_vars
    PROVE  TablesStay \/ Stats \/ Empties \/ Settles \/ Begins
<1>1. ASSUME NEW c \in Callers, BeginStep(c) \/ CallStep(c)
      PROVE  TablesStay \/ Empties \/ Settles \/ Begins
  <2>1. \/ QuietCall(c) \/ Shutdown(c)
        \/ Start(c) \/ Push(c) \/ CloseCancel(c) \/ CancelNext(c)
        \/ Collect(c) \/ CloseFinished(c) \/ CloseRunning(c)
        \/ Mint(c) \/ ClaimInPlace(c) \/ ClaimFresh(c)
    BY <1>1 DEF BeginStep, CallStep, SpawnStep, ResumeStep, SettleStep, HostStep, QuietCall
  <2>2. Shutdown(c) => Empties
    BY DEF Shutdown, Empties
  <2> QED
    BY <2>1, <2>2, QuietTables, HandleCallTables, SettleTables, BeginTables
<1>2. CASE UNCHANGED vars
  BY <1>2, SameTables DEF vars
<1> QED
  BY <1>1, <1>2, WorkerTables, ResetTables DEF Next

-----------------------------------------------------------------------------
\* What follows for the results that are owed, for Close and for the cap.

\* A settlement leaves the life collected or discarded.
LEMMA SettledMark ==
    ASSUME TypeOK, NEW h \in Handles, NEW discard \in BOOLEAN
    PROVE  LET w == [wk[h] EXCEPT !.collected = ~discard, !.closeRequested = discard]
           IN  w.collected \/ w.closeRequested
<1> DEFINE w == [wk[h] EXCEPT !.collected = ~discard, !.closeRequested = discard]
<1>1. wk[h] \in WorkerRecords
  BY DEF TypeOK
<1>2. w.collected = ~discard /\ w.closeRequested = discard
  BY <1>1 DEF WorkerRecords
<1> HIDE DEF w
<1>3. w.collected \/ w.closeRequested
  BY <1>2, Zenon
<1> QED
  BY <1>3 DEF w

LEMMA OwedKept ==
    ASSUME IInv, Owed, [Next]_vars
    PROVE  Owed'
<1>0. /\ TypeOK /\ TablesSound /\ Nil \notin Ids /\ Nil \notin Handles
  BY NilAssumption DEF IInv
<1>1. CASE TablesStay
  BY <1>0, <1>1 DEF Owed, TablesStay, Unsettled, TypeOK
<1>2. CASE Stats
  BY <1>2 DEF Owed, Stats
<1>3. CASE Empties
  BY <1>3 DEF Owed, Empties
<1>4. CASE Settles
  <2>1. PICK token \in [h : Handles, gen : 0..MaxGen], discard \in BOOLEAN :
            Collects(token) /\ Settle(token, discard)
    BY <1>4 DEF Settles
  <2>2. PICK h \in Handles : h = token.h
    BY <2>1
  <2> DEFINE w == [wk[h] EXCEPT !.collected = ~discard, !.closeRequested = discard]
  <2>3. w.collected \/ w.closeRequested
    BY <1>0, SettledMark
  <2>4. /\ \A k \in Handles : wk'[k] = IF k = h THEN w ELSE wk[k]
        /\ agents' = agents /\ pending[wk[h].id] = h
        /\ \A id \in Ids : pending'[id] = IF id = wk[h].id THEN Nil ELSE pending[id]
    BY <1>0, <2>1, <2>2 DEF Settle, Collects, TypeOK
  <2> HIDE DEF w
  <2> SUFFICES ASSUME NEW id \in Ids, agents[id] # Nil, ~wk'[agents[id]].collected,
                      ~wk'[agents[id]].closeRequested
               PROVE  pending'[id] = agents[id]
    BY <2>4 DEF Owed
  <2>5. agents[id] \in Handles /\ agents[id] # h
    BY <1>0, <2>3, <2>4 DEF TypeOK
  <2>6. pending[id] = agents[id]
    BY <2>4, <2>5 DEF Owed
  <2> QED
    BY <2>4, <2>5, <2>6
<1>5. CASE Begins
  <2>1. PICK id \in Ids, h \in Handles, w \in WorkerRecords :
            /\ wk[h].id \in {Nil, id} /\ wk' = [wk EXCEPT ![h] = w]
            /\ agents' = [agents EXCEPT ![id] = h] /\ pending' = [pending EXCEPT ![id] = h]
    BY <1>5 DEF Begins
  <2>2. ASSUME NEW i \in Ids, i # id, agents[i] # Nil
        PROVE  wk'[agents[i]] = wk[agents[i]]
    BY <1>0, <2>1, <2>2 DEF TypeOK, TablesSound
  <2> QED
    BY <1>0, <2>1, <2>2 DEF Owed, TypeOK
<1> QED
  BY <1>1, <1>2, <1>3, <1>4, <1>5, StepKinds

\* A worker that the roster has and nobody has settled is owed, for any callers, ids and
\* handles: wait_agents can find its result (notePendingLocked, collectWorker, Stats).
THEOREM ResultsOwed == Spec => []Owed
<1>1. Init => Owed
  BY DEF Init, Owed
<1> QED
  BY <1>1, StartsSound, StepKeeps, OwedKept, PTL DEF Spec

\* A debt goes only with its settlement, a later life of the worker, or the registry.
THEOREM DebtsKept == Spec => DebtKept
<1> DEFINE Kept0 ==
      \A id \in Ids : pending[id] # Nil /\ pending'[id] # pending[id] =>
          \/ wk'[pending[id]].collected \/ wk'[pending[id]].closeRequested
          \/ pending'[id] # Nil /\ pending'[id] = agents'[id]
          \/ closed'
<1>1. IInv /\ [Next]_vars => Kept0
  <2> SUFFICES ASSUME IInv, [Next]_vars PROVE Kept0
    OBVIOUS
  <2>0. TypeOK /\ Nil \notin Handles
    BY NilAssumption DEF IInv
  <2>1. CASE TablesStay \/ Stats \/ Empties
    BY <2>1 DEF TablesStay, Stats, Empties
  <2>2. CASE Settles
    <3>1. PICK token \in [h : Handles, gen : 0..MaxGen], discard \in BOOLEAN :
              Collects(token) /\ Settle(token, discard)
      BY <2>2 DEF Settles
    <3>2. PICK h \in Handles : h = token.h
      BY <3>1
    <3> DEFINE w == [wk[h] EXCEPT !.collected = ~discard, !.closeRequested = discard]
    <3>3. w.collected \/ w.closeRequested
      BY <2>0, SettledMark
    <3>4. /\ wk'[h] = w /\ pending[wk[h].id] = h
          /\ \A id \in Ids : pending'[id] = IF id = wk[h].id THEN Nil ELSE pending[id]
      BY <2>0, <3>1, <3>2 DEF Settle, Collects, TypeOK
    <3> HIDE DEF w
    <3> QED
      BY <3>3, <3>4
  <2>3. CASE Begins
    BY <2>0, <2>3 DEF Begins, TypeOK
  <2> QED
    BY <2>1, <2>2, <2>3, StepKinds
<1>2. Kept0 => [Kept0]_vars
  OBVIOUS
<1> QED
  BY <1>1, <1>2, StartsSound, StepKeeps, PTL DEF Spec, DebtKept

\* Close is for good: whatever call was under way, no life begins after it.
THEOREM ClosedForGood == Spec => NoLifeAfterClose
<1> DEFINE None == closed => \A h \in Handles : Done(h) => Done(h)'
<1>1. IInv /\ [Next]_vars => None
  <2> SUFFICES ASSUME IInv, [Next]_vars, closed, NEW h \in Handles, Done(h)
               PROVE  Done(h)'
    OBVIOUS
  <2>1. CASE TablesStay
    BY <2>1 DEF TablesStay, Unsettled
  <2>2. CASE Stats \/ Empties
    BY <2>2 DEF Stats, Empties, Done
  <2>3. CASE Settles
    <3>1. PICK token \in [h : Handles, gen : 0..MaxGen], discard \in BOOLEAN :
              Settle(token, discard)
      BY <2>3 DEF Settles
    <3> QED
      BY <3>1 DEF Settle, IInv, TypeOK, WorkerRecords, Done
  <2>4. CASE Begins
    BY <2>4 DEF Begins
  <2> QED
    BY <2>1, <2>2, <2>3, <2>4, StepKinds
<1>2. None => [None]_vars
  OBVIOUS
<1> QED
  BY <1>1, <1>2, StartsSound, StepKeeps, PTL DEF Spec, NoLifeAfterClose

\* The cap holds for spawn_agent and resume_agent together: a step that adds a live
\* worker leaves at most as many as the cap (liveCountLocked in the section of the claim).
THEOREM CapHolds == Spec => CapRespected
<1> DEFINE Respected == Live' \subseteq Live \/ Cardinality(Live') <= Cap
<1>1. IInv /\ [Next]_vars => Respected
  <2> SUFFICES ASSUME IInv, [Next]_vars PROVE Respected
    OBVIOUS
  <2>0. TypeOK /\ Nil \notin Handles
    BY NilAssumption DEF IInv
  <2>1. CASE TablesStay
    BY <2>1 DEF TablesStay, Unsettled, Live
  <2>2. CASE Stats
    BY <2>0, <2>2 DEF Stats, Live, Done
  <2>3. CASE Empties
    BY <2>0, <2>3 DEF Empties, Live, Done
  <2>4. CASE Settles
    <3>1. PICK token \in [h : Handles, gen : 0..MaxGen], discard \in BOOLEAN :
              Settle(token, discard)
      BY <2>4 DEF Settles
    <3>2. agents' = agents /\ \A k \in Handles : wk'[k].id = wk[k].id /\ wk'[k].phase = wk[k].phase
      BY <2>0, <3>1 DEF Settle, TypeOK, WorkerRecords
    <3> QED
      BY <3>2 DEF Live, Done
  <2>5. CASE Begins
    <3>1. PICK id \in Ids, h \in Handles, w \in WorkerRecords :
              /\ ~(Cardinality(Live) >= Cap) /\ wk' = [wk EXCEPT ![h] = w]
              /\ w.id = id /\ agents' = [agents EXCEPT ![id] = h]
      BY <2>5 DEF Begins
    <3>2. Live' \subseteq Live \cup {h}
      BY <2>0, <3>1 DEF Live, Done, TypeOK
    <3>3. IsFiniteSet(Live) /\ IsFiniteSet(Live \cup {h})
      BY FiniteAssumption, FS_Subset DEF Live
    <3>4. /\ Cardinality(Live) \in Nat /\ Cardinality(Live') \in Nat
          /\ Cardinality(Live') <= Cardinality(Live \cup {h})
      BY <3>2, <3>3, FS_Subset, FS_CardinalityType
    <3>5. Cardinality(Live \cup {h}) \in {Cardinality(Live), Cardinality(Live) + 1}
      BY <3>3, FS_AddElement
    <3> QED
      BY <3>1, <3>4, <3>5, BoundsAssumption
  <2> QED
    BY <2>1, <2>2, <2>3, <2>4, <2>5, StepKinds
<1>2. Respected => [Respected]_vars
  OBVIOUS
<1> QED
  BY <1>1, <1>2, StartsSound, StepKeeps, PTL DEF Spec, CapRespected

-----------------------------------------------------------------------------
\* One pointer per id.  A claim makes a second pointer only after Stats has forgotten the
\* first, so what compares ids and counts per id is right as long as Stats is not called.

OnePointerPerId == \A h, k \in Handles : wk[h].id \in Ids /\ wk[h].id = wk[k].id => h = k

\* An id that was handed out went to some pointer, and pointers keep their id.
MintedHasPointer == \A id \in minted : \E h \in Handles : wk[h].id = id

\* Nobody leaves the roster before Close.
RosterLasts == ~closed => \A id \in minted : agents[id] # Nil

\* What is counted per id is also on the pointer, where the budget is tested.
StreakCounted ==
    \A id \in Ids : streak[id] > 0 => \E h \in Handles : wk[h].id = id /\ streak[id] <= wk[h].failures

\* The three steps that begin a life.
Births == \E c \in Callers : Mint(c) \/ ClaimInPlace(c) \/ ClaimFresh(c)

LEMMA StepsApart ==
    ASSUME IInv, [Next]_vars
    PROVE  Births \/ (UNCHANGED minted /\ (TablesStay \/ Stats \/ Empties \/ Settles))
<1>1. ASSUME NEW c \in Callers, BeginStep(c) \/ CallStep(c)
      PROVE  Births \/ (UNCHANGED minted /\ (TablesStay \/ Empties \/ Settles))
  <2>1. \/ QuietCall(c) \/ Shutdown(c)
        \/ Start(c) \/ Push(c) \/ CloseCancel(c) \/ CancelNext(c)
        \/ Collect(c) \/ CloseFinished(c) \/ CloseRunning(c)
        \/ Mint(c) \/ ClaimInPlace(c) \/ ClaimFresh(c)
    BY <1>1 DEF BeginStep, CallStep, SpawnStep, ResumeStep, SettleStep, HostStep, QuietCall
  <2>2. Shutdown(c) => Empties /\ UNCHANGED minted
    BY DEF Shutdown, Empties
  <2>3. QuietCall(c) => UNCHANGED minted
    BY DEF registry, QuietCall, SpawnLock, ResumeCall, SendCall, CloseCall, ObserveCall, WaitCall,
           SpawnFindRunning, SpawnNoneRunning, SpawnSteer, SpawnRunningGone, SpawnReuse,
           SpawnNoneReusable, MintRefused, Recall, RecallRefused, ClaimRefused, WaitSnapshot,
           WaitReturn, Cleanup, CancelReturn, ObserveEnd, ObserveReturn, OutOfBounds
  <2>4. Start(c) \/ Push(c) \/ CloseCancel(c) \/ CancelNext(c) => UNCHANGED minted
    BY DEF Start, Push, CloseCancel, CancelNext, registry
  <2>5. Collect(c) \/ CloseFinished(c) \/ CloseRunning(c) => UNCHANGED minted
    <3>1. ASSUME NEW token, NEW discard, Settle(token, discard) PROVE UNCHANGED minted
      BY <3>1 DEF Settle
    <3> QED
      BY <3>1 DEF Collect, CloseFinished, CloseRunning, registry
  <2> QED
    BY <2>1, <2>2, <2>3, <2>4, <2>5, QuietTables, HandleCallTables, SettleTables DEF Births
<1>2. CASE UNCHANGED vars
  BY <1>2, SameTables DEF vars
<1>3. ASSUME NEW h \in Handles, WorkerStep(h) PROVE UNCHANGED minted
  <2>1. ASSUME NEW timedOut \in BOOLEAN, Complete(h, timedOut) PROVE UNCHANGED minted
    BY <2>1 DEF Complete, registry
  <2> QED
    BY <1>3, <2>1 DEF WorkerStep, Ending, ReadInbox, Drain, Snap, Remember, CloseDone, registry
<1>4. Stats \/ ResetTimeouts => UNCHANGED minted
  BY DEF Stats, ResetTimeouts
<1> QED
  BY <1>1, <1>2, <1>3, <1>4, WorkerTables, ResetTables DEF Next

LEMMA IdsStay ==
    ASSUME IInv, [Next]_vars, NEW h \in Handles, wk[h].id # Nil
    PROVE  wk'[h].id = wk[h].id
<1>0. TypeOK
  BY DEF IInv
<1>1. CASE TablesStay
  BY <1>1 DEF TablesStay, Unsettled
<1>2. CASE Stats \/ Empties
  BY <1>2 DEF Stats, Empties
<1>3. CASE Settles
  <2>1. PICK token \in [h : Handles, gen : 0..MaxGen], discard \in BOOLEAN :
            Settle(token, discard)
    BY <1>3 DEF Settles
  <2> QED
    BY <1>0, <2>1 DEF Settle, TypeOK, WorkerRecords
<1>4. CASE Begins
  BY <1>0, <1>4 DEF Begins, TypeOK
<1> QED
  BY <1>1, <1>2, <1>3, <1>4, StepKinds

LEMMA MintedKept ==
    ASSUME IInv, MintedHasPointer, [Next]_vars
    PROVE  MintedHasPointer'
<1>0. TypeOK /\ Nil \notin Ids
  BY NilAssumption DEF IInv
<1>1. ASSUME NEW id \in minted PROVE \E h \in Handles : wk'[h].id = id
  <2>1. PICK h \in Handles : wk[h].id = id
    BY DEF MintedHasPointer
  <2>2. wk[h].id # Nil
    BY <1>0, <2>1 DEF TypeOK
  <2> QED
    BY <2>1, <2>2, IdsStay
<1>2. CASE UNCHANGED minted
  BY <1>1, <1>2 DEF MintedHasPointer
<1>3. ASSUME NEW c \in Callers, Mint(c) PROVE MintedHasPointer'
  <2>1. PICK id \in Ids, h \in Handles :
            minted' = minted \cup {id} /\ wk' = [wk EXCEPT ![h] = Life(id, 1, "claimed", 0)]
    BY <1>3 DEF Mint, Unused
  <2>2. wk'[h].id = id
    BY <1>0, <2>1 DEF TypeOK, Life
  <2> QED
    BY <1>1, <2>1, <2>2 DEF MintedHasPointer
<1>4. ASSUME NEW c \in Callers, ClaimInPlace(c) \/ ClaimFresh(c) PROVE UNCHANGED minted
  BY <1>4 DEF ClaimInPlace, ClaimFresh
<1> QED
  BY <1>2, <1>3, <1>4, StepsApart DEF Births

\* A fresh pointer for an id that was handed out is a second one.
LEMMA FreshIsSecond ==
    ASSUME IInv, MintedHasPointer, [Next]_vars, OnePointerPerId', NEW c \in Callers, ClaimFresh(c)
    PROVE  FALSE
<1>0. TypeOK /\ Nil \notin Ids /\ CallSound(call[c]) /\ minted \subseteq Ids
  BY NilAssumption DEF IInv, TypeOK, CallsSound
<1>1. PICK id \in minted : id = call[c].id
  BY <1>0 DEF ClaimFresh, CallSound
<1>2. PICK h \in Unused : wk' = [wk EXCEPT ![h] = Life(id, call[c].past.gen + 1, "claimed",
                                                       call[c].past.failures)]
  BY <1>1 DEF ClaimFresh
<1>3. PICK k \in Handles : wk[k].id = id
  BY DEF MintedHasPointer
<1>4. h \in Handles /\ wk[h].id = Nil /\ wk'[h].id = id
  BY <1>0, <1>2 DEF Unused, TypeOK, Life
<1>5. h # k /\ wk'[k].id = id
  BY <1>0, <1>3, <1>4, IdsStay
<1> QED
  BY <1>0, <1>3, <1>4, <1>5 DEF OnePointerPerId

LEMMA PointersKept ==
    ASSUME "stats" \notin Tools, IInv, OnePointerPerId, RosterLasts, [Next]_vars
    PROVE  OnePointerPerId' /\ RosterLasts'
<1>0. /\ TypeOK /\ TablesSound /\ LivesSound /\ minted \subseteq Ids
      /\ Nil \notin Ids /\ Nil \notin Handles
  BY NilAssumption DEF IInv, TypeOK
<1>1. ASSUME \A h \in Handles : wk'[h].id = wk[h].id PROVE OnePointerPerId'
  BY <1>1 DEF OnePointerPerId
<1>2. CASE UNCHANGED minted /\ (TablesStay \/ Empties \/ Settles)
  <2>1. CASE TablesStay
    BY <1>1, <1>2, <2>1 DEF TablesStay, Unsettled, RosterLasts
  <2>2. CASE Empties
    BY <1>1, <2>2 DEF Empties, RosterLasts
  <2>3. CASE Settles
    <3>1. PICK token \in [h : Handles, gen : 0..MaxGen], discard \in BOOLEAN :
              Settle(token, discard)
      BY <2>3 DEF Settles
    <3>2. /\ UNCHANGED <<agents, closed>>
          /\ \A h \in Handles : wk'[h].id = wk[h].id
      BY <1>0, <3>1 DEF Settle, TypeOK, WorkerRecords
    <3> QED
      BY <1>1, <1>2, <3>2 DEF RosterLasts
  <2> QED
    BY <1>2, <2>1, <2>2, <2>3
<1>3. ASSUME NEW c \in Callers, Mint(c) PROVE OnePointerPerId' /\ RosterLasts'
  <2>1. PICK id \in Ids \ minted, h \in Unused :
          /\ wk' = [wk EXCEPT ![h] = Life(id, 1, "claimed", 0)]
          /\ agents' = [agents EXCEPT ![id] = h] /\ minted' = minted \cup {id}
    BY <1>3 DEF Mint
  <2>2. \A k \in Handles : wk'[k].id = IF k = h THEN id ELSE wk[k].id
    BY <1>0, <2>1 DEF TypeOK, Life, Unused
  <2>3. \A k \in Handles : wk[k].id # id
    BY <1>0, <2>1 DEF LivesSound, LifeSound
  <2>4. OnePointerPerId'
    BY <2>2, <2>3 DEF OnePointerPerId
  <2>5. h # Nil /\ ~closed
    BY <1>0, <1>3, <2>1 DEF Unused, Mint
  <2>6. RosterLasts'
    BY <1>0, <2>1, <2>5 DEF RosterLasts, TypeOK
  <2> QED
    BY <2>4, <2>6
<1>4. ASSUME NEW c \in Callers, ClaimInPlace(c) PROVE OnePointerPerId' /\ RosterLasts'
  <2>1. call[c].id \in Ids
    BY <1>4 DEF IInv, CallsSound, CallSound, ClaimInPlace
  <2>2. PICK h \in Handles :
            wk' = [wk EXCEPT ![h] = Life(wk[h].id, wk[h].gen + 1, "claimed", wk[h].failures)]
    BY <1>0, <1>4, <2>1 DEF ClaimInPlace, TypeOK
  <2>3. \A k \in Handles : wk'[k].id = wk[k].id
    BY <1>0, <2>2 DEF TypeOK, Life
  <2> QED
    BY <1>1, <1>4, <2>3 DEF ClaimInPlace, RosterLasts
<1>5. ASSUME NEW c \in Callers, ClaimFresh(c) PROVE FALSE
  BY <1>5 DEF IInv, CallsSound, CallSound, ClaimFresh, RosterLasts
<1>6. ~Stats
  BY DEF Stats
<1> QED
  BY <1>2, <1>3, <1>4, <1>5, <1>6, StepsApart DEF Births

\* In a host that never calls Stats, an id has one pointer for the life of the registry.
THEOREM PointersAreUnique == "stats" \notin Tools => (Spec => []OnePointerPerId)
<1> SUFFICES ASSUME "stats" \notin Tools PROVE Spec => []OnePointerPerId
  OBVIOUS
<1>1. Init => OnePointerPerId /\ RosterLasts
  BY NilAssumption DEF Init, OnePointerPerId, RosterLasts, Unborn, Life
<1>2. IInv /\ OnePointerPerId /\ RosterLasts /\ [Next]_vars => OnePointerPerId' /\ RosterLasts'
  BY PointersKept
<1> QED
  BY <1>1, <1>2, StartsSound, StepKeeps, PTL DEF Spec

-----------------------------------------------------------------------------
\* The watchdog budget and the observers, as long as an id has one pointer.

\* What a step does to the counts: it leaves them to their pointers, it is the end of a
\* run, the human's reset, or the claim of a fresh pointer.
CountsStay == streak' = streak /\ \A h \in Handles : wk[h].id # Nil =>
    wk'[h].id = wk[h].id /\ wk'[h].failures = wk[h].failures

LEMMA SameCounts ==
    ASSUME UNCHANGED <<wk, streak>>
    PROVE  CountsStay
BY DEF CountsStay

LEMMA CountsOfOne ==
    ASSUME TypeOK, NEW h \in Handles, NEW w, wk' = [wk EXCEPT ![h] = w],
           wk[h].id # Nil => w.id = wk[h].id /\ w.failures = wk[h].failures, UNCHANGED streak
    PROVE  CountsStay
BY DEF TypeOK, CountsStay

LEMMA SettleCounts ==
    ASSUME TypeOK, NEW token \in [h : Handles, gen : 0..MaxGen], NEW discard, Settle(token, discard)
    PROVE  CountsStay
<1>1. wk[token.h] \in WorkerRecords
  BY DEF TypeOK
<1> DEFINE w == [wk[token.h] EXCEPT !.collected = ~discard, !.closeRequested = discard]
<1>2. w.id = wk[token.h].id /\ w.failures = wk[token.h].failures
  BY <1>1 DEF WorkerRecords
<1>3. wk' = [wk EXCEPT ![token.h] = w] /\ UNCHANGED streak
  BY DEF Settle
<1> HIDE DEF w
<1> QED
  BY <1>2, <1>3, CountsOfOne

LEMMA CancelCounts ==
    ASSUME TypeOK, NEW h \in Handles, CancelWorker(h), UNCHANGED streak
    PROVE  CountsStay
<1>1. CASE wk' = wk
  BY <1>1, SameCounts
<1>2. CASE wk' = [wk EXCEPT ![h].cancelled = TRUE]
  <2> DEFINE w == [wk[h] EXCEPT !.cancelled = TRUE]
  <2>1. wk' = [wk EXCEPT ![h] = w]
    BY <1>2 DEF TypeOK
  <2>2. w.id = wk[h].id /\ w.failures = wk[h].failures
    BY DEF TypeOK, WorkerRecords
  <2> HIDE DEF w
  <2> QED
    BY <2>1, <2>2, CountsOfOne
<1> QED
  BY <1>1, <1>2 DEF CancelWorker

LEMMA CallCounts ==
    ASSUME IInv, NEW c \in Callers, BeginStep(c) \/ CallStep(c)
    PROVE  CountsStay \/ ClaimFresh(c)
<1>0. TypeOK /\ call[c] \in Calls /\ CallSound(call[c]) /\ Nil \notin Ids
  BY NilAssumption DEF IInv, TypeOK, CallsSound
<1>1. \/ QuietCall(c) \/ Shutdown(c)
      \/ Start(c) \/ Push(c) \/ CloseCancel(c) \/ CancelNext(c)
      \/ Collect(c) \/ CloseFinished(c) \/ CloseRunning(c)
      \/ Mint(c) \/ ClaimInPlace(c) \/ ClaimFresh(c)
  BY DEF BeginStep, CallStep, SpawnStep, ResumeStep, SettleStep, HostStep, QuietCall
<1>2. CASE QuietCall(c) \/ Shutdown(c)
  <2>1. UNCHANGED <<wk, streak>>
    BY <1>2 DEF QuietCall, SpawnLock, ResumeCall, SendCall, CloseCall, ObserveCall, WaitCall,
         SpawnFindRunning, SpawnNoneRunning, SpawnSteer, SpawnRunningGone, SpawnReuse,
         SpawnNoneReusable, MintRefused, Recall, RecallRefused, ClaimRefused, WaitSnapshot,
         WaitReturn, Cleanup, CancelReturn, ObserveEnd, ObserveReturn, OutOfBounds, Shutdown
  <2> QED
    BY <2>1, SameCounts
<1>3. CASE Start(c)
  <2> DEFINE h == call[c].h
             w == [wk[h] EXCEPT !.phase = "running", !.cancelled = wk[h].closeRequested]
  <2>1. h \in Handles /\ wk' = [wk EXCEPT ![h] = w] /\ UNCHANGED streak
    BY <1>0, <1>3 DEF Start, CallSound
  <2>2. w.id = wk[h].id /\ w.failures = wk[h].failures
    BY <1>0, <2>1 DEF TypeOK, WorkerRecords
  <2> HIDE DEF h, w
  <2> QED
    BY <1>0, <2>1, <2>2, CountsOfOne
<1>4. CASE Push(c)
  <2> DEFINE h == call[c].h
             w == [wk[h] EXCEPT !.inbox = TRUE]
  <2>1. h \in Handles /\ wk' = [wk EXCEPT ![h] = w] /\ UNCHANGED streak
    BY <1>0, <1>4 DEF Push, CallSound, TypeOK
  <2>2. w.id = wk[h].id /\ w.failures = wk[h].failures
    BY <1>0, <2>1 DEF TypeOK, WorkerRecords
  <2> HIDE DEF h, w
  <2> QED
    BY <1>0, <2>1, <2>2, CountsOfOne
<1>5. CASE CloseCancel(c)
  <2>1. call[c].h \in Handles /\ UNCHANGED streak
    BY <1>0, <1>5 DEF CloseCancel, CallSound
  <2> QED
    BY <1>0, <1>5, <2>1, CancelCounts, SameCounts DEF CloseCancel
<1>6. CASE CancelNext(c)
  <2>1. call[c].todo \subseteq Handles /\ UNCHANGED streak
    BY <1>0, <1>6 DEF CancelNext, CallSound
  <2> QED
    BY <1>0, <1>6, <2>1, CancelCounts DEF CancelNext
<1>7. CASE Collect(c)
  <2>1. PICK token \in call[c].tokens :
            IF Collects(token) THEN Settle(token, FALSE)
            ELSE UNCHANGED <<wk, registry, snap, streak>>
    BY <1>7 DEF Collect
  <2>2. token \in [h : Handles, gen : 0..MaxGen]
    BY <1>0, <2>1 DEF Calls
  <2> QED
    BY <1>0, <2>1, <2>2, SettleCounts, SameCounts
<1>8. CASE CloseFinished(c) \/ CloseRunning(c)
  <2> DEFINE token == [h |-> call[c].h, gen |-> call[c].gen]
  <2>1. token \in [h : Handles, gen : 0..MaxGen]
    BY <1>0, <1>8 DEF CloseFinished, CloseRunning, CallSound, Calls
  <2>2. \/ UNCHANGED <<wk, registry, snap, streak>>
        \/ Settle(token, FALSE) \/ Settle(token, TRUE)
    BY <1>8 DEF CloseFinished, CloseRunning
  <2> HIDE DEF token
  <2> QED
    BY <1>0, <2>1, <2>2, SettleCounts, SameCounts
<1>9. CASE Mint(c)
  <2>1. PICK id \in Ids, h \in Unused :
            wk' = [wk EXCEPT ![h] = Life(id, 1, "claimed", 0)] /\ UNCHANGED streak
    BY <1>9 DEF Mint
  <2> QED
    BY <1>0, <2>1, CountsOfOne DEF Unused
<1>10. CASE ClaimInPlace(c)
  <2>1. call[c].id \in Ids
    BY <1>0, <1>10 DEF ClaimInPlace, CallSound
  <2>2. PICK h \in Handles :
            /\ wk' = [wk EXCEPT ![h] = Life(wk[h].id, wk[h].gen + 1, "claimed", wk[h].failures)]
            /\ UNCHANGED streak
    BY <1>0, <1>10, <2>1 DEF ClaimInPlace, TypeOK
  <2> DEFINE w == Life(wk[h].id, wk[h].gen + 1, "claimed", wk[h].failures)
  <2>3. w.id = wk[h].id /\ w.failures = wk[h].failures
    BY DEF Life
  <2> HIDE DEF w
  <2> QED
    BY <1>0, <2>2, <2>3, CountsOfOne DEF w
<1> QED
  BY <1>1, <1>2, <1>3, <1>4, <1>5, <1>6, <1>7, <1>8, <1>9, <1>10

LEMMA WorkerCounts ==
    ASSUME IInv, NEW h \in Handles, WorkerStep(h)
    PROVE  CountsStay \/ \E timedOut \in BOOLEAN : Complete(h, timedOut)
<1>0. TypeOK /\ wk[h] \in WorkerRecords
  BY DEF IInv, TypeOK
<1>1. CASE ReadInbox(h)
  <2> DEFINE w == [wk[h] EXCEPT !.inbox = FALSE]
  <2>1. wk' = [wk EXCEPT ![h] = w] /\ UNCHANGED streak
    BY <1>0, <1>1 DEF ReadInbox, TypeOK
  <2>2. w.id = wk[h].id /\ w.failures = wk[h].failures
    BY <1>0 DEF WorkerRecords
  <2> HIDE DEF w
  <2> QED
    BY <1>0, <2>1, <2>2, CountsOfOne
<1>2. CASE Drain(h)
  <2> DEFINE w == [wk[h] EXCEPT !.phase = "drained", !.inbox = FALSE, !.undelivered = wk[h].inbox]
  <2>1. wk' = [wk EXCEPT ![h] = w] /\ UNCHANGED streak
    BY <1>0, <1>2 DEF Drain, TypeOK
  <2>2. w.id = wk[h].id /\ w.failures = wk[h].failures
    BY <1>0 DEF WorkerRecords
  <2> HIDE DEF w
  <2> QED
    BY <1>0, <2>1, <2>2, CountsOfOne
<1>3. ASSUME NEW place, wk' = [wk EXCEPT ![h].phase = place], UNCHANGED streak
      PROVE  CountsStay
  <2> DEFINE w == [wk[h] EXCEPT !.phase = place]
  <2>1. wk' = [wk EXCEPT ![h] = w]
    BY <1>0, <1>3 DEF TypeOK
  <2>2. w.id = wk[h].id /\ w.failures = wk[h].failures
    BY <1>0 DEF WorkerRecords
  <2> HIDE DEF w
  <2> QED
    BY <1>0, <1>3, <2>1, <2>2, CountsOfOne
<1> QED
  BY <1>1, <1>2, <1>3 DEF WorkerStep, Ending, Snap, Remember, CloseDone

LEMMA StreakKept ==
    ASSUME IInv, MintedHasPointer, StreakCounted, OnePointerPerId, OnePointerPerId', [Next]_vars
    PROVE  StreakCounted'
<1>0. TypeOK /\ LivesSound /\ Nil \notin Ids
  BY NilAssumption DEF IInv
<1>1. CASE CountsStay
  <2> SUFFICES ASSUME NEW id \in Ids, streak'[id] > 0
               PROVE  \E h \in Handles : wk'[h].id = id /\ streak'[id] <= wk'[h].failures
    BY DEF StreakCounted
  <2>1. PICK h \in Handles : wk[h].id = id /\ streak[id] <= wk[h].failures
    BY <1>1 DEF CountsStay, StreakCounted
  <2> QED
    BY <1>0, <1>1, <2>1 DEF CountsStay
<1>2. ASSUME NEW h \in Handles, NEW timedOut \in BOOLEAN, Complete(h, timedOut)
      PROVE  StreakCounted'
  <2> DEFINE count == IF timedOut THEN wk[h].failures + 1 ELSE 0
             w == [wk[h] EXCEPT !.phase = "completed", !.failures = count]
  <2>1. wk[h].phase = "running" /\ wk[h].id \in Ids /\ wk[h] \in WorkerRecords
    BY <1>0, <1>2 DEF Complete, LivesSound, LifeSound, Done, TypeOK
  <2>2. wk' = [wk EXCEPT ![h] = w]
    <3>1. CASE timedOut
      BY <1>2, <3>1 DEF Complete
    <3>2. CASE ~timedOut
      BY <1>2, <3>2 DEF Complete
    <3> QED
      BY <3>1, <3>2
  <2>3. w.id = wk[h].id /\ w.failures = count
    BY <2>1 DEF WorkerRecords
  <2>4. /\ wk'[h].id = wk[h].id /\ wk'[h].failures = count
        /\ \A k \in Handles \ {h} : wk'[k] = wk[k]
    <3> HIDE DEF w
    <3> QED
      BY <1>0, <2>2, <2>3 DEF TypeOK
  <2>5. /\ streak'[wk[h].id] = IF timedOut THEN streak[wk[h].id] + 1 ELSE 0
        /\ \A id \in Ids \ {wk[h].id} : streak'[id] = streak[id]
    BY <1>0, <1>2, <2>1 DEF Complete, TypeOK
  <2>6. ASSUME NEW id \in Ids, streak'[id] > 0, id # wk[h].id
        PROVE  \E k \in Handles : wk'[k].id = id /\ streak'[id] <= wk'[k].failures
    <3>1. PICK k \in Handles : wk[k].id = id /\ streak[id] <= wk[k].failures
      BY <2>5, <2>6 DEF StreakCounted
    <3> QED
      BY <2>4, <2>5, <2>6, <3>1
  <2>7. ASSUME streak'[wk[h].id] > 0 PROVE streak'[wk[h].id] <= wk'[h].failures
    <3>1. timedOut /\ streak'[wk[h].id] = streak[wk[h].id] + 1 /\ wk'[h].failures = wk[h].failures + 1
      BY <2>4, <2>5, <2>7
    <3>2. wk[h].failures \in Nat /\ streak[wk[h].id] \in Nat
      BY <1>0, <2>1, BoundsAssumption DEF TypeOK, WorkerRecords
    <3>3. CASE streak[wk[h].id] = 0
      BY <3>1, <3>2, <3>3
    <3>4. CASE streak[wk[h].id] > 0
      <4>1. streak[wk[h].id] <= wk[h].failures
        BY <2>1, <3>4 DEF StreakCounted, OnePointerPerId
      <4> QED
        BY <3>1, <3>2, <4>1
    <3> QED
      BY <3>2, <3>3, <3>4
  <2> QED
    BY <2>4, <2>6, <2>7 DEF StreakCounted
<1>3. CASE ResetTimeouts
  BY <1>3 DEF ResetTimeouts, StreakCounted
<1>4. CASE Stats \/ UNCHANGED vars
  BY <1>4, <1>1, SameCounts DEF Stats, vars
<1> QED
  BY <1>1, <1>2, <1>3, <1>4, CallCounts, WorkerCounts, FreshIsSecond DEF Next

\* A step of one call is a return, a move to another place, or a lock taken.
LEMMA WaysToMove ==
    ASSUME NEW c \in Callers, BeginStep(c) \/ CallStep(c)
    PROVE  (\E r : Goto(c, r)) \/ Return(c) \/ \E role \in Roles : SpawnLock(c, role)
<1>1. BeginStep(c) => (\E r : Goto(c, r)) \/ \E role \in Roles : SpawnLock(c, role)
  BY Zenon DEF BeginStep, ResumeCall, SendCall, CloseCall, ObserveCall, WaitCall, Cleanup, Shutdown
<1>2. SpawnStep(c) => (\E r : Goto(c, r)) \/ Return(c)
  BY Zenon DEF SpawnStep, SpawnFindRunning, SpawnNoneRunning, SpawnSteer, SpawnRunningGone, SpawnReuse,
         SpawnNoneReusable, Mint, MintRefused
<1>3. ResumeStep(c) \/ Push(c) \/ OutOfBounds(c) => (\E r : Goto(c, r)) \/ Return(c)
  BY Zenon DEF ResumeStep, Recall, RecallRefused, ClaimInPlace, ClaimFresh, ClaimRefused, Start, Push,
         OutOfBounds
<1>4. SettleStep(c) \/ HostStep(c) => (\E r : Goto(c, r)) \/ Return(c)
  BY Zenon DEF SettleStep, HostStep, WaitSnapshot, Collect, WaitReturn, CloseFinished, CloseRunning,
         CloseCancel, CancelNext, CancelReturn, ObserveEnd, ObserveReturn
<1> QED
  BY <1>1, <1>2, <1>3, <1>4 DEF CallStep

LEMMA OneCallMoves ==
    ASSUME IInv, NEW c \in Callers, BeginStep(c) \/ CallStep(c)
    PROVE  \A d \in Callers \ {c} : call'[d] = call[d]
<1>0. call \in [Callers -> Calls]
  BY DEF IInv, TypeOK
<1>1. ASSUME NEW r, Goto(c, r) PROVE \A d \in Callers \ {c} : call'[d] = call[d]
  BY <1>0, <1>1 DEF Goto
<1>2. ASSUME Return(c) PROVE \A d \in Callers \ {c} : call'[d] = call[d]
  BY <1>0, <1>2 DEF Return
<1>3. ASSUME NEW role \in Roles, SpawnLock(c, role)
      PROVE  \A d \in Callers \ {c} : call'[d] = call[d]
  BY <1>0, <1>3 DEF SpawnLock
<1> QED
  BY <1>1, <1>2, <1>3, WaysToMove

\* As long as an id has one pointer, no worker runs into its watchdog more often in a row
\* than the budget allows, whatever resumes, closes and resets run in parallel
\* (completeWorker counts, claimForResume tests).
THEOREM BudgetKept == Spec /\ []OnePointerPerId => []TimeoutBudgetKept
<1>1. Init => MintedHasPointer /\ StreakCounted
  BY DEF Init, MintedHasPointer, StreakCounted
<1>2. IInv /\ StreakCounted => TimeoutBudgetKept
  <2> SUFFICES ASSUME IInv, StreakCounted, NEW id \in Ids PROVE streak[id] <= Budget
    BY DEF TimeoutBudgetKept
  <2>1. streak[id] \in Nat /\ \A h \in Handles : wk[h].failures \in 0..Budget
    BY DEF IInv, TypeOK, WorkerRecords
  <2> QED
    BY <2>1, BoundsAssumption DEF StreakCounted
<1>3. /\ IInv /\ MintedHasPointer /\ StreakCounted /\ OnePointerPerId /\ OnePointerPerId'
         /\ [Next]_vars => StreakCounted'
      /\ IInv /\ MintedHasPointer /\ [Next]_vars => MintedHasPointer'
  BY StreakKept, MintedKept
<1> QED
  BY <1>1, <1>2, <1>3, StartsSound, StepKeeps, PTL DEF Spec

\* The budget holds in every host that never calls Stats.
THEOREM WithoutStats == "stats" \notin Tools => (Spec => []TimeoutBudgetKept)
<1> SUFFICES ASSUME "stats" \notin Tools PROVE Spec => []TimeoutBudgetKept
  OBVIOUS
<1> QED
  BY PointersAreUnique, BudgetKept, PTL

-----------------------------------------------------------------------------
\* The registry implements the ledger.

\* The roster and the pending set never name two pointers for one id, and Close leaves
\* both empty for good.
TablesAgree == \A id \in Ids : agents[id] # Nil /\ pending[id] # Nil => pending[id] = agents[id]

ClosedIsEmpty == closed => \A id \in Ids : agents[id] = Nil /\ pending[id] = Nil

LEMMA TablesKept ==
    ASSUME IInv, TablesAgree, ClosedIsEmpty, [Next]_vars
    PROVE  TablesAgree' /\ ClosedIsEmpty'
<1>0. TypeOK /\ Nil \notin Ids /\ Nil \notin Handles
  BY NilAssumption DEF IInv
<1>1. CASE TablesStay
  BY <1>1 DEF TablesStay, TablesAgree, ClosedIsEmpty
<1>2. CASE Stats
  BY <1>2 DEF Stats, TablesAgree, ClosedIsEmpty
<1>3. CASE Empties
  BY <1>3 DEF Empties, TablesAgree, ClosedIsEmpty
<1>4. CASE Settles
  <2>1. PICK token \in [h : Handles, gen : 0..MaxGen], discard \in BOOLEAN :
            Settle(token, discard)
    BY <1>4 DEF Settles
  <2>2. /\ UNCHANGED <<agents, closed>>
        /\ \A id \in Ids : pending'[id] \in {pending[id], Nil}
    BY <1>0, <2>1 DEF Settle, TypeOK
  <2> QED
    BY <2>2 DEF TablesAgree, ClosedIsEmpty
<1>5. CASE Begins
  <2>1. PICK id \in Ids, h \in Handles :
            /\ ~closed /\ UNCHANGED closed
            /\ agents' = [agents EXCEPT ![id] = h] /\ pending' = [pending EXCEPT ![id] = h]
    BY <1>5 DEF Begins
  <2> QED
    BY <1>0, <2>1 DEF TablesAgree, ClosedIsEmpty, TypeOK
<1> QED
  BY <1>1, <1>2, <1>3, <1>4, <1>5, StepKinds

\* A step within lives ends at most one of them.
LEMMA LedgerEnd ==
    ASSUME IInv, TablesStay
    PROVE  Ledger!Next \/ UNCHANGED Ledger!vars
<1>0. TypeOK /\ LivesSound /\ OneLifePerId
  BY DEF IInv
<1>1. OwedIds' = OwedIds /\ closed' = closed
  BY DEF TablesStay, OwedIds
<1>2. \A k \in Handles : /\ wk'[k].id = wk[k].id
                         /\ wk'[k].closeRequested = wk[k].closeRequested
  BY DEF TablesStay, Unsettled
<1>3. CASE \A h \in Handles : ~Ends(h)
  <2>1. AtWork' = AtWork
    BY <1>3 DEF TablesStay, Unsettled, AtWork, Ends
  <2>2. Alive' = Alive /\ Abandoned' = Abandoned
    BY <1>2, <2>1 DEF Alive, Abandoned, AtWork
  <2> QED
    BY <1>1, <2>2 DEF Ledger!vars
<1>4. ASSUME NEW h \in Handles, Ends(h)
      PROVE  Ledger!Next
  <2>1. AtWork' = AtWork \ {h} /\ h \in AtWork
    BY <1>4 DEF TablesStay, Unsettled, AtWork, Ends
  <2>2. \A k \in AtWork \ {h} : wk[k].id # wk[h].id
    BY <1>0, <2>1 DEF OneLifePerId, AtWork
  <2>3. wk[h].id \in Ids
    BY <1>0, <2>1 DEF LivesSound, LifeSound, AtWork
  <2>4. Alive' = Alive \ {wk[h].id} /\ wk[h].id \in Alive
    BY <1>2, <2>1, <2>2 DEF Alive, AtWork
  <2>5. Abandoned' = Abandoned \ {wk[h].id}
    BY <1>2, <2>1, <2>2 DEF Abandoned, AtWork
  <2>6. Ledger!End(wk[h].id)
    BY <1>1, <2>4, <2>5 DEF Ledger!End
  <2> QED
    BY <2>3, <2>6 DEF Ledger!Next
<1> QED
  BY <1>3, <1>4

\* A settlement collects what has ended, or abandons what has not.
LEMMA LedgerSettle ==
    ASSUME IInv, TablesAgree, ClosedIsEmpty, [Next]_vars, Settles
    PROVE  Ledger!Next
<1>0. /\ TypeOK /\ LivesSound /\ OneLifePerId /\ TablesSound /\ CollectedHasEnded'
      /\ Nil \notin Ids /\ Nil \notin Handles
  BY NilAssumption, StepKeeps DEF IInv
<1>1. PICK token \in [h : Handles, gen : 0..MaxGen], discard \in BOOLEAN :
          wk[token.h].id \in Ids /\ Collects(token) /\ Settle(token, discard)
  BY DEF Settles
<1>2. PICK h \in Handles : h = token.h
  BY <1>1
<1> DEFINE id == wk[h].id
           w == [wk[h] EXCEPT !.collected = ~discard, !.closeRequested = discard]
<1>3. /\ \A k \in Handles : wk'[k] = IF k = h THEN w ELSE wk[k]
      /\ UNCHANGED <<agents, closed>> /\ pending[id] = h
      /\ pending' = [pending EXCEPT ![id] = Nil]
  BY <1>0, <1>1, <1>2 DEF Settle, Collects, TypeOK
<1>4. w.id = id /\ w.phase = wk[h].phase /\ w.collected = ~discard /\ w.closeRequested = discard
  BY <1>0 DEF TypeOK, WorkerRecords
<1>5. id \in Ids
  BY <1>1, <1>2
<1> HIDE DEF w, id
<1>6. \A k \in Handles : wk'[k].id = wk[k].id /\ wk'[k].phase = wk[k].phase
  BY <1>3, <1>4 DEF id
<1>7. AtWork' = AtWork /\ Alive' = Alive
  BY <1>6 DEF AtWork, Alive, Done
<1>8. OwedIds' = OwedIds \ {id} /\ id \in OwedIds
  BY <1>0, <1>3, <1>5 DEF OwedIds, TypeOK
<1>9. ASSUME NEW k \in AtWork, wk[k].id = id PROVE k = h
  <2>1. ~closed
    BY <1>0, <1>3, <1>5 DEF ClosedIsEmpty
  <2>2. agents[id] = k
    BY <1>9, <1>0, <2>1 DEF LivesSound, LifeSound, AtWork
  <2> QED
    BY <1>0, <1>3, <1>5, <2>2, <1>9 DEF TablesAgree, AtWork
<1>10. CASE h \in AtWork
  <2>1. discard
    <3>1. ~wk'[h].collected
      BY <1>0, <1>7, <1>10 DEF CollectedHasEnded, AtWork
    <3>2. ~w.collected
      BY <1>3, <3>1
    <3> QED
      BY <1>4, <3>2, Zenon
  <2>2. Abandoned' = Abandoned \cup {id}
    <3>1. \A k \in AtWork : wk'[k].closeRequested <=> (k = h \/ wk[k].closeRequested)
      <4>1. wk'[h].closeRequested
        <5>1. w.closeRequested
          BY <1>4, <2>1, Zenon
        <5> QED
          BY <1>3, <5>1
      <4> QED
        BY <1>3, <4>1 DEF AtWork
    <3> QED
      BY <1>6, <1>7, <1>10, <3>1 DEF Abandoned, AtWork, id
  <2>3. id \in Alive
    BY <1>10 DEF Alive, id
  <2>4. Ledger!Abandon(id)
    BY <1>3, <1>7, <1>8, <2>2, <2>3 DEF Ledger!Abandon
  <2> QED
    BY <1>5, <2>4 DEF Ledger!Next
<1>11. CASE h \notin AtWork
  <2>1. id \notin Alive
    BY <1>9, <1>11 DEF Alive
  <2>2. Abandoned' = Abandoned
    BY <1>3, <1>7, <1>11 DEF Abandoned, AtWork
  <2>3. Ledger!Collect(id)
    BY <1>3, <1>7, <1>8, <2>1, <2>2 DEF Ledger!Collect
  <2> QED
    BY <1>5, <2>3 DEF Ledger!Next
<1> QED
  BY <1>10, <1>11

\* While the registry is open, the workers at work are those of the roster, so the cap
\* that liveCountLocked tests is the cap of the ledger.
LEMMA AliveIsLive ==
    ASSUME IInv, ~closed
    PROVE  /\ AtWork = Live
           /\ Cardinality(Live) \in Nat /\ Cardinality(Alive) \in Nat
           /\ Cardinality(Alive) <= Cardinality(Live)
<1>1. LivesSound
  BY DEF IInv
<1>2. AtWork = Live
  BY <1>1 DEF AtWork, Live, LivesSound, LifeSound
<1>3. IsFiniteSet(Live)
  BY FiniteAssumption, FS_Subset DEF Live
<1>4. [h \in Live |-> wk[h].id] \in Surjection(Live, Alive)
  BY <1>2 DEF Alive, Surjection
<1>5. IsFiniteSet(Alive) /\ Cardinality(Alive) <= Cardinality(Live)
  BY <1>3, <1>4, FS_Surjection
<1> QED
  BY <1>2, <1>3, <1>5, FS_CardinalityType

LEMMA LedgerStart ==
    ASSUME IInv, [Next]_vars, Begins
    PROVE  Ledger!Next
<1>0. /\ TypeOK /\ OneLifePerId' /\ Nil \notin Ids /\ Nil \notin Handles
  BY NilAssumption, StepKeeps DEF IInv
<1>1. PICK id \in Ids, h \in Handles, w \in WorkerRecords :
          /\ ~closed /\ Done(h) /\ ~(Cardinality(Live) >= Cap)
          /\ wk' = [wk EXCEPT ![h] = w]
          /\ w.id = id /\ w.phase = "claimed" /\ ~w.closeRequested /\ UNCHANGED closed
          /\ pending' = [pending EXCEPT ![id] = h]
  BY DEF Begins
<1>2. \A k \in Handles : wk'[k] = IF k = h THEN w ELSE wk[k]
  BY <1>0, <1>1 DEF TypeOK
<1>3. h \notin AtWork /\ AtWork' = AtWork \cup {h}
  BY <1>1, <1>2 DEF AtWork, Done
<1>4. Alive' = Alive \cup {id}
  BY <1>1, <1>2, <1>3 DEF Alive, AtWork
<1>5. Abandoned' = Abandoned
  BY <1>1, <1>2, <1>3 DEF Abandoned, AtWork
<1>6. id \notin Alive
  <2>1. ASSUME NEW k \in AtWork, wk[k].id = id PROVE FALSE
    <3>1. k \in AtWork' /\ h \in AtWork' /\ k # h
      BY <1>3
    <3>2. wk'[k].id = wk'[h].id
      BY <1>1, <1>2, <2>1, <3>1
    <3> QED
      BY <1>0, <3>1, <3>2 DEF OneLifePerId, AtWork
  <2> QED
    BY <2>1 DEF Alive
<1>7. OwedIds' = OwedIds \cup {id}
  BY <1>0, <1>1 DEF OwedIds, TypeOK
<1>8. Cardinality(Alive) < Cap
  BY <1>1, AliveIsLive, BoundsAssumption
<1>9. Ledger!Cardinality(Alive) = Cardinality(Alive)
  BY DEF Ledger!Cardinality, Cardinality
<1>10. Ledger!Start(id)
  BY <1>1, <1>4, <1>5, <1>6, <1>7, <1>8, <1>9 DEF Ledger!Start
<1> QED
  BY <1>10 DEF Ledger!Next

\* The registry is the ledger of module WorkerLedger, for any callers, ids, roles and
\* limits: a result is owed from the moment its life begins, consumed at most once and
\* not before the end, and neither two workers of one id, nor a worker above the cap,
\* nor a life after Close comes from any interleaving of the calls and of Stats.
THEOREM LedgerRefined == Spec => ImplementsLedger
<1>1. Init => Ledger!Init /\ TablesAgree /\ ClosedIsEmpty
  <2> SUFFICES ASSUME Init PROVE Ledger!Init /\ TablesAgree /\ ClosedIsEmpty
    OBVIOUS
  <2>1. AtWork = {}
    BY DEF Init, AtWork, Done, Unborn, Life
  <2>2. Alive = {} /\ Abandoned = {} /\ OwedIds = {} /\ closed = FALSE
    BY <2>1 DEF Init, Alive, Abandoned, OwedIds
  <2> QED
    BY <2>2 DEF Ledger!Init, Init, TablesAgree, ClosedIsEmpty
<1>2. IInv /\ TablesAgree /\ ClosedIsEmpty /\ [Next]_vars => [Ledger!Next]_(Ledger!vars)
  <2> SUFFICES ASSUME IInv, TablesAgree, ClosedIsEmpty, [Next]_vars
               PROVE  Ledger!Next \/ UNCHANGED Ledger!vars
    OBVIOUS
  <2>1. CASE Stats
    BY <2>1 DEF Stats, Ledger!vars, Alive, Abandoned, OwedIds, AtWork, Done
  <2>2. CASE Empties
    <3>1. Alive' = Alive /\ Abandoned' = Abandoned /\ OwedIds' = {} /\ closed' /\ ~closed
      BY <2>2 DEF Empties, Alive, Abandoned, OwedIds, AtWork, Done
    <3>2. closed' = TRUE
      BY <3>1, StepKeeps DEF IInv, TypeOK
    <3>3. Ledger!Close
      BY <3>1, <3>2 DEF Ledger!Close
    <3> QED
      BY <3>3 DEF Ledger!Next
  <2> QED
    BY <2>1, <2>2, StepKinds, LedgerEnd, LedgerSettle, LedgerStart
<1>3. IInv /\ TablesAgree /\ ClosedIsEmpty /\ [Next]_vars => TablesAgree' /\ ClosedIsEmpty'
  BY TablesKept
<1> QED
  BY <1>1, <1>2, <1>3, StartsSound, StepKeeps, PTL DEF Spec, ImplementsLedger, Ledger!Spec

-----------------------------------------------------------------------------
\* One running worker per role.  Inside spawn_agent the role lock covers the search, the
\* choice and the claim; resume_agent is the one way to a life that does not pass it.

\* A caller that works for a role holds its lock.
RolesHeld == \A c \in Callers : call[c].role \in Roles => roleLock[call[c].role] = c

\* Past the search nothing of the role runs, and what is resumed is of the role; before
\* that only the worker that was found may.
SpawnSound(c) ==
    /\ call[c].op \in {"reuse", "recall", "mint", "claim"} =>
           call[c].role \in Roles /\ Running(call[c].role) = {}
    /\ call[c].op \in {"recall", "claim"} => RoleOf[call[c].id] = call[c].role
    /\ call[c].op = "steer" => \A h \in Running(call[c].role) : wk[h].id = call[c].id

SpawnsSound == \A c \in Callers : SpawnSound(c)

\* The steps to a place that SpawnSound speaks of.
Searches(c) == \/ SpawnFindRunning(c) \/ SpawnNoneRunning(c) \/ SpawnRunningGone(c)
               \/ SpawnReuse(c) \/ SpawnNoneReusable(c) \/ Recall(c)

\* A call keeps its role, with its lock, or gives it up.
KeepsRole(c) == \/ call'[c].role = Nil
                \/ UNCHANGED roleLock /\ call'[c].role = call[c].role

Elsewhere(c) == call'[c].op \notin {"steer", "reuse", "recall", "mint", "claim"}

LEMMA SpawnMoves ==
    ASSUME IInv, "resume" \notin Tools, NEW c \in Callers, BeginStep(c) \/ CallStep(c)
    PROVE  /\ KeepsRole(c) \/ \E role \in Roles : SpawnLock(c, role)
           /\ Elsewhere(c) \/ Searches(c)
<1> DEFINE Out == KeepsRole(c) /\ Elsewhere(c)
<1>0. call \in [Callers -> Calls] /\ call[c] \in Calls
  BY DEF IInv, TypeOK
<1>1. Return(c) => Out
  BY <1>0 DEF Return, Idle, KeepsRole, Elsewhere
<1>2. ASSUME NEW r, Goto(c, r), r.role \in {Nil, call[c].role} PROVE KeepsRole(c)
  BY <1>0, <1>2 DEF Goto, KeepsRole
<1>3. SpawnStep(c) => KeepsRole(c) /\ (Elsewhere(c) \/ Searches(c))
  <2>0. ASSUME NEW op, NEW id
        PROVE  /\ [call[c] EXCEPT !.op = op].role = call[c].role
               /\ [call[c] EXCEPT !.op = op, !.id = id].role = call[c].role
    BY <1>0 DEF Calls
  <2>1. SpawnFindRunning(c) \/ SpawnNoneRunning(c) => KeepsRole(c)
    <3>1. ASSUME SpawnFindRunning(c) PROVE KeepsRole(c)
      <4>1. PICK h : Goto(c, [call[c] EXCEPT !.op = "steer", !.id = wk[h].id])
        BY <3>1 DEF SpawnFindRunning
      <4> QED
        BY <2>0, <4>1, <1>2
    <3>2. ASSUME SpawnNoneRunning(c) PROVE KeepsRole(c)
      <4>1. Goto(c, [call[c] EXCEPT !.op = "reuse"])
        BY <3>2 DEF SpawnNoneRunning
      <4> QED
        BY <2>0, <4>1, <1>2
    <3> QED
      BY <3>1, <3>2
  <2>2. SpawnRunningGone(c) => KeepsRole(c)
    BY <2>0, <1>2 DEF SpawnRunningGone
  <2>3. SpawnReuse(c) \/ SpawnNoneReusable(c) => KeepsRole(c)
    <3>1. ASSUME SpawnReuse(c) PROVE KeepsRole(c)
      <4>1. PICK id : Goto(c, [call[c] EXCEPT !.op = "recall", !.id = id])
        BY <3>1 DEF SpawnReuse
      <4> QED
        BY <2>0, <4>1, <1>2
    <3>2. ASSUME SpawnNoneReusable(c) PROVE KeepsRole(c)
      <4>1. Goto(c, [call[c] EXCEPT !.op = "mint"])
        BY <3>2 DEF SpawnNoneReusable
      <4> QED
        BY <2>0, <4>1, <1>2
    <3> QED
      BY <3>1, <3>2
  <2>4. SpawnSteer(c) => Out
    BY <1>0 DEF SpawnSteer, Goto, Calls, KeepsRole, Elsewhere
  <2>5. Mint(c) => Out
    BY <1>0 DEF Mint, Goto, Calls, KeepsRole, Elsewhere
  <2>6. MintRefused(c) => Out
    BY <1>1 DEF MintRefused
  <2> QED
    BY <2>1, <2>2, <2>3, <2>4, <2>5, <2>6 DEF SpawnStep, Searches
<1>4. ResumeStep(c) \/ Push(c) \/ OutOfBounds(c) => KeepsRole(c) /\ (Elsewhere(c) \/ Searches(c))
  <2>1. Recall(c) => KeepsRole(c)
    BY <1>0 DEF Recall, Goto, Calls, KeepsRole
  <2>2. ClaimInPlace(c) => Out
    BY <1>0 DEF ClaimInPlace, Goto, Calls, KeepsRole, Elsewhere
  <2>3. ClaimFresh(c) => Out
    BY <1>0 DEF ClaimFresh, Goto, Calls, KeepsRole, Elsewhere
  <2>4. RecallRefused(c) \/ ClaimRefused(c) \/ Start(c) \/ Push(c) \/ OutOfBounds(c) => Out
    BY <1>1 DEF RecallRefused, ClaimRefused, Start, Push, OutOfBounds
  <2> QED
    BY <2>1, <2>2, <2>3, <2>4 DEF ResumeStep, Searches
<1>5. SettleStep(c) => Out
  <2>1. WaitSnapshot(c) => Out
    BY <1>0 DEF WaitSnapshot, Goto, Calls, KeepsRole, Elsewhere
  <2>2. Collect(c) => Out
    BY <1>0 DEF Collect, Goto, Calls, KeepsRole, Elsewhere
  <2>3. CloseRunning(c) => Out
    BY <1>0, <1>1 DEF CloseRunning, Goto, Calls, KeepsRole, Elsewhere
  <2>4. WaitReturn(c) \/ CloseFinished(c) \/ CloseCancel(c) => Out
    BY <1>1 DEF WaitReturn, CloseFinished, CloseCancel
  <2> QED
    BY <2>1, <2>2, <2>3, <2>4 DEF SettleStep
<1>6. HostStep(c) => Out
  <2>1. CancelNext(c) => Out
    BY <1>0 DEF CancelNext, Goto, Calls, KeepsRole, Elsewhere
  <2>2. ObserveEnd(c) => Out
    BY <1>0, <1>1 DEF ObserveEnd, Goto, Calls, KeepsRole, Elsewhere
  <2>3. CancelReturn(c) \/ ObserveReturn(c) => Out
    BY <1>1 DEF CancelReturn, ObserveReturn
  <2> QED
    BY <2>1, <2>2, <2>3 DEF HostStep
<1>7. BeginStep(c) => Elsewhere(c) /\ (KeepsRole(c) \/ \E role \in Roles : SpawnLock(c, role))
  <2>1. \A role \in Roles : SpawnLock(c, role) => Elsewhere(c)
    BY <1>0 DEF SpawnLock, Idle, Elsewhere
  <2>2. \A id \in Ids : ~ResumeCall(c, id)
    BY DEF ResumeCall, Begin
  <2>3. \A id \in Ids : SendCall(c, id) => Out
    BY <1>0 DEF SendCall, Goto, Idle, KeepsRole, Elsewhere
  <2>4. \A id \in Ids : CloseCall(c, id) \/ ObserveCall(c, id) => Out
    <3>1. \A id \in Ids : ObserveCall(c, id) => Out
      BY <1>0 DEF ObserveCall, Goto, Idle, KeepsRole, Elsewhere
    <3>2. ASSUME NEW id \in Ids, CloseCall(c, id) PROVE Out
      <4>1. PICK op \in {"closeDone", "closeLive"} :
                Goto(c, [Idle EXCEPT !.op = op, !.h = Get(id), !.gen = wk[Get(id)].gen])
        BY <3>2 DEF CloseCall
      <4>2. call'[c].op = op /\ call'[c].role = Nil
        BY <1>0, <4>1 DEF Goto, Idle
      <4> QED
        BY <4>2 DEF KeepsRole, Elsewhere
    <3> QED
      BY <3>1, <3>2
  <2>5. \A ids \in SUBSET Ids \ {{}} : WaitCall(c, ids) => Out
    BY <1>0 DEF WaitCall, Goto, Idle, KeepsRole, Elsewhere
  <2>6. Cleanup(c) \/ Shutdown(c) => Out
    BY <1>0 DEF Cleanup, Shutdown, Goto, Idle, KeepsRole, Elsewhere
  <2> QED
    BY <2>1, <2>2, <2>3, <2>4, <2>5, <2>6 DEF BeginStep
<1> QED
  BY <1>3, <1>4, <1>5, <1>6, <1>7 DEF CallStep

LEMMA LocksKept ==
    ASSUME IInv, "resume" \notin Tools, RolesHeld, NEW c \in Callers, BeginStep(c) \/ CallStep(c)
    PROVE  RolesHeld'
<1>0. /\ call \in [Callers -> Calls] /\ roleLock \in [Roles -> Callers \cup {Nil}]
      /\ Nil \notin Roles /\ Nil \notin Callers
  BY NilAssumption DEF IInv, TypeOK
<1>1. \A d \in Callers \ {c} : call'[d] = call[d]
  BY OneCallMoves
<1>2. \A d \in Callers \ {c} : call[d].role \in Roles => roleLock'[call[d].role] = d
  <2>1. ASSUME NEW r, Goto(c, r)
        PROVE  \A d \in Callers \ {c} : call[d].role \in Roles => roleLock'[call[d].role] = d
    BY <2>1 DEF Goto, RolesHeld
  <2>2. ASSUME Return(c)
        PROVE  \A d \in Callers \ {c} : call[d].role \in Roles => roleLock'[call[d].role] = d
    BY <2>2 DEF Return, RolesHeld
  <2>3. ASSUME NEW role \in Roles, SpawnLock(c, role)
        PROVE  \A d \in Callers \ {c} : call[d].role \in Roles => roleLock'[call[d].role] = d
    BY <1>0, <2>3 DEF SpawnLock, RolesHeld
  <2> QED
    BY <2>1, <2>2, <2>3, WaysToMove
<1>3. call'[c].role \in Roles => roleLock'[call'[c].role] = c
  <2>1. CASE KeepsRole(c)
    BY <1>0, <2>1 DEF KeepsRole, RolesHeld
  <2>2. ASSUME NEW role \in Roles, SpawnLock(c, role) PROVE roleLock'[call'[c].role] = c
    BY <1>0, <2>2 DEF SpawnLock, Idle
  <2> QED
    BY <2>1, <2>2, SpawnMoves
<1> QED
  BY <1>1, <1>2, <1>3 DEF RolesHeld

\* Without a birth the running workers of a role only get fewer.
LEMMA RunningShrinks ==
    ASSUME IInv, TablesStay \/ Stats \/ Empties \/ Settles
    PROVE  Live' \subseteq Live /\ \A h \in Live' : wk'[h].id = wk[h].id
<1>0. TypeOK /\ Nil \notin Handles
  BY NilAssumption DEF IInv
<1>1. CASE TablesStay
  BY <1>1 DEF TablesStay, Unsettled, Live
<1>2. CASE Stats
  BY <1>0, <1>2 DEF Stats, Live, Done
<1>3. CASE Empties
  BY <1>0, <1>3 DEF Empties, Live, Done
<1>4. CASE Settles
  <2>1. PICK token \in [h : Handles, gen : 0..MaxGen], discard \in BOOLEAN :
            Settle(token, discard)
    BY <1>4 DEF Settles
  <2>2. agents' = agents /\ \A k \in Handles : wk'[k].id = wk[k].id /\ wk'[k].phase = wk[k].phase
    BY <1>0, <2>1 DEF Settle, TypeOK, WorkerRecords
  <2> QED
    BY <2>2 DEF Live, Done
<1> QED
  BY <1>1, <1>2, <1>3, <1>4

\* What spawn_agent resumes is of its role.
LEMMA ReusableOfRole ==
    ASSUME NEW role, NEW id \in Reusable(role)
    PROVE  RoleOf[id] = role
<1>1. CASE Archived(role) # {}
  BY <1>1 DEF Reusable, Archived
<1>2. CASE Archived(role) = {} /\ FinishedIn(agents, role) # {}
  BY <1>2 DEF Reusable, FinishedIn
<1>3. CASE Archived(role) = {} /\ FinishedIn(agents, role) = {}
  BY <1>3 DEF Reusable, FinishedIn
<1> QED
  BY <1>1, <1>2, <1>3

\* A search leaves what runs alone and finds what SpawnSound says.
LEMMA SearchSound ==
    ASSUME IInv, ClosedIsEmpty, NoTwins, SpawnsSound, NEW c \in Callers, Searches(c), call[c].role \in Roles
    PROVE  SpawnSound(c)'
<1>0. /\ call \in [Callers -> Calls] /\ call[c] \in Calls /\ Nil \notin Handles
      /\ TypeOK /\ LivesSound /\ TablesSound /\ SpawnSound(c) /\ CallSound(call[c])
  BY NilAssumption DEF IInv, TypeOK, SpawnsSound, CallsSound
<1>1. UNCHANGED <<wk, agents, pending, closed>>
  BY DEF Searches, SpawnFindRunning, SpawnNoneRunning, SpawnRunningGone, SpawnReuse,
         SpawnNoneReusable, Recall, registry
<1>2. Live' = Live /\ \A role : Running(role)' = Running(role)
  BY <1>1 DEF Live, Running, Done
<1>3. CASE SpawnFindRunning(c)
  <2>1. PICK h \in Running(call[c].role) :
            Goto(c, [call[c] EXCEPT !.op = "steer", !.id = wk[h].id])
    BY <1>3 DEF SpawnFindRunning
  <2>2. \A k \in Running(call[c].role) : k = h
    BY <2>1 DEF NoTwins, Running
  <2>3. call'[c].op = "steer" /\ call'[c].id = wk[h].id /\ call'[c].role = call[c].role
    BY <1>0, <2>1 DEF Goto, Calls
  <2> QED
    BY <1>1, <1>2, <2>2, <2>3 DEF SpawnSound
<1>4. CASE SpawnNoneRunning(c)
  <2>1. call'[c].op = "reuse" /\ call'[c].role = call[c].role /\ Running(call[c].role) = {}
    BY <1>0, <1>4 DEF SpawnNoneRunning, Goto, Calls
  <2> QED
    BY <1>2, <2>1 DEF SpawnSound
<1>5. CASE SpawnRunningGone(c)
  <2>1. call'[c].op = "reuse" /\ call'[c].role = call[c].role /\ call[c].op = "steer"
    BY <1>0, <1>5 DEF SpawnRunningGone, Goto, Calls
  <2>2. ASSUME NEW h \in Running(call[c].role) PROVE FALSE
    <3>1. wk[h].id = call[c].id /\ agents[call[c].id] = h /\ ~Done(h) /\ h \in Handles
      BY <1>0, <2>1, <2>2 DEF SpawnSound, Running, Live
    <3>2. h # Nil
      BY <1>0, <3>1
    <3>3. CASE ~closed
      BY <1>5, <3>1, <3>2, <3>3 DEF SpawnRunningGone, Get
    <3>4. CASE closed
      BY <3>1, <3>2, <3>4, <2>1, <1>0 DEF ClosedIsEmpty, CallSound
    <3> QED
      BY <3>3, <3>4
  <2> QED
    BY <1>2, <2>1, <2>2 DEF SpawnSound
<1>6. CASE SpawnReuse(c)
  <2>1. PICK id \in Reusable(call[c].role) : Goto(c, [call[c] EXCEPT !.op = "recall", !.id = id])
    BY <1>6 DEF SpawnReuse
  <2>2. RoleOf[id] = call[c].role
    BY <2>1, ReusableOfRole
  <2>3. /\ call'[c].op = "recall" /\ call'[c].id = id /\ call'[c].role = call[c].role
        /\ call[c].op = "reuse"
    BY <1>0, <1>6, <2>1 DEF SpawnReuse, Goto, Calls
  <2> QED
    BY <1>0, <1>2, <2>2, <2>3 DEF SpawnSound
<1>7. CASE SpawnNoneReusable(c)
  <2>1. call'[c].op = "mint" /\ call'[c].role = call[c].role /\ call[c].op = "reuse"
    BY <1>0, <1>7 DEF SpawnNoneReusable, Goto, Calls
  <2> QED
    BY <1>0, <1>2, <2>1 DEF SpawnSound
<1>8. CASE Recall(c)
  <2>1. /\ call'[c].op = "claim" /\ call'[c].role = call[c].role /\ call'[c].id = call[c].id
        /\ call[c].op = "recall"
    <3>1. PICK checkpoint : Goto(c, [call[c] EXCEPT !.op = "claim", !.past = checkpoint])
      BY <1>8 DEF Recall
    <3>2. call[c].op = "recall"
      BY <1>8 DEF Recall
    <3> QED
      BY <1>0, <3>1, <3>2 DEF Goto, Calls
  <2> QED
    BY <1>0, <1>2, <2>1 DEF SpawnSound
<1> QED
  BY <1>3, <1>4, <1>5, <1>6, <1>7, <1>8 DEF Searches

\* A birth adds one worker, of the role whose lock the caller holds.
LEMMA BirthOfRole ==
    ASSUME IInv, NEW c \in Callers, SpawnSound(c), Mint(c) \/ ClaimInPlace(c) \/ ClaimFresh(c)
    PROVE  \E h \in Handles : /\ Live' \subseteq Live \cup {h}
                               /\ RoleOf[wk'[h].id] = call[c].role
                               /\ \A k \in Handles \ {h} : wk'[k].id = wk[k].id
<1>0. TypeOK /\ TablesSound /\ CallSound(call[c]) /\ Nil \notin Handles
  BY NilAssumption DEF IInv, CallsSound
<1>1. ASSUME NEW id \in Ids, NEW h \in Handles, NEW gen, NEW failures, RoleOf[id] = call[c].role,
             wk' = [wk EXCEPT ![h] = Life(id, gen, "claimed", failures)],
             agents' = [agents EXCEPT ![id] = h]
      PROVE  \E k \in Handles : /\ Live' \subseteq Live \cup {k}
                                 /\ RoleOf[wk'[k].id] = call[c].role
                                 /\ \A l \in Handles \ {k} : wk'[l].id = wk[l].id
  <2>1. wk'[h].id = id /\ \A k \in Handles \ {h} : wk'[k] = wk[k]
    BY <1>0, <1>1 DEF TypeOK, Life
  <2>2. \A i \in Ids : agents'[i] \in {agents[i], h}
    BY <1>0, <1>1 DEF TypeOK
  <2>3. Live' \subseteq Live \cup {h}
    BY <2>1, <2>2 DEF Live, Done
  <2> QED
    BY <1>1, <2>1, <2>3
<1>2. CASE Mint(c)
  <2>1. PICK id \in {i \in Ids \ minted : RoleOf[i] = call[c].role}, h \in Unused :
          /\ wk' = [wk EXCEPT ![h] = Life(id, 1, "claimed", 0)]
          /\ agents' = [agents EXCEPT ![id] = h]
    BY <1>2 DEF Mint
  <2> QED
    BY <1>1, <2>1 DEF Unused
<1>3. CASE ClaimInPlace(c)
  <2>1. PICK id \in Ids, h \in Handles : id = call[c].id /\ h = agents[id] /\ wk[h].id = id
    BY <1>0, <1>3 DEF ClaimInPlace, CallSound, TypeOK, TablesSound
  <2>2. /\ wk' = [wk EXCEPT ![h] = Life(id, wk[h].gen + 1, "claimed", wk[h].failures)]
        /\ agents' = [agents EXCEPT ![id] = h]
    BY <1>0, <1>3, <2>1 DEF ClaimInPlace, TypeOK
  <2>3. RoleOf[id] = call[c].role
    BY <1>3, <2>1 DEF ClaimInPlace, SpawnSound
  <2> QED
    BY <1>1, <2>2, <2>3
<1>4. CASE ClaimFresh(c)
  <2>1. PICK h \in Unused :
          /\ wk' = [wk EXCEPT ![h] = Life(call[c].id, call[c].past.gen + 1, "claimed",
                                          call[c].past.failures)]
          /\ agents' = [agents EXCEPT ![call[c].id] = h]
    BY <1>4 DEF ClaimFresh
  <2>2. call[c].id \in Ids /\ RoleOf[call[c].id] = call[c].role
    BY <1>0, <1>4 DEF ClaimFresh, CallSound, SpawnSound
  <2> QED
    BY <1>1, <2>1, <2>2 DEF Unused
<1> QED
  BY <1>2, <1>3, <1>4

\* What the others rely on survives a step that brings no worker of their role to life.
LEMMA SpawnOfOther ==
    ASSUME NEW d \in Callers, SpawnSound(d), call'[d] = call[d],
           \A h \in Live' : RoleOf[wk'[h].id] = call[d].role => h \in Live /\ wk'[h].id = wk[h].id
    PROVE  SpawnSound(d)'
<1>1. \A h \in Running(call[d].role)' : h \in Running(call[d].role) /\ wk'[h].id = wk[h].id
  BY DEF Running
<1> QED
  BY <1>1 DEF SpawnSound

LEMMA TwinsKept ==
    ASSUME "resume" \notin Tools, IInv, ClosedIsEmpty, NoTwins, RolesHeld, SpawnsSound, [Next]_vars
    PROVE  NoTwins' /\ RolesHeld' /\ SpawnsSound'
<1>0. /\ TypeOK /\ CallsSound /\ call \in [Callers -> Calls]
      /\ \A c \in Callers : SpawnSound(c) /\ CallSound(call[c])
  BY DEF IInv, TypeOK, CallsSound, SpawnsSound
<1>1. ASSUME Live' \subseteq Live, \A h \in Live' : wk'[h].id = wk[h].id
      PROVE  /\ NoTwins'
             /\ \A d \in Callers : call'[d] = call[d] => SpawnSound(d)'
  BY <1>0, <1>1, SpawnOfOther DEF NoTwins
<1>2. CASE call' = call /\ roleLock' = roleLock /\ (TablesStay \/ Stats)
  BY <1>1, <1>2, RunningShrinks DEF RolesHeld, SpawnsSound
<1>3. ASSUME NEW c \in Callers, BeginStep(c) \/ CallStep(c),
             TablesStay \/ Empties \/ Settles
      PROVE  NoTwins' /\ RolesHeld' /\ SpawnsSound'
  <2>1. NoTwins' /\ \A d \in Callers \ {c} : SpawnSound(d)'
    BY <1>1, <1>3, RunningShrinks, OneCallMoves
  <2>2. Elsewhere(c) => SpawnSound(c)'
    BY DEF Elsewhere, SpawnSound
  <2>3. Searches(c) => call[c].role \in Roles
    BY <1>0 DEF Searches, SpawnFindRunning, SpawnNoneRunning, SpawnRunningGone, SpawnReuse,
                SpawnNoneReusable, Recall, CallSound, SpawnSound
  <2> QED
    BY <1>3, <2>1, <2>2, <2>3, SpawnMoves, SearchSound, LocksKept DEF SpawnsSound
<1>4. ASSUME NEW c \in Callers, Mint(c) \/ ClaimInPlace(c) \/ ClaimFresh(c)
      PROVE  NoTwins' /\ RolesHeld' /\ SpawnsSound'
  <2>1. CallStep(c)
    BY <1>4 DEF CallStep, SpawnStep, ResumeStep
  <2>2. PICK h \in Handles : /\ Live' \subseteq Live \cup {h}
                             /\ RoleOf[wk'[h].id] = call[c].role
                             /\ \A k \in Handles \ {h} : wk'[k].id = wk[k].id
    BY <1>0, <1>4, BirthOfRole
  <2>3. call[c].role \in Roles /\ Running(call[c].role) = {}
    BY <1>0, <1>4 DEF Mint, ClaimInPlace, ClaimFresh, SpawnSound
  <2>4. \A k \in Live' \ {h} : k \in Live /\ wk'[k].id = wk[k].id /\ RoleOf[wk'[k].id] # call[c].role
    BY <2>2, <2>3 DEF Live, Running
  <2>5. NoTwins'
    BY <2>2, <2>4 DEF NoTwins
  <2>6. ASSUME NEW d \in Callers \ {c} PROVE SpawnSound(d)'
    <3>1. CASE call[d].op \in {"steer", "reuse", "recall", "mint", "claim"}
      <4>1. call[d].role \in Roles /\ call[d].role # call[c].role
        BY <1>0, <2>3, <3>1 DEF RolesHeld, SpawnSound, CallSound
      <4> QED
        BY <1>0, <2>1, <2>2, <2>4, <4>1, OneCallMoves, SpawnOfOther
    <3>2. CASE call[d].op \notin {"steer", "reuse", "recall", "mint", "claim"}
      BY <2>1, <3>2, OneCallMoves DEF SpawnSound
    <3> QED
      BY <3>1, <3>2
  <2>7. SpawnSound(c)'
    <3>1. Mint(c) => call'[c].op = "start"
      BY <1>0 DEF Mint, Goto, Calls
    <3>2. ClaimInPlace(c) => call'[c].op = "start"
      BY <1>0 DEF ClaimInPlace, Goto, Calls
    <3>3. ClaimFresh(c) => call'[c].op = "start"
      BY <1>0 DEF ClaimFresh, Goto, Calls
    <3> QED
      BY <1>4, <3>1, <3>2, <3>3 DEF SpawnSound
  <2> QED
    BY <2>1, <2>5, <2>6, <2>7, LocksKept DEF SpawnsSound
<1>5. ASSUME NEW c \in Callers, BeginStep(c) \/ CallStep(c)
      PROVE  NoTwins' /\ RolesHeld' /\ SpawnsSound'
  <2>1. \/ QuietCall(c) \/ Shutdown(c)
        \/ Start(c) \/ Push(c) \/ CloseCancel(c) \/ CancelNext(c)
        \/ Collect(c) \/ CloseFinished(c) \/ CloseRunning(c)
        \/ Mint(c) \/ ClaimInPlace(c) \/ ClaimFresh(c)
    BY <1>5 DEF BeginStep, CallStep, SpawnStep, ResumeStep, SettleStep, HostStep, QuietCall
  <2>2. Shutdown(c) => Empties
    BY DEF Shutdown, Empties
  <2> QED
    BY <1>3, <1>4, <1>5, <2>1, <2>2, QuietTables, HandleCallTables, SettleTables
<1>6. CASE UNCHANGED vars
  BY <1>2, <1>6, SameTables DEF vars
<1>7. CASE Stats
  BY <1>2, <1>7 DEF Stats
<1>8. ASSUME NEW h \in Handles, WorkerStep(h) PROVE call' = call /\ roleLock' = roleLock
  <2>1. ASSUME NEW timedOut \in BOOLEAN, Complete(h, timedOut) PROVE call' = call /\ roleLock' = roleLock
    BY <2>1 DEF Complete
  <2> QED
    BY <1>8, <2>1 DEF WorkerStep, Ending, ReadInbox, Drain, Snap, Remember, CloseDone
<1>9. ResetTimeouts => call' = call /\ roleLock' = roleLock
  BY DEF ResetTimeouts
<1> QED
  BY <1>2, <1>5, <1>6, <1>7, <1>8, <1>9, WorkerTables, ResetTables DEF Next

\* A twin needs resume_agent: where the manager is not given that tool, spawn_agent never
\* has two running workers of one role, whatever finishes, is closed or is forgotten
\* between its sections (tools.go:233, the role lock).
THEOREM TwinsNeedResume == "resume" \notin Tools => (Spec => []NoTwins)
<1> SUFFICES ASSUME "resume" \notin Tools PROVE Spec => []NoTwins
  OBVIOUS
<1>1. Init => TablesAgree /\ ClosedIsEmpty
  BY DEF Init, TablesAgree, ClosedIsEmpty
<1>2. Init => NoTwins /\ RolesHeld /\ SpawnsSound
  BY NilAssumption DEF Init, NoTwins, Live, Done, Unborn, Life, RolesHeld, SpawnsSound, SpawnSound, Idle
<1>3. IInv /\ TablesAgree /\ ClosedIsEmpty /\ [Next]_vars => TablesAgree' /\ ClosedIsEmpty'
  BY TablesKept
<1>4. IInv /\ ClosedIsEmpty /\ NoTwins /\ RolesHeld /\ SpawnsSound /\ [Next]_vars
      => NoTwins' /\ RolesHeld' /\ SpawnsSound'
  BY TwinsKept
<1> QED
  BY <1>1, <1>2, <1>3, <1>4, StartsSound, StepKeeps, PTL DEF Spec
=============================================================================
