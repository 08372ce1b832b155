-------------------------- MODULE EpochStoreProofs --------------------------
(***************************************************************************)
(* Theorems about EpochStore, for every set of chunk ids, epoch duration,  *)
(* retention and number of overlapping runs of the scheduler.              *)
(***************************************************************************)
EXTENDS EpochStore, TLAPS

\* The scheduler never acts on an old time: either one runAll() at a time, or
\* none is held up between capturing the time and using it.
NoStaleRun == (\A r, s \in Runs : r = s) \/ ~MayLag

\* A copy that outlives the drop run r is in.
Outlives(r, id) == \E f \in LiveEpochs(id) : ~Leaving(f, now[r])

\* The strengthening of the two properties proved here.  The manager only
\* moves forward, and while a run drops epochs every chunk somebody is owed
\* has a copy in an epoch the run will not drop.
Order ==
    /\ currentEpochId <= EpochOf(clock)
    /\ \A e \in open : e <= currentEpochId
    /\ \A r \in Runs :
         /\ now[r] <= clock
         /\ pc[r] = "check" => currentEpochId <= EpochOf(now[r])
         /\ pc[r] = "opening" => /\ currentEpochId < EpochOf(now[r])
                                 /\ migrationInProgress
         /\ pc[r] = "dropping" => EpochOf(now[r]) <= currentEpochId

OneRotation ==
    \A r, s \in Runs : pc[r] = "opening" /\ pc[s] = "opening" => r = s

Stopped == ~up => open = {} /\ known = {} /\ \A r \in Runs : pc[r] = "idle"

Drops ==
    \A r \in Runs : pc[r] = "dropping" =>
        /\ closing[r] \in todo[r] => Leaving(closing[r], now[r])
        /\ \A id \in Ids : Visible(id) /\ Owed(id) => Outlives(r, id)

\* Only a run that drops epochs awaits the close or the rm of one.
ClosingIdle == \A r \in Runs : pc[r] # "dropping" => closing[r] = NoEpoch

IInv ==
    /\ TypeOK
    /\ CurrentIsOpen
    /\ NothingLostWhileRunning
    /\ Order
    /\ OneRotation
    /\ Stopped
    /\ ClosingIdle
    /\ Drops

-----------------------------------------------------------------------------
(***************************************************************************)
(* Arithmetic of epochs.                                                   *)
(***************************************************************************)

\* The quotient is the largest multiple that fits.
LEMMA DivProps ==
  ASSUME NEW a \in Nat, NEW d \in Nat \ {0}
  PROVE  /\ a \div d \in Nat
         /\ (a \div d) * d <= a
         /\ a < (a \div d) * d + d
  BY Z3T(20)

\* Multiplication by a natural number is monotone.
LEMMA TimesMono ==
  ASSUME NEW a \in Nat, NEW b \in Nat, a <= b, NEW d \in Nat
  PROVE  a * d <= b * d
  BY Z3T(20)

\* Later times lie in later epochs.
LEMMA DivMono ==
  ASSUME NEW a \in Nat, NEW b \in Nat, a <= b, NEW d \in Nat \ {0}
  PROVE  a \div d <= b \div d
<1> DEFINE p == a \div d
           q == b \div d
<1>1. p \in Nat /\ q \in Nat /\ p * d <= a /\ b < q * d + d
  BY DivProps
<1> HIDE DEF p, q
<1>2. ASSUME q < p PROVE FALSE
  <2>1. q + 1 \in Nat /\ q + 1 <= p
    BY <1>1, <1>2
  <2>2. (q + 1) * d <= p * d
    BY <2>1, <1>1, TimesMono
  <2>3. (q + 1) * d = q * d + d
    BY <1>1, Z3T(10)
  <2>4. p * d \in Int /\ q * d \in Int
    BY <1>1
  <2> QED
    BY <2>2, <2>3, <2>4, <1>1
<1> QED
  BY <1>1, <1>2 DEF p, q

\* Every time on the clock lies in an epoch of the model.
LEMMA EpochInRange ==
  ASSUME NEW t \in 0 .. LastTick
  PROVE  EpochOf(t) \in Epoch
<1> DEFINE p == t \div Dur
<1>1. Dur \in Nat \ {0} /\ MaxEpoch \in Nat
  BY ConfigAssumption
<1>2. t \in Nat /\ t < (MaxEpoch + 1) * Dur
  BY <1>1 DEF LastTick
<1>3. p \in Nat /\ p * Dur <= t
  BY <1>1, <1>2, DivProps
<1> HIDE DEF p
<1>4. ASSUME MaxEpoch < p PROVE FALSE
  <2>1. (MaxEpoch + 1) * Dur <= p * Dur
    BY <1>1, <1>3, <1>4, TimesMono
  <2>2. p * Dur \in Int /\ (MaxEpoch + 1) * Dur \in Int
    BY <1>1, <1>3
  <2> QED
    BY <2>1, <2>2, <1>2, <1>3
<1>5. p \in 0 .. MaxEpoch
  BY <1>1, <1>3, <1>4
<1> QED
  BY <1>5 DEF p, EpochOf, Epoch

\* An epoch not older than that of a time is inside its retention window.
LEMMA NotLeaving ==
  ASSUME NEW t \in Nat, NEW e \in Nat, EpochOf(t) <= e
  PROVE  ~Leaving(e, t)
<1> DEFINE p == t \div Dur
<1>1. Dur \in Nat \ {0} /\ Retain \in Nat
  BY ConfigAssumption
<1>2. p \in Nat /\ t < p * Dur + Dur /\ p <= e
  BY <1>1, DivProps DEF EpochOf
<1> HIDE DEF p
<1>3. p * Dur <= e * Dur
  BY <1>1, <1>2, TimesMono
<1>4. 1 * Dur <= (Retain + 1) * Dur
  BY <1>1, TimesMono
<1>5. /\ p * Dur \in Int /\ e * Dur \in Int /\ (Retain + 1) * Dur \in Int
      /\ 1 * Dur = Dur
  BY <1>1, <1>2
<1> QED
  BY <1>1, <1>2, <1>3, <1>4, <1>5 DEF Leaving, StartOf, Cutoff

\* What leaves the window at a time has left it at every later time.
LEMMA LeavingMono ==
  ASSUME NEW t \in Nat, NEW u \in Nat, t <= u, NEW e \in Nat, Leaving(e, t)
  PROVE  Leaving(e, u)
<1>1. Dur \in Nat /\ Retain \in Nat
  BY ConfigAssumption
<1>2. e * Dur \in Int /\ (Retain + 1) * Dur \in Int
  BY <1>1
<1> QED
  BY <1>2 DEF Leaving, StartOf, Cutoff

-----------------------------------------------------------------------------
(***************************************************************************)
(* Type correctness.                                                       *)
(***************************************************************************)

\* Forgetting a set of chunks leaves the stores well-typed, and touches no
\* other chunk.
LEMMA ForgettingEffect ==
  ASSUME TypeOK, NEW S \in SUBSET Ids, Forgetting(S)
  PROVE  /\ doc' \in [Epoch -> Doc]
         /\ savePending' \in [Epoch -> BOOLEAN]
         /\ \A e \in Epoch, id \in Ids \ S : doc'[e][id] = doc[e][id]
  BY DEF TypeOK, Forgetting, Doc, Entry

\* A process that goes down leaves well-typed, empty state behind.
LEMMA DownTyped ==
  ASSUME TypeOK, Down
  PROVE  /\ up' \in BOOLEAN
         /\ open' \in SUBSET Epoch
         /\ doc' \in [Epoch -> Doc]
         /\ savePending' \in [Epoch -> BOOLEAN]
         /\ migrationInProgress' \in BOOLEAN
         /\ pc' \in [Runs -> {"idle", "check", "opening", "dropping"}]
         /\ todo' \in [Runs -> SUBSET Epoch]
         /\ closing' \in [Runs -> Epoch \cup {NoEpoch}]
         /\ known' \in SUBSET Ids
         /\ overtaken' \in BOOLEAN
         /\ UNCHANGED <<clock, currentEpochId, now, ttl, written>>
  BY DEF TypeOK, Down, EmptyDoc, Doc, Entry

\* The clock has a last tick.
LEMMA LastTickNat == LastTick \in Nat
<1>1. Dur \in Nat \ {0} /\ MaxEpoch \in Nat
  BY ConfigAssumption
<1>2. 1 * Dur <= (MaxEpoch + 1) * Dur /\ (MaxEpoch + 1) * Dur \in Int
  BY <1>1, TimesMono
<1> QED
  BY <1>1, <1>2 DEF LastTick

\* The initial state is well-typed.
LEMMA InitTyped == Init => TypeOK
<1> SUFFICES ASSUME Init PROVE TypeOK
  OBVIOUS
<1>1. Dur \in Nat \ {0} /\ MaxEpoch \in Nat
  BY ConfigAssumption
<1>2. /\ 0 \in 0 .. LastTick /\ 0 \in Epoch
      /\ 0 \in 0 .. MaxExits
  BY <1>1, LastTickNat, ConfigAssumption DEF Epoch
<1>3. EmptyDoc \in Doc
  BY DEF EmptyDoc, Doc, Entry
<1> QED
  BY <1>2, <1>3 DEF Init, TypeOK, NoEpoch

\* Every step keeps the types.
LEMMA NextTyped == TypeOK /\ [Next]_vars => TypeOK'
<1> SUFFICES ASSUME TypeOK, [Next]_vars PROVE TypeOK'
  OBVIOUS
<1> USE DEF TypeOK, storeVars, runVars, ghostVars
<1>1. ASSUME NEW id \in Ids, Put(id) PROVE TypeOK'
  BY <1>1 DEF Put, Doc, Entry
<1>2. ASSUME NEW id \in Ids, Forget(id) PROVE TypeOK'
  BY <1>2, ForgettingEffect DEF Forget
<1>3. ASSUME NEW e \in Epoch, Save(e) PROVE TypeOK'
  BY <1>3 DEF Save
<1>4. ASSUME NEW e \in Epoch, SaveFails(e) PROVE TypeOK'
  BY <1>4 DEF SaveFails
<1>5. ASSUME NEW r \in Runs, RunStart(r) PROVE TypeOK'
  BY <1>5, ForgettingEffect DEF RunStart
<1>6. ASSUME NEW r \in Runs, NoRotation(r) PROVE TypeOK'
  BY <1>6 DEF NoRotation
<1>7. ASSUME NEW r \in Runs, RotateBegin(r) PROVE TypeOK'
  BY <1>7 DEF RotateBegin
<1>8. ASSUME NEW r \in Runs, RotateFinish(r) PROVE TypeOK'
  <2>1. EpochOf(now[r]) \in Epoch
    BY EpochInRange
  <2> QED
    BY <1>8, <2>1 DEF RotateFinish, Doc, Entry
<1>9. ASSUME NEW r \in Runs, NEW e \in Epoch, DropFlush(r, e) PROVE TypeOK'
  BY <1>9 DEF DropFlush, MustDrop
<1>10. ASSUME NEW r \in Runs, NEW e \in Epoch, DropClose(r, e) PROVE TypeOK'
  BY <1>10 DEF DropClose, EmptyDoc, Doc, Entry
<1>11. ASSUME NEW r \in Runs, DropRemove(r) PROVE TypeOK'
  BY <1>11 DEF DropRemove, EmptyDoc, Doc, Entry, NoEpoch
<1>12. ASSUME NEW r \in Runs, DropEnd(r) PROVE TypeOK'
  BY <1>12 DEF DropEnd
<1>13. CASE Stop
  <2>1. file' \in [Epoch -> Doc]
    BY <1>13 DEF Stop
  <2>2. exits' \in 0 .. MaxExits
    BY <1>13, ConfigAssumption DEF Stop
  <2>3. forgotten' \in SUBSET Ids
    BY <1>13 DEF Stop, Saved
  <2> QED
    BY <1>13, <2>1, <2>2, <2>3, DownTyped DEF Stop
<1>14. CASE Crash
  <2>1. exits' \in 0 .. MaxExits
    BY <1>14, ConfigAssumption DEF Crash
  <2>2. forgotten' \in SUBSET Ids
    BY <1>14 DEF Crash, Saved
  <2> QED
    BY <1>14, <2>1, <2>2, DownTyped DEF Crash
<1>15. CASE Create
  <2>1. EpochOf(clock) \in Epoch
    BY EpochInRange
  <2> QED
    BY <1>15, <2>1 DEF Create, Window, EmptyDoc, Doc, Entry
<1>16. CASE Tick
  BY <1>16, LastTickNat DEF Tick
<1>17. CASE UNCHANGED vars
  BY <1>17 DEF vars
<1> QED
  BY <1>1, <1>2, <1>3, <1>4, <1>5, <1>6, <1>7, <1>8, <1>9, <1>10, <1>11,
     <1>12, <1>13, <1>14, <1>15, <1>16, <1>17 DEF Next, RunStep

\* The variables keep their types in every behaviour of the manager, its
\* scheduler, and the crashes and restarts of its process.
THEOREM TypeCorrect == Spec => []TypeOK
<1> QED
  BY InitTyped, NextTyped, PTL DEF Spec

-----------------------------------------------------------------------------
(***************************************************************************)
(* A running manager loses nothing.                                        *)
(***************************************************************************)

\* Time passes and forgets accumulate, so what is owed later is owed now.
LEMMA OwedBefore ==
  ASSUME TypeOK, TypeOK', ttl' = ttl, clock <= clock',
         forgotten \subseteq forgotten'
  PROVE  \A id \in Ids : Owed(id)' => Owed(id)
<1> SUFFICES ASSUME NEW id \in Ids, Owed(id)' PROVE Owed(id)
  OBVIOUS
<1>1. ttl[id] \in Int /\ clock \in Int /\ clock' \in Int
  <2>1. ttl \in [Ids -> Ttls] /\ Ttls \subseteq Int
    BY ConfigAssumption DEF TypeOK
  <2>2. clock \in 0 .. LastTick /\ clock' \in 0 .. LastTick
    BY DEF TypeOK
  <2>3. ttl[id] \in Int
    BY <2>1
  <2>4. clock \in Int /\ clock' \in Int
    BY <2>2, LastTickNat
  <2> QED
    BY <2>3, <2>4
<1>2. id \notin forgotten
  BY DEF Owed
<1>3. ~(ttl[id] # NoTtl /\ ttl[id] < clock')
  BY DEF Owed, ExpiredAt
<1>4. ~(ttl[id] # NoTtl /\ ttl[id] < clock)
  BY <1>1, <1>3
<1> QED
  BY <1>2, <1>4 DEF Owed, ExpiredAt

\* What a step must leave alone to keep Drops for a run.
RunFrame(s) ==
    pc'[s] = "dropping" =>
        /\ pc[s] = "dropping"
        /\ now'[s] = now[s]
        /\ closing'[s] \in todo'[s] =>
             \/ closing'[s] = closing[s] /\ closing[s] \in todo[s]
             \/ Leaving(closing'[s], now[s])

\* A step that keeps the open epochs and every copy of a chunk that is still
\* owed to a reader loses nothing.
LEMMA FrameLemma ==
  ASSUME IInv, TypeOK',
         UNCHANGED <<up, currentEpochId, open, known, ttl>>,
         clock <= clock', forgotten \subseteq forgotten',
         \A id \in Ids \ forgotten' :
            ~ExpiredAt(id, clock) =>
               \A e \in open : doc[e][id] = "live" <=> doc'[e][id] = "live",
         \A s \in Runs : RunFrame(s)
  PROVE  CurrentIsOpen' /\ NothingLostWhileRunning' /\ Drops'
<1> USE DEF IInv
<1>1. CurrentIsOpen'
  BY DEF CurrentIsOpen
<1>2. \A id \in Ids : Owed(id)' => Owed(id)
  BY OwedBefore
<1>3. \A id \in Ids : Owed(id)' => LiveEpochs(id)' = LiveEpochs(id)
  BY <1>2 DEF Owed, LiveEpochs
<1>4. NothingLostWhileRunning'
  BY <1>2, <1>3 DEF NothingLostWhileRunning, Visible, TypeOK
<1>5. ASSUME NEW s \in Runs, pc'[s] = "dropping"
      PROVE  /\ closing'[s] \in todo'[s] => Leaving(closing'[s], now'[s])
             /\ \A id \in Ids : Visible(id)' /\ Owed(id)' => Outlives(s, id)'
  <2>1. /\ pc[s] = "dropping"
        /\ now'[s] = now[s]
        /\ closing'[s] \in todo'[s] => Leaving(closing'[s], now[s])
    BY <1>5 DEF RunFrame, Drops
  <2>2. ASSUME NEW id \in Ids, Visible(id)', Owed(id)'
        PROVE  Outlives(s, id)'
    <3>1. Outlives(s, id)
      BY <1>2, <1>3, <2>1, <2>2 DEF Drops, Visible
    <3> QED
      BY <1>3, <2>1, <2>2, <3>1 DEF Outlives, Leaving, Cutoff
  <2> QED
    BY <2>1, <2>2
<1>6. Drops'
  BY <1>5 DEF Drops
<1> QED
  BY <1>1, <1>4, <1>6

\* The initial state satisfies the invariant.
LEMMA InitIInv == Init => IInv
<1> SUFFICES ASSUME Init PROVE IInv
  OBVIOUS
<1>1. TypeOK
  BY InitTyped
<1>2. EpochOf(clock) \in Epoch /\ currentEpochId = 0
  BY <1>1, EpochInRange DEF Init, TypeOK
<1>3. Order
  BY <1>2 DEF Init, Order, Epoch
<1>4. CurrentIsOpen /\ NothingLostWhileRunning
  BY DEF Init, CurrentIsOpen, NothingLostWhileRunning
<1>5. OneRotation /\ Stopped /\ ClosingIdle /\ Drops
  BY DEF Init, OneRotation, Stopped, ClosingIdle, Drops
<1> QED
  BY <1>1, <1>3, <1>4, <1>5 DEF IInv

\* Every request, every step of a run that neither rotates nor closes a
\* store, and the passing of time keeps the invariant.
LEMMA QuietIInv ==
  ASSUME NoStaleRun, IInv, TypeOK',
         \/ \E id \in Ids : Forget(id)
         \/ \E e \in Epoch : Save(e) \/ SaveFails(e)
         \/ \E r \in Runs : \/ RunStart(r) \/ NoRotation(r) \/ RotateBegin(r)
                            \/ \E e \in Epoch : DropFlush(r, e)
                            \/ DropRemove(r) \/ DropEnd(r)
         \/ Tick
         \/ UNCHANGED vars
  PROVE  IInv'
<1> USE DEF IInv, storeVars, runVars, ghostVars
<1>0. clock \in Nat /\ clock' \in Nat /\ \A s \in Runs : now[s] \in Nat
  BY LastTickNat DEF TypeOK
<1>1. CASE \E id \in Ids : Forget(id)
  <2> PICK id \in Ids : Forget(id)
    BY <1>1
  <2>1. \A e \in Epoch, x \in Ids \ {id} : doc'[e][x] = doc[e][x]
    BY ForgettingEffect DEF Forget
  <2>2. CurrentIsOpen' /\ NothingLostWhileRunning' /\ Drops'
    BY <1>0, <2>1, FrameLemma DEF Forget, RunFrame, TypeOK
  <2>3. Order' /\ OneRotation' /\ Stopped' /\ ClosingIdle'
    BY DEF Forget, Order, OneRotation, Stopped, ClosingIdle
  <2> QED
    BY <2>2, <2>3
<1>2. CASE \E e \in Epoch : Save(e) \/ SaveFails(e)
  <2>1. UNCHANGED <<up, clock, currentEpochId, open, doc, known, ttl,
                    forgotten, runVars>>
    BY <1>2 DEF Save, SaveFails
  <2>2. CurrentIsOpen' /\ NothingLostWhileRunning' /\ Drops'
    BY <1>0, <2>1, FrameLemma DEF RunFrame
  <2>3. Order' /\ OneRotation' /\ Stopped' /\ ClosingIdle'
    BY <2>1 DEF Order, OneRotation, Stopped, ClosingIdle
  <2> QED
    BY <2>2, <2>3
<1>3. CASE \E r \in Runs : RunStart(r)
  <2> PICK r \in Runs : RunStart(r)
    BY <1>3
  <2>1. \A e \in Epoch, x \in Ids : ~ExpiredAt(x, clock) =>
          doc'[e][x] = doc[e][x]
    BY ForgettingEffect DEF RunStart
  <2>2. \A s \in Runs : RunFrame(s)
    BY DEF RunStart, RunFrame, TypeOK
  <2>3. CurrentIsOpen' /\ NothingLostWhileRunning' /\ Drops'
    BY <1>0, <2>1, <2>2, FrameLemma DEF RunStart, TypeOK
  <2>4. Order' /\ OneRotation' /\ Stopped' /\ ClosingIdle'
    BY <1>0 DEF RunStart, Order, OneRotation, Stopped, ClosingIdle, TypeOK
  <2> QED
    BY <2>3, <2>4
<1>4. CASE \E r \in Runs : NoRotation(r)
  <2> PICK r \in Runs : NoRotation(r)
    BY <1>4
  <2>1. \A s \in Runs : RunFrame(s)
    BY DEF NoRotation, RunFrame, TypeOK
  <2>2. CurrentIsOpen' /\ NothingLostWhileRunning' /\ Drops'
    BY <1>0, <2>1, FrameLemma DEF NoRotation
  <2>3. Order' /\ OneRotation' /\ Stopped' /\ ClosingIdle'
    BY DEF NoRotation, Order, OneRotation, Stopped, ClosingIdle, TypeOK
  <2> QED
    BY <2>2, <2>3
<1>5. CASE \E r \in Runs : RotateBegin(r)
  <2> PICK r \in Runs : RotateBegin(r)
    BY <1>5
  <2>1. \A s \in Runs : RunFrame(s)
    BY DEF RotateBegin, RunFrame, TypeOK
  <2>2. CurrentIsOpen' /\ NothingLostWhileRunning' /\ Drops'
    BY <1>0, <2>1, FrameLemma DEF RotateBegin
  <2>3. EpochOf(now[r]) \in Epoch /\ currentEpochId < EpochOf(now[r])
    BY EpochInRange DEF RotateBegin, Order, TypeOK, Epoch
  <2>4. Order' /\ OneRotation' /\ Stopped' /\ ClosingIdle'
    BY <2>3 DEF RotateBegin, Order, OneRotation, Stopped, ClosingIdle, TypeOK
  <2> QED
    BY <2>2, <2>4
<1>6. CASE \E r \in Runs : \E e \in Epoch : DropFlush(r, e)
  <2> PICK r \in Runs, e \in Epoch : DropFlush(r, e)
    BY <1>6
  <2>1. \A s \in Runs : RunFrame(s)
    BY DEF DropFlush, MustDrop, RunFrame, TypeOK
  <2>2. CurrentIsOpen' /\ NothingLostWhileRunning' /\ Drops'
    BY <1>0, <2>1, FrameLemma DEF DropFlush
  <2>3. Order' /\ OneRotation' /\ Stopped' /\ ClosingIdle'
    BY DEF DropFlush, MustDrop, Order, OneRotation, Stopped, ClosingIdle, TypeOK
  <2> QED
    BY <2>2, <2>3
<1>7. CASE \E r \in Runs : DropRemove(r) \/ DropEnd(r)
  <2> PICK r \in Runs : DropRemove(r) \/ DropEnd(r)
    BY <1>7
  <2>1. \A s \in Runs : RunFrame(s)
    <3>1. CASE DropRemove(r)
      <4>1. NoEpoch \notin Epoch
        BY DEF NoEpoch, Epoch
      <4> QED
        BY <3>1, <4>1 DEF DropRemove, RunFrame, TypeOK
    <3>2. CASE DropEnd(r)
      BY <3>2 DEF DropEnd, RunFrame, TypeOK
    <3> QED
      BY <3>1, <3>2
  <2>2. UNCHANGED <<up, clock, currentEpochId, open, doc, known, ttl,
                    forgotten, now, migrationInProgress>>
    BY DEF DropRemove, DropEnd
  <2>3. CurrentIsOpen' /\ NothingLostWhileRunning' /\ Drops'
    BY <1>0, <2>1, <2>2, FrameLemma
  <2>4. Order' /\ OneRotation' /\ Stopped' /\ ClosingIdle'
    BY DEF DropRemove, DropEnd, Order, OneRotation, Stopped, ClosingIdle, TypeOK
  <2> QED
    BY <2>3, <2>4
<1>8. CASE Tick
  <2>1. clock <= clock'
    BY <1>0, <1>8 DEF Tick
  <2>2. CurrentIsOpen' /\ NothingLostWhileRunning' /\ Drops'
    BY <1>0, <1>8, <2>1, FrameLemma DEF Tick, RunFrame
  <2>3. EpochOf(clock) <= EpochOf(clock')
    BY <1>0, <2>1, DivMono, ConfigAssumption DEF EpochOf
  <2>4. /\ EpochOf(clock) \in Int /\ EpochOf(clock') \in Int
        /\ currentEpochId \in Int
    BY EpochInRange DEF TypeOK, Epoch
  <2>5. Order'
    BY <1>0, <1>8, <2>1, <2>3, <2>4 DEF Tick, Order
  <2>6. OneRotation' /\ Stopped' /\ ClosingIdle'
    BY <1>8 DEF Tick, OneRotation, Stopped, ClosingIdle
  <2> QED
    BY <2>2, <2>5, <2>6
<1>9. CASE UNCHANGED vars
  <2>1. CurrentIsOpen' /\ NothingLostWhileRunning' /\ Drops'
    BY <1>0, <1>9, FrameLemma DEF vars, RunFrame
  <2>2. Order' /\ OneRotation' /\ Stopped' /\ ClosingIdle'
    BY <1>9 DEF vars, Order, OneRotation, Stopped, ClosingIdle
  <2> QED
    BY <2>1, <2>2
<1> QED
  BY <1>1, <1>2, <1>3, <1>4, <1>5, <1>6, <1>7, <1>8, <1>9

\* A put adds a copy in the current epoch, which no run is about to drop.
LEMMA PutIInv ==
  ASSUME IInv, TypeOK', NEW new \in Ids, Put(new)
  PROVE  IInv'
<1> USE DEF IInv
<1>1. /\ UNCHANGED <<up, clock, currentEpochId, open, ttl, forgotten, pc, now,
                     todo, closing, migrationInProgress>>
      /\ known' = known \cup {new}
      /\ up /\ currentEpochId \in open
      /\ \A e \in Epoch, id \in Ids : doc[e][id] = "live" => doc'[e][id] = "live"
      /\ \A e \in Epoch, id \in Ids \ {new} : doc'[e][id] = doc[e][id]
      /\ doc'[currentEpochId][new] = "live"
  BY DEF Put, runVars, TypeOK, Doc
<1>2. \A id \in Ids : Owed(id)' => Owed(id)
  BY <1>1 DEF Owed, ExpiredAt
<1>3. /\ \A id \in Ids : LiveEpochs(id) \subseteq LiveEpochs(id)'
      /\ \A id \in Ids \ {new} : LiveEpochs(id)' = LiveEpochs(id)
      /\ currentEpochId \in LiveEpochs(new)'
  BY <1>1 DEF LiveEpochs, TypeOK
<1>4. NothingLostWhileRunning'
  BY <1>1, <1>2, <1>3 DEF NothingLostWhileRunning, Visible, TypeOK
<1>5. ASSUME NEW s \in Runs, pc[s] = "dropping"
      PROVE  ~Leaving(currentEpochId, now[s])
  BY <1>5, NotLeaving, LastTickNat DEF Order, TypeOK, Epoch
<1>6. Drops'
  <2> SUFFICES ASSUME NEW s \in Runs, pc[s] = "dropping", NEW id \in Ids,
                      Visible(id)', Owed(id)'
               PROVE  Outlives(s, id)'
    BY <1>1 DEF Drops, Leaving, Cutoff
  <2>1. CASE id = new
    BY <1>1, <1>3, <1>5, <2>1 DEF Outlives, Leaving, Cutoff
  <2>2. CASE id # new
    BY <1>1, <1>2, <1>3, <2>2 DEF Drops, Visible, Outlives, Leaving, Cutoff
  <2> QED
    BY <2>1, <2>2
<1>7. CurrentIsOpen' /\ Order' /\ OneRotation' /\ Stopped' /\ ClosingIdle'
  BY <1>1 DEF CurrentIsOpen, Order, OneRotation, Stopped, ClosingIdle
<1> QED
  BY <1>4, <1>6, <1>7

\* The end of a rotation: chunks of leaving epochs get a copy in the new
\* epoch, which is younger than every open one, so no document is replaced.
LEMMA RotateFinishIInv ==
  ASSUME NoStaleRun, IInv, TypeOK', NEW r \in Runs, RotateFinish(r)
  PROVE  IInv'
<1> DEFINE new == EpochOf(now[r])
<1> USE DEF IInv
<1>1. new \in Epoch
  BY EpochInRange DEF TypeOK
<1>2. /\ pc[r] = "opening" /\ up
      /\ currentEpochId < new
      /\ new \notin open
      /\ \A s \in Runs \ {r} : pc[s] # "opening"
  BY <1>1 DEF RotateFinish, Order, OneRotation, Stopped, ClosingIdle, TypeOK, Epoch
<1>3. /\ UNCHANGED <<up, clock, now, closing, known, ttl, forgotten>>
      /\ open' = open \cup {new}
      /\ currentEpochId' = new
      /\ \A e \in open : doc'[e] = doc[e]
      /\ \A id \in Migrated(new, now[r]) : doc'[new][id] = "live"
      /\ pc' = [pc EXCEPT ![r] = "dropping"]
      /\ \A s \in Runs \ {r} : todo'[s] = todo[s]
  <2>1. /\ UNCHANGED <<up, clock, now, closing, known, ttl, forgotten>>
        /\ open' = open \cup {new}
        /\ currentEpochId' = new
        /\ pc' = [pc EXCEPT ![r] = "dropping"]
        /\ \A s \in Runs \ {r} : todo'[s] = todo[s]
    BY DEF RotateFinish, ghostVars, TypeOK
  <2>2. \A e \in open : doc'[e] = doc[e]
    BY <1>1, <1>2 DEF RotateFinish, TypeOK
  <2>3. \A id \in Migrated(new, now[r]) : doc'[new][id] = "live"
    BY <1>1 DEF RotateFinish, TypeOK, Migrated
  <2> QED
    BY <2>1, <2>2, <2>3
<1>4. \A id \in Ids : /\ Owed(id)' => Owed(id)
                      /\ LiveEpochs(id)' \subseteq LiveEpochs(id) \cup {new}
                      /\ LiveEpochs(id) \subseteq LiveEpochs(id)'
  BY <1>3 DEF Owed, ExpiredAt, LiveEpochs
<1>5. NothingLostWhileRunning'
  BY <1>3, <1>4 DEF NothingLostWhileRunning, Visible, TypeOK
<1>6. \A s \in Runs : now[s] \in Nat /\ now[s] <= clock
  BY LastTickNat DEF TypeOK, Order
<1>7. \A s \in Runs : pc'[s] = "dropping" => EpochOf(now[s]) <= new
  <2> SUFFICES ASSUME NEW s \in Runs, pc'[s] = "dropping"
               PROVE  EpochOf(now[s]) <= new
    OBVIOUS
  <2>1. EpochOf(now[s]) \in Int /\ new \in Int /\ currentEpochId \in Int
    BY EpochInRange, <1>1 DEF TypeOK, Epoch
  <2> QED
    BY <1>2, <1>3, <2>1 DEF Order, TypeOK
<1>8. \A s \in Runs : pc'[s] = "dropping" => ~Leaving(new, now[s])
  BY <1>1, <1>6, <1>7, NotLeaving DEF Epoch
<1>9. ASSUME NEW s \in Runs, pc'[s] = "dropping", NEW id \in Ids,
             Visible(id)', Owed(id)'
      PROVE  Outlives(s, id)'
  <2>1. CASE new \in LiveEpochs(id)'
    BY <1>3, <1>8, <1>9, <2>1 DEF Outlives, Leaving, Cutoff
  <2>2. CASE new \notin LiveEpochs(id)'
    <3>1. PICK e \in LiveEpochs(id) : TRUE
      BY <1>4, <1>9, <2>2 DEF Visible
    <3>2. CASE s = r
      <4>1. ~ExpiredAt(id, now[r])
        <5>1. ttl[id] \in Ttls /\ clock \in 0 .. LastTick
          BY DEF TypeOK
        <5>2. ttl[id] \in Int
          BY <5>1, ConfigAssumption
        <5>3. clock \in Int /\ now[r] \in Int /\ now[r] <= clock
          BY <5>1, <1>6, LastTickNat
        <5>4. ttl[id] = NoTtl \/ ~(ttl[id] < clock)
          BY <1>4, <1>9 DEF Owed, ExpiredAt
        <5> QED
          BY <5>2, <5>3, <5>4 DEF ExpiredAt
      <4>2. ~Leaving(e, now[r])
        BY <1>2, <1>3, <2>2, <3>1, <4>1 DEF Migrated, LiveEpochs
      <4> QED
        BY <1>3, <1>4, <3>1, <3>2, <4>2 DEF Outlives, Leaving, Cutoff
    <3>3. CASE s # r
      <4>1. Outlives(s, id)
        BY <1>3, <1>4, <1>9, <3>1, <3>3 DEF Drops, Visible, TypeOK
      <4> QED
        BY <1>3, <1>4, <4>1 DEF Outlives, Leaving, Cutoff
    <3> QED
      BY <3>2, <3>3
  <2> QED
    BY <2>1, <2>2
<1>10. ASSUME NEW s \in Runs, pc'[s] = "dropping", closing'[s] \in todo'[s]
       PROVE  Leaving(closing'[s], now'[s])
  <2>1. closing[r] = NoEpoch /\ todo'[r] \subseteq Epoch
    BY <1>2 DEF ClosingIdle, TypeOK
  <2>2. s # r
    BY <1>3, <1>10, <2>1 DEF NoEpoch, Epoch
  <2> QED
    BY <1>3, <1>10, <2>2 DEF Drops, Leaving, Cutoff, TypeOK
<1>11. Drops'
  BY <1>9, <1>10 DEF Drops
<1>12. CurrentIsOpen' /\ OneRotation' /\ Stopped' /\ ClosingIdle'
  BY <1>2, <1>3 DEF CurrentIsOpen, OneRotation, Stopped, ClosingIdle, TypeOK
<1>13. Order'
  <2>1. \A s \in Runs : EpochOf(now[s]) \in Int
    BY EpochInRange DEF TypeOK, Epoch
  <2>2. new <= EpochOf(clock)
    <3>1. now[r] \in Nat /\ now[r] <= clock
      BY <1>6
    <3>2. clock \in Nat /\ Dur \in Nat \ {0}
      BY LastTickNat, ConfigAssumption DEF TypeOK
    <3> HIDE DEF new
    <3>3. now[r] \div Dur <= clock \div Dur
      BY <3>1, <3>2, DivMono
    <3> QED
      BY <3>3 DEF new, EpochOf
  <2>3. \A e \in open' : e <= new
    BY <1>1, <1>2, <1>3 DEF Order, TypeOK, Epoch
  <2>4. \A s \in Runs : pc'[s] = "check" => new <= EpochOf(now[s])
    <3> SUFFICES ASSUME NEW s \in Runs, pc'[s] = "check"
                 PROVE  new <= EpochOf(now[s])
      OBVIOUS
    <3>1. s # r /\ pc[s] = "check"
      BY <1>3 DEF TypeOK
    <3>2. ~MayLag
      BY <3>1 DEF NoStaleRun
    <3> QED
      BY <3>1, <3>2 DEF RotateFinish, Turn, Busy
  <2>5. \A s \in Runs : pc'[s] # "opening"
    BY <1>2, <1>3 DEF TypeOK
  <2> QED
    BY <1>3, <1>6, <1>7, <2>2, <2>3, <2>4, <2>5 DEF Order
<1> QED
  BY <1>5, <1>11, <1>12, <1>13

\* A run closes only epochs out of its window, so the current one stays, and
\* the copies that outlive its drop outlive this step for every other run too.
LEMMA DropCloseIInv ==
  ASSUME IInv, TypeOK', NEW r \in Runs, NEW e \in Epoch, DropClose(r, e)
  PROVE  IInv'
<1> USE DEF IInv
<1>1. /\ UNCHANGED <<up, clock, currentEpochId, known, ttl, forgotten, pc, now,
                     migrationInProgress>>
      /\ open' = open \ {e}
      /\ \A f \in Epoch \ {e} : doc'[f] = doc[f]
      /\ todo' = [todo EXCEPT ![r] = @ \ {e}]
      /\ closing' = [closing EXCEPT ![r] = e]
      /\ pc[r] = "dropping"
  BY DEF DropClose, MustDrop, ghostVars, TypeOK
<1>2. \A s \in Runs : now[s] \in Nat /\ now[s] \in Int
  BY LastTickNat DEF TypeOK
<1>3. Leaving(e, now[r])
  BY <1>1 DEF DropClose, MustDrop, Drops
<1>4. e # currentEpochId
  <2>1. ~Leaving(currentEpochId, now[r])
    BY <1>1, <1>2, NotLeaving DEF Order, TypeOK, Epoch
  <2> QED
    BY <1>3, <2>1
<1>5. \A id \in Ids : /\ Owed(id)' <=> Owed(id)
                      /\ LiveEpochs(id)' = LiveEpochs(id) \ {e}
  BY <1>1 DEF Owed, ExpiredAt, LiveEpochs, TypeOK
<1>6. ASSUME NEW id \in Ids, Visible(id), Owed(id)
      PROVE  \E f \in LiveEpochs(id)' : ~Leaving(f, now[r])
  <2>1. Outlives(r, id)
    BY <1>1, <1>6 DEF Drops
  <2> QED
    BY <1>3, <1>5, <2>1 DEF Outlives
<1>7. NothingLostWhileRunning'
  BY <1>1, <1>5, <1>6 DEF NothingLostWhileRunning, Visible, TypeOK
<1>8. Drops'
  <2>1. ASSUME NEW s \in Runs, pc[s] = "dropping",
               closing'[s] \in todo'[s]
        PROVE  Leaving(closing'[s], now[s])
    <3>1. s # r
      BY <1>1, <2>1 DEF TypeOK
    <3> QED
      BY <1>1, <2>1, <3>1 DEF Drops, TypeOK
  <2>2. ASSUME NEW s \in Runs, pc[s] = "dropping", NEW id \in Ids,
               Visible(id)', Owed(id)'
        PROVE  \E f \in LiveEpochs(id)' : ~Leaving(f, now[s])
    <3>1. Visible(id) /\ Owed(id)
      BY <1>5, <2>2 DEF Visible
    <3>2. CASE now[s] <= now[r]
      <4>1. PICK f \in LiveEpochs(id)' : ~Leaving(f, now[r])
        BY <1>6, <3>1
      <4>2. f \in Nat
        BY <1>5, <4>1 DEF LiveEpochs, TypeOK, Epoch
      <4> QED
        BY <1>2, <3>2, <4>1, <4>2, LeavingMono
    <3>3. CASE now[r] <= now[s]
      <4>1. Leaving(e, now[s])
        BY <1>2, <1>3, <3>3, LeavingMono DEF Epoch
      <4>2. Outlives(s, id)
        BY <2>2, <3>1 DEF Drops
      <4> QED
        BY <1>5, <4>1, <4>2 DEF Outlives
    <3> QED
      BY <1>2, <3>2, <3>3
  <2> QED
    BY <1>1, <2>1, <2>2 DEF Drops, Outlives, Leaving, Cutoff
<1>9. CurrentIsOpen' /\ OneRotation' /\ Stopped' /\ ClosingIdle' /\ Order'
  BY <1>1, <1>4
     DEF CurrentIsOpen, OneRotation, Stopped, ClosingIdle, Order, TypeOK
<1> QED
  BY <1>7, <1>8, <1>9

\* A process that is down owes nobody anything.
LEMMA DownIInv ==
  ASSUME IInv, TypeOK', Down
  PROVE  IInv'
<1>1. CurrentIsOpen' /\ NothingLostWhileRunning'
  BY DEF Down, CurrentIsOpen, NothingLostWhileRunning
<1>2. Order'
  BY DEF IInv, Down, Order
<1>3. OneRotation' /\ Stopped' /\ ClosingIdle' /\ Drops'
  BY DEF Down, OneRotation, Stopped, ClosingIdle, Drops
<1> QED
  BY <1>1, <1>2, <1>3 DEF IInv

\* A new process owes its readers what the files it opened hold.
LEMMA CreateIInv ==
  ASSUME IInv, TypeOK', Create
  PROVE  IInv'
<1> DEFINE current == EpochOf(clock)
<1> USE DEF IInv
<1>1. current \in Epoch
  BY EpochInRange DEF TypeOK
<1>2. current \in Window(current)
  BY <1>1, ConfigAssumption DEF Window, Epoch
<1>3. /\ UNCHANGED <<clock, now, pc, todo, closing, migrationInProgress>>
      /\ currentEpochId' = current /\ open' = Window(current)
      /\ \A s \in Runs : pc[s] = "idle"
  BY DEF Create, Stopped, runVars
<1>4. CurrentIsOpen' /\ OneRotation' /\ Stopped' /\ ClosingIdle' /\ Drops'
  BY <1>2, <1>3
     DEF Create, CurrentIsOpen, OneRotation, Stopped, ClosingIdle, Drops
<1>5. NothingLostWhileRunning'
  <2> SUFFICES ASSUME NEW id \in known' PROVE Visible(id)'
    BY DEF NothingLostWhileRunning
  <2>1. PICK f \in Window(current) : file[f][id] = "live"
    BY DEF Create
  <2>2. f \in Epoch /\ f \in open'
    BY <1>3, <2>1 DEF Window
  <2>3. doc'[f][id] = "live"
    BY <2>1, <2>2 DEF Create
  <2> QED
    BY <2>2, <2>3 DEF Visible, LiveEpochs
<1>6. Order'
  BY <1>1, <1>3 DEF Order, Window, Epoch
<1> QED
  BY <1>4, <1>5, <1>6

\* Every step keeps the invariant when no run acts on a stale time.
LEMMA NextIInv ==
  ASSUME NoStaleRun, IInv, [Next]_vars
  PROVE  IInv'
<1>1. TypeOK'
  BY NextTyped DEF IInv
<1>2. CASE Stop
  BY <1>1, <1>2, DownIInv DEF Stop
<1>3. CASE Crash
  BY <1>1, <1>3, DownIInv DEF Crash
<1>4. CASE Create
  BY <1>1, <1>4, CreateIInv
<1>5. CASE \E id \in Ids : Put(id)
  BY <1>1, <1>5, PutIInv
<1>6. CASE \E r \in Runs : RotateFinish(r)
  BY <1>1, <1>6, RotateFinishIInv
<1>7. CASE \E r \in Runs, e \in Epoch : DropClose(r, e)
  BY <1>1, <1>7, DropCloseIInv
<1>8. CASE \/ \E id \in Ids : Forget(id)
           \/ \E e \in Epoch : Save(e) \/ SaveFails(e)
           \/ \E r \in Runs : \/ RunStart(r) \/ NoRotation(r) \/ RotateBegin(r)
                              \/ \E e \in Epoch : DropFlush(r, e)
                              \/ DropRemove(r) \/ DropEnd(r)
           \/ Tick
           \/ UNCHANGED vars
  BY <1>1, <1>8, QuietIInv
<1> QED
  BY <1>2, <1>3, <1>4, <1>5, <1>6, <1>7, <1>8 DEF Next, RunStep

\* The inductive invariant holds when runs of the scheduler do not overlap, or
\* overlap without being held up before they act on the time they captured.
THEOREM Invariance ==
  ASSUME NoStaleRun
  PROVE  Spec => []IInv
<1>1. IInv /\ [Next]_vars => IInv'
  BY NextIInv
<1> QED
  BY InitIInv, <1>1, PTL DEF Spec

\* No drop ever removes the epoch that writes go to, so currentStore() never
\* finds it missing.
THEOREM CurrentStaysOpen ==
  ASSUME NoStaleRun
  PROVE  Spec => []CurrentIsOpen
<1>1. IInv => CurrentIsOpen
  BY DEF IInv
<1> QED
  BY Invariance, <1>1, PTL

\* A running manager answers get() for every chunk it owes a reader, through
\* every rotation, migration and drop, for any retention and epoch length.
THEOREM NothingLost ==
  ASSUME NoStaleRun
  PROVE  Spec => []NothingLostWhileRunning
<1>1. IInv => NothingLostWhileRunning
  BY DEF IInv
<1> QED
  BY Invariance, <1>1, PTL

-----------------------------------------------------------------------------
(***************************************************************************)
(* The files, and chunks that were forgotten.                              *)
(***************************************************************************)

\* What the files have to do with the documents and with what is owed: none is
\* ahead of the current epoch, that of an open epoch has nothing that its
\* document lost and somebody is still owed, and neither has that of an epoch
\* which is being closed.
FilesInv ==
    /\ known \subseteq written /\ forgotten \subseteq written
    /\ \A e \in Epoch, id \in Ids :
         file[e][id] = "live" => e <= currentEpochId /\ id \in written
    /\ \A e \in open, id \in Ids :
         /\ doc[e][id] = "live" => id \in known
         /\ file[e][id] = "live" => doc[e][id] = "live" \/ ~Owed(id)
    /\ \A r \in Runs, id \in Ids :
         closing[r] # NoEpoch /\ file[closing[r]][id] = "live"
            => id \in known \/ ~Owed(id)

\* Files that were written have what the open documents have.
LEMMA FilesWritten ==
  ASSUME TypeOK, NEW W \in SUBSET open,
         file' = [e \in Epoch |-> IF e \in W THEN doc[e] ELSE file[e]]
  PROVE  \A e \in Epoch, id \in Ids :
            file'[e][id] = "live" => \/ file[e][id] = "live"
                                     \/ e \in open /\ doc[e][id] = "live"
  OBVIOUS

LEMMA InitFilesInv == Init => FilesInv
<1> SUFFICES ASSUME Init PROVE FilesInv
  OBVIOUS
<1>1. /\ \A e \in Epoch, id \in Ids : file[e][id] # "live" /\ doc[e][id] # "live"
      /\ open \subseteq Epoch
      /\ known = {} /\ written = {} /\ forgotten = {}
      /\ \A r \in Runs : closing[r] = NoEpoch
  BY ConfigAssumption DEF Init, EmptyDoc, Epoch
<1> QED
  BY <1>1 DEF FilesInv

\* forget() and runGC take chunks away and add none.
LEMMA ForgettingTakes ==
  ASSUME TypeOK, NEW S \in SUBSET Ids, Forgetting(S),
         NEW e \in Epoch, NEW id \in Ids
  PROVE  /\ doc'[e][id] = "live" => doc[e][id] = "live"
         /\ doc[e][id] = "live" => doc'[e][id] = "live" \/ id \in S
  BY DEF Forgetting, TypeOK

\* A step that adds no live chunk to a document, adds to a file what the document
\* of its epoch has, and takes away only what nobody is owed any more.
FilesKept ==
    /\ UNCHANGED <<currentEpochId, open, ttl, known, written>>
    /\ clock <= clock'
    /\ forgotten \subseteq forgotten' /\ forgotten' \subseteq written
    /\ \A e \in Epoch, id \in Ids :
         file'[e][id] = "live" => \/ file[e][id] = "live"
                                  \/ e \in open /\ doc[e][id] = "live"
    /\ \A e \in open, id \in Ids :
         /\ doc'[e][id] = "live" => doc[e][id] = "live"
         /\ doc[e][id] = "live" => doc'[e][id] = "live" \/ ~Owed(id)'
    /\ \A r \in Runs : closing'[r] \in {closing[r], NoEpoch} \cup open

LEMMA FilesFrame ==
  ASSUME IInv, TypeOK', FilesInv, FilesKept
  PROVE  FilesInv'
<1>0. TypeOK /\ \A e \in open : e \in Epoch /\ e <= currentEpochId
  BY DEF IInv, Order, TypeOK
<1>1. \A id \in Ids : Owed(id)' => Owed(id)
  BY <1>0, OwedBefore DEF FilesKept
<1>2. known' \subseteq written' /\ forgotten' \subseteq written'
  BY DEF FilesInv, FilesKept
<1>3. ASSUME NEW e \in Epoch, NEW id \in Ids, file'[e][id] = "live"
      PROVE  e <= currentEpochId' /\ id \in written'
  <2>1. CASE file[e][id] = "live"
    BY <2>1 DEF FilesInv, FilesKept
  <2>2. CASE e \in open /\ doc[e][id] = "live"
    BY <1>0, <2>2 DEF FilesInv, FilesKept
  <2> QED
    BY <1>3, <2>1, <2>2 DEF FilesKept
<1>4. ASSUME NEW e \in open', NEW id \in Ids
      PROVE  /\ doc'[e][id] = "live" => id \in known'
             /\ file'[e][id] = "live" => doc'[e][id] = "live" \/ ~Owed(id)'
  <2>1. e \in open /\ e \in Epoch
    BY <1>0 DEF FilesKept
  <2>2. doc'[e][id] = "live" => id \in known'
    BY <2>1 DEF FilesInv, FilesKept
  <2>3. file'[e][id] = "live" => doc[e][id] = "live" \/ ~Owed(id)
    BY <2>1 DEF FilesInv, FilesKept
  <2> QED
    BY <1>1, <2>1, <2>2, <2>3 DEF FilesKept
<1>5. ASSUME NEW r \in Runs, NEW id \in Ids, closing'[r] # NoEpoch,
             file'[closing'[r]][id] = "live"
      PROVE  id \in known' \/ ~Owed(id)'
  <2>1. closing'[r] \in Epoch /\ closing'[r] \in {closing[r]} \cup open
    BY <1>5 DEF TypeOK, FilesKept
  <2>2. CASE closing'[r] \in open /\ doc[closing'[r]][id] = "live"
    BY <2>2 DEF FilesInv, FilesKept
  <2>3. CASE closing'[r] \in open /\ doc[closing'[r]][id] # "live"
    BY <1>1, <1>5, <2>1, <2>3 DEF FilesInv, FilesKept
  <2>4. CASE closing'[r] \notin open
    BY <1>1, <1>5, <2>1, <2>4 DEF FilesInv, FilesKept
  <2> QED
    BY <2>2, <2>3, <2>4
<1> QED
  BY <1>2, <1>3, <1>4, <1>5 DEF FilesInv

\* Every step keeps it, next to IInv.
LEMMA NextFilesInv ==
  ASSUME IInv, TypeOK', FilesInv, [Next]_vars
  PROVE  FilesInv'
<1> USE DEF IInv
<1>0. /\ clock \in Int /\ clock <= clock
      /\ \A e \in open : e <= currentEpochId
  BY LastTickNat DEF TypeOK, Order
<1>1. CASE \E id \in Ids : Put(id)
  <2> PICK new \in Ids : Put(new)
    BY <1>1
  <2>1. /\ UNCHANGED <<clock, currentEpochId, open, file, ttl, forgotten, closing>>
        /\ known' = known \cup {new} /\ written' = written \cup {new}
        /\ \A e \in Epoch, id \in Ids \ {new} : doc'[e][id] = doc[e][id]
        /\ \A e \in Epoch : doc'[e][new] \in {doc[e][new], "live"}
        /\ new \notin written
    BY DEF Put, runVars, TypeOK
  <2>2. \A id \in Ids : Owed(id)' <=> Owed(id)
    BY <2>1 DEF Owed, ExpiredAt
  <2> QED
    BY <2>1, <2>2 DEF FilesInv, TypeOK
<1>2. CASE \E id \in Ids : Forget(id)
  <2> PICK gone \in Ids : Forget(gone)
    BY <1>2
  <2>1. \A e \in Epoch, id \in Ids :
          /\ doc'[e][id] = "live" => doc[e][id] = "live"
          /\ doc[e][id] = "live" => doc'[e][id] = "live" \/ id = gone
    BY ForgettingTakes DEF Forget
  <2>2. gone \in written
    BY DEF Forget, Visible, LiveEpochs, FilesInv
  <2>3. ~Owed(gone)'
    BY DEF Forget, Owed
  <2>9. FilesKept
    BY <1>0, <2>1, <2>2, <2>3 DEF FilesKept, Forget, runVars, TypeOK, FilesInv
  <2> QED
    BY <2>9, FilesFrame
<1>3. CASE \E e \in Epoch : Save(e) \/ SaveFails(e)
  <2>1. UNCHANGED <<clock, currentEpochId, open, doc, ttl, known, written,
                    forgotten, closing>>
    BY <1>3 DEF Save, SaveFails, runVars, ghostVars
  <2>2. \A e \in Epoch, id \in Ids :
            file'[e][id] = "live" => \/ file[e][id] = "live"
                                     \/ e \in open /\ doc[e][id] = "live"
    <3>1. ASSUME NEW f \in Epoch, Save(f)
          PROVE  /\ {f} \in SUBSET open
                 /\ file' = [e \in Epoch |-> IF e \in {f} THEN doc[e] ELSE file[e]]
      BY <3>1 DEF Save, TypeOK
    <3>2. CASE \E f \in Epoch : Save(f)
      BY <3>1, <3>2, FilesWritten
    <3>3. CASE \E f \in Epoch : SaveFails(f)
      BY <3>3 DEF SaveFails
    <3> QED
      BY <1>3, <3>2, <3>3
  <2>9. FilesKept
    BY <1>0, <2>1, <2>2 DEF FilesKept, FilesInv
  <2> QED
    BY <2>9, FilesFrame
<1>4. CASE \E r \in Runs : RunStart(r)
  <2> PICK r \in Runs : RunStart(r)
    BY <1>4
  <2>1. \A e \in Epoch, id \in Ids :
          /\ doc'[e][id] = "live" => doc[e][id] = "live"
          /\ doc[e][id] = "live" => doc'[e][id] = "live" \/ ExpiredAt(id, clock)
    BY ForgettingTakes DEF RunStart
  <2>2. UNCHANGED <<clock, currentEpochId, open, file, ttl, known, written,
                    forgotten, closing>>
    BY DEF RunStart, ghostVars
  <2>3. \A id \in Ids : ExpiredAt(id, clock) => ~Owed(id)'
    BY <2>2 DEF Owed, ExpiredAt
  <2>9. FilesKept
    BY <1>0, <2>1, <2>2, <2>3 DEF FilesKept, TypeOK, FilesInv
  <2> QED
    BY <2>9, FilesFrame
<1>5. CASE \E r \in Runs : NoRotation(r) \/ RotateBegin(r) \/ DropEnd(r)
  <2>1. UNCHANGED <<clock, currentEpochId, open, doc, file, ttl, known, written,
                    forgotten, closing>>
    BY <1>5 DEF NoRotation, RotateBegin, DropEnd, storeVars, ghostVars
  <2>9. FilesKept
    BY <1>0, <2>1 DEF FilesKept, FilesInv
  <2> QED
    BY <2>9, FilesFrame
<1>6. CASE \E r \in Runs : RotateFinish(r)
  <2> PICK r \in Runs : RotateFinish(r)
    BY <1>6
  <2> DEFINE new == EpochOf(now[r])
  <2>1. /\ UNCHANGED <<clock, file, ttl, known, written, forgotten, closing>>
        /\ open' = open \cup {new} /\ currentEpochId' = new
        /\ \A e \in Epoch \ {new} : doc'[e] = doc[e]
        /\ \A id \in Ids : doc'[new][id] = "live" =>
             file[new][id] = "live" \/ id \in Migrated(new, now[r])
    BY DEF RotateFinish, ghostVars, TypeOK
  <2>2. new \in Epoch /\ currentEpochId < new
    BY EpochInRange DEF RotateFinish, Order, TypeOK
  <2>3. \A id \in Ids : file[new][id] # "live"
    BY <2>2 DEF FilesInv, TypeOK, Epoch
  <2>4. \A id \in Migrated(new, now[r]) : id \in known
    BY DEF Migrated, FilesInv
  <2>5. \A id \in Ids : Owed(id)' <=> Owed(id)
    BY <2>1 DEF Owed, ExpiredAt
  <2>6. \A e \in Epoch, id \in Ids :
          file'[e][id] = "live" => e <= currentEpochId' /\ id \in written'
    BY <2>1, <2>2 DEF FilesInv, TypeOK, Epoch
  <2>7. \A e \in open', id \in Ids :
          /\ doc'[e][id] = "live" => id \in known'
          /\ file'[e][id] = "live" => doc'[e][id] = "live" \/ ~Owed(id)'
    BY <2>1, <2>3, <2>4, <2>5 DEF FilesInv, TypeOK
  <2> QED
    BY <2>1, <2>5, <2>6, <2>7 DEF FilesInv
<1>7. CASE \E r \in Runs, e \in Epoch : DropFlush(r, e)
  <2> PICK r \in Runs, f \in Epoch : DropFlush(r, f)
    BY <1>7
  <2>1. UNCHANGED <<clock, currentEpochId, open, doc, ttl, known, written,
                    forgotten>>
    BY DEF DropFlush, ghostVars
  <2>2. \A s \in Runs : closing'[s] \in {closing[s], NoEpoch} \cup open
    BY DEF DropFlush, TypeOK
  <2>3. /\ {f} \in SUBSET open
        /\ file' = [e \in Epoch |-> IF e \in {f} THEN doc[e] ELSE file[e]]
    BY DEF DropFlush, TypeOK
  <2>4. \A e \in Epoch, id \in Ids :
            file'[e][id] = "live" => \/ file[e][id] = "live"
                                     \/ e \in open /\ doc[e][id] = "live"
    BY <2>3, FilesWritten
  <2>9. FilesKept
    BY <1>0, <2>1, <2>2, <2>4 DEF FilesKept, FilesInv
  <2> QED
    BY <2>9, FilesFrame
<1>8. CASE \E r \in Runs, e \in Epoch : DropClose(r, e)
  <2> PICK r \in Runs, f \in Epoch : DropClose(r, f)
    BY <1>8
  <2>1. /\ UNCHANGED <<clock, currentEpochId, file, ttl, known, written, forgotten>>
        /\ open' = open \ {f}
        /\ \A e \in open' : doc'[e] = doc[e]
        /\ closing' = [closing EXCEPT ![r] = f]
        /\ f \in open \/ closing[r] = f
    BY DEF DropClose, MustDrop, ghostVars, TypeOK
  <2>2. \A id \in Ids : Owed(id)' <=> Owed(id)
    BY <2>1 DEF Owed, ExpiredAt
  <2>3. ASSUME NEW s \in Runs, NEW id \in Ids, closing'[s] # NoEpoch,
               file'[closing'[s]][id] = "live"
        PROVE  id \in known' \/ ~Owed(id)'
    <3>1. CASE s = r
      BY <2>1, <2>2, <2>3, <3>1 DEF FilesInv, TypeOK, NoEpoch, Epoch
    <3>2. CASE s # r
      BY <2>1, <2>2, <2>3, <3>2 DEF FilesInv, TypeOK
    <3> QED
      BY <3>1, <3>2
  <2> QED
    BY <2>1, <2>2, <2>3 DEF FilesInv
<1>9. CASE \E r \in Runs : DropRemove(r)
  <2> PICK r \in Runs : DropRemove(r)
    BY <1>9
  <2>1. UNCHANGED <<clock, currentEpochId, open, doc, ttl, known, written,
                    forgotten>>
    BY DEF DropRemove, storeVars, ghostVars
  <2>2. /\ \A e \in Epoch, id \in Ids :
             file'[e][id] = "live" => file[e][id] = "live"
        /\ \A s \in Runs : closing'[s] \in {closing[s], NoEpoch}
    BY DEF DropRemove, EmptyDoc, TypeOK
  <2>9. FilesKept
    BY <1>0, <2>1, <2>2 DEF FilesKept, FilesInv
  <2> QED
    BY <2>9, FilesFrame
<1>10. CASE Stop \/ Crash
  <2>1. /\ UNCHANGED <<currentEpochId, written>>
        /\ known' = {} /\ open' = {} /\ forgotten' \subseteq forgotten
        /\ \A s \in Runs : closing'[s] = NoEpoch
    BY <1>10 DEF Stop, Crash, Down, Saved
  <2>2. \A e \in Epoch, id \in Ids :
            file'[e][id] = "live" => \/ file[e][id] = "live"
                                     \/ e \in open /\ doc[e][id] = "live"
    <3>1. CASE Stop
      <4>1. PICK W \in SUBSET {e \in open : savePending[e]} :
                   file' = [e \in Epoch |-> IF e \in W THEN doc[e] ELSE file[e]]
        BY <3>1 DEF Stop
      <4> QED
        BY <4>1, FilesWritten
    <3>2. CASE Crash
      BY <3>2 DEF Crash
    <3> QED
      BY <1>10, <3>1, <3>2
  <2> QED
    BY <1>0, <2>1, <2>2 DEF FilesInv
<1>11. CASE Create
  <2>1. /\ UNCHANGED <<clock, file, ttl, written, forgotten>>
        /\ \A e \in open' : e \in Epoch /\ doc'[e] = file[e]
        /\ known' = {id \in Ids : \E e \in open' : file[e][id] = "live"}
        /\ currentEpochId' = EpochOf(clock)
    BY <1>11 DEF Create, Window
  <2>2. \A s \in Runs : closing'[s] = NoEpoch
    BY <1>11 DEF Create, Stopped, ClosingIdle, runVars
  <2>3. \A e \in Epoch, id \in Ids :
          file'[e][id] = "live" => e <= currentEpochId' /\ id \in written'
    <3>1. EpochOf(clock) \in Epoch /\ currentEpochId <= EpochOf(clock)
      BY EpochInRange DEF Order, TypeOK
    <3> QED
      BY <2>1, <3>1 DEF FilesInv, TypeOK, Epoch
  <2> QED
    BY <2>1, <2>2, <2>3 DEF FilesInv
<1>12. CASE Tick \/ UNCHANGED vars
  <2>1. /\ UNCHANGED <<currentEpochId, open, doc, file, ttl, known, written,
                       forgotten, closing>>
        /\ clock <= clock'
    BY <1>0, <1>12 DEF Tick, vars, storeVars, runVars, ghostVars
  <2>9. FilesKept
    BY <1>0, <2>1 DEF FilesKept, FilesInv
  <2> QED
    BY <2>9, FilesFrame
<1> QED
  BY <1>1, <1>2, <1>3, <1>4, <1>5, <1>6, <1>7, <1>8, <1>9, <1>10, <1>11, <1>12
     DEF Next, RunStep

\* A chunk leaves a file only when it can be read without it or is owed to
\* nobody: a save writes what the document has, and the file of a dropped epoch
\* has nothing that a running manager owes and does not hold elsewhere.
THEOREM FilesGoLast ==
  ASSUME NoStaleRun
  PROVE  Spec => FilesRemovedAreMigrated
<1> DEFINE Step == \A e \in Epoch, id \in Ids :
                     /\ file[e][id] = "live" /\ file'[e][id] # "live"
                     /\ Owed(id)
                     => Visible(id)
<1>1. ASSUME IInv, FilesInv, [Next]_vars PROVE [Step]_vars
  <2> SUFFICES ASSUME Next, NEW e \in Epoch, NEW id \in Ids,
                      file[e][id] = "live", file'[e][id] # "live", Owed(id)
               PROVE  Visible(id)
    BY <1>1
  <2>1. CASE \E f \in Epoch : Save(f)
    <3> PICK f \in Epoch : Save(f)
      BY <2>1
    <3>1. e = f /\ e \in open /\ file'[e] = doc[e]
      BY <1>1 DEF Save, IInv, TypeOK
    <3> QED
      BY <1>1, <3>1 DEF FilesInv
  <2>2. CASE \E r \in Runs, f \in Epoch : DropFlush(r, f)
    <3> PICK r \in Runs, f \in Epoch : DropFlush(r, f)
      BY <2>2
    <3>1. e = f /\ e \in open /\ file'[e] = doc[e]
      BY <1>1 DEF DropFlush, IInv, TypeOK
    <3> QED
      BY <1>1, <3>1 DEF FilesInv
  <2>3. CASE Stop
    <3>1. e \in open /\ file'[e] = doc[e]
      BY <2>3 DEF Stop
    <3> QED
      BY <1>1, <3>1 DEF FilesInv
  <2>4. CASE \E r \in Runs : DropRemove(r)
    <3> PICK r \in Runs : DropRemove(r)
      BY <2>4
    <3>1. closing[r] = e /\ pc[r] = "dropping" /\ closing[r] # NoEpoch
      BY <1>1 DEF DropRemove, IInv, TypeOK
    <3>2. up
      BY <1>1, <3>1 DEF IInv, Stopped
    <3> QED
      BY <1>1, <3>1, <3>2 DEF FilesInv, IInv, NothingLostWhileRunning
  <2>5. CASE UNCHANGED file
    BY <2>5
  <2> QED
    BY <2>1, <2>2, <2>3, <2>4, <2>5
       DEF Next, RunStep, Put, Forget, SaveFails, RunStart, NoRotation,
           RotateBegin, RotateFinish, DropClose, DropEnd, Crash, Create, Tick
<1>2. IInv /\ FilesInv /\ [Next]_vars => FilesInv'
  BY NextFilesInv, NextTyped DEF IInv
<1>3. IInv /\ FilesInv /\ [Next]_vars => [Step]_vars
  BY <1>1
<1> QED
  BY Invariance, InitFilesInv, <1>2, <1>3, PTL DEF Spec, FilesRemovedAreMigrated

\* What get() of a running manager has stopped returning after it was forgotten
\* is never returned again: a migration copies only what is still readable, and
\* an epoch that opens has no file yet.
THEOREM NoReturn ==
  ASSUME NoStaleRun
  PROVE  Spec => ForgottenStaysAway
<1> DEFINE Step == up => \A id \in forgotten : Visible(id)' => Visible(id)
<1>1. ASSUME IInv, FilesInv, [Next]_vars PROVE [Step]_vars
  <2> SUFFICES ASSUME Next, up, NEW id \in forgotten, Visible(id)'
               PROVE  Visible(id)
    BY <1>1
  <2>0. id \in Ids /\ id \in written
    BY <1>1 DEF FilesInv, IInv, TypeOK
  <2>1. CASE \E new \in Ids : Put(new)
    BY <1>1, <2>0, <2>1 DEF Put, Visible, LiveEpochs, IInv, TypeOK
  <2>2. CASE \E gone \in Ids : Forget(gone)
    <3>1. \A e \in Epoch : doc'[e][id] = "live" => doc[e][id] = "live"
      BY <1>1, <2>0, <2>2, ForgettingTakes DEF Forget, IInv
    <3> QED
      BY <1>1, <2>2, <3>1 DEF Forget, Visible, LiveEpochs, IInv, TypeOK
  <2>3. CASE \E r \in Runs : RunStart(r)
    <3>1. \A e \in Epoch : doc'[e][id] = "live" => doc[e][id] = "live"
      BY <1>1, <2>0, <2>3, ForgettingTakes DEF RunStart, IInv
    <3> QED
      BY <1>1, <2>3, <3>1 DEF RunStart, Visible, LiveEpochs, IInv, TypeOK
  <2>4. CASE \E r \in Runs : RotateFinish(r)
    <3> PICK r \in Runs : RotateFinish(r)
      BY <2>4
    <3> DEFINE new == EpochOf(now[r])
    <3>1. new \in Epoch /\ currentEpochId < new
      BY <1>1, EpochInRange DEF RotateFinish, Order, IInv, TypeOK
    <3>2. file[new][id] # "live"
      BY <1>1, <2>0, <3>1 DEF FilesInv, IInv, TypeOK, Epoch
    <3>3. id \in Migrated(new, now[r]) => Visible(id)
      BY DEF Migrated, Visible, LiveEpochs
    <3>4. doc \in [Epoch -> Doc]
      BY <1>1 DEF IInv, TypeOK
    <3>5. /\ open' = open \cup {new}
          /\ \A e \in Epoch \ {new} : doc'[e] = doc[e]
          /\ doc'[new][id] = "live" =>
               file[new][id] = "live" \/ id \in Migrated(new, now[r])
      BY <2>0, <3>1, <3>4 DEF RotateFinish
    <3> QED
      BY <1>1, <3>1, <3>2, <3>3, <3>5 DEF Visible, LiveEpochs, IInv, TypeOK
  <2>5. CASE \E r \in Runs, e \in Epoch : DropClose(r, e)
    BY <1>1, <2>5 DEF DropClose, Visible, LiveEpochs, IInv, TypeOK
  <2>6. CASE Stop \/ Crash
    BY <2>6 DEF Stop, Crash, Down, Visible, LiveEpochs
  <2>7. CASE UNCHANGED <<open, doc>>
    BY <2>7 DEF Visible, LiveEpochs
  <2> QED
    BY <2>1, <2>2, <2>3, <2>4, <2>5, <2>6, <2>7
       DEF Next, RunStep, Save, SaveFails, NoRotation, RotateBegin, DropFlush,
           DropRemove, DropEnd, Create, Tick, storeVars
<1>2. IInv /\ FilesInv /\ [Next]_vars => FilesInv'
  BY NextFilesInv, NextTyped DEF IInv
<1>3. IInv /\ FilesInv /\ [Next]_vars => [Step]_vars
  BY <1>1
<1> QED
  BY Invariance, InitFilesInv, <1>2, <1>3, PTL DEF Spec, ForgottenStaysAway

-----------------------------------------------------------------------------
(***************************************************************************)
(* The manager keeps no more epochs open than its retention.               *)
(***************************************************************************)

InWindow(e) == currentEpochId - Retain - 1 <= e

\* Run r is on its way to dropping epoch e.
WillDrop(r, e) ==
    /\ pc[r] = "dropping"
    /\ e \in todo[r]
    /\ e # currentEpochId
    /\ Leaving(e, now[r])

\* When no rotation came in the middle of another run's drop, a single run
\* drops, everything it still has to visit is open, and an epoch out of the
\* window is one of those it will drop.
WindowInv ==
    up /\ ~overtaken =>
        /\ \A e \in open : InWindow(e) \/ \E r \in Runs : WillDrop(r, e)
        /\ \A r, s \in Runs :
             pc[r] = "dropping" /\ pc[s] = "dropping" => r = s
        /\ \A r \in Runs : pc[r] = "dropping" => todo[r] \subseteq open

\* What has not left the window of a time is at most one epoch older than
\* the retained ones.
LEMMA NotLeavingNear ==
  ASSUME NEW t \in Nat, NEW e \in Nat, ~Leaving(e, t)
  PROVE  EpochOf(t) - Retain - 1 <= e
<1> DEFINE p == t \div Dur
           w == e + Retain + 1
<1>1. Dur \in Nat \ {0} /\ Retain \in Nat /\ w \in Nat
  BY ConfigAssumption
<1>2. p \in Nat /\ p * Dur <= t
  BY <1>1, DivProps
<1>3. t <= w * Dur
  <2>1. w * Dur = e * Dur + (Retain + 1) * Dur
    BY <1>1, Z3T(20)
  <2>2. e * Dur \in Int /\ (Retain + 1) * Dur \in Int
    BY <1>1
  <2> QED
    BY <2>1, <2>2 DEF Leaving, StartOf, Cutoff
<1> HIDE DEF p, w
<1>4. ASSUME w < p PROVE FALSE
  <2>1. (w + 1) * Dur <= p * Dur
    BY <1>1, <1>2, <1>4, TimesMono
  <2>2. (w + 1) * Dur = w * Dur + Dur
    BY <1>1, Z3T(20)
  <2>3. p * Dur \in Int /\ w * Dur \in Int
    BY <1>1, <1>2
  <2> QED
    BY <1>1, <1>2, <1>3, <2>1, <2>2, <2>3
<1>5. p <= w
  BY <1>1, <1>2, <1>4
<1> QED
  BY <1>1, <1>2, <1>5 DEF p, w, EpochOf

LEMMA InitWindowInv == Init => WindowInv
<1> SUFFICES ASSUME Init PROVE WindowInv
  OBVIOUS
<1>1. InWindow(0)
  BY ConfigAssumption DEF Init, InWindow
<1> QED
  BY <1>1 DEF Init, WindowInv

\* A step that opens and closes nothing, and neither ends nor starts a drop.
LEMMA WindowFrame ==
  ASSUME WindowInv,
         UNCHANGED <<up, overtaken, currentEpochId, open, todo>>,
         \A r \in Runs : pc'[r] = "dropping" <=> pc[r] = "dropping",
         \A r \in Runs : pc[r] = "dropping" => now'[r] = now[r]
  PROVE  WindowInv'
<1> SUFFICES ASSUME up, ~overtaken PROVE WindowInv'
  BY DEF WindowInv
<1>1. ASSUME NEW r \in Runs, NEW e \in open, WillDrop(r, e)
      PROVE  WillDrop(r, e)'
  BY <1>1 DEF WillDrop, Leaving, Cutoff
<1>2. \A e \in open' : InWindow(e)' \/ \E r \in Runs : WillDrop(r, e)'
  BY <1>1 DEF WindowInv, InWindow
<1> QED
  BY <1>2 DEF WindowInv

\* Every step keeps it, next to IInv.
LEMMA NextWindowInv ==
  ASSUME IInv, TypeOK', WindowInv, [Next]_vars
  PROVE  WindowInv'
<1> USE DEF IInv
<1>1. CASE \/ \E id \in Ids : Put(id) \/ Forget(id)
           \/ \E e \in Epoch : Save(e) \/ SaveFails(e)
           \/ Tick
           \/ UNCHANGED vars
  <2>1. UNCHANGED <<up, overtaken, currentEpochId, open, todo, pc, now>>
    BY <1>1 DEF Put, Forget, Save, SaveFails, Tick, vars, storeVars, runVars,
                ghostVars
  <2> QED
    BY <2>1, WindowFrame
<1>2. CASE \E r \in Runs : RunStart(r) \/ NoRotation(r) \/ RotateBegin(r)
  <2> PICK r \in Runs : RunStart(r) \/ NoRotation(r) \/ RotateBegin(r)
    BY <1>2
  <2>1. /\ UNCHANGED <<up, overtaken, currentEpochId, open, todo>>
        /\ pc[r] # "dropping" /\ pc'[r] # "dropping"
        /\ \A s \in Runs \ {r} : pc'[s] = pc[s] /\ now'[s] = now[s]
    BY DEF RunStart, NoRotation, RotateBegin, storeVars, ghostVars, TypeOK
  <2> QED
    BY <2>1, WindowFrame
<1>3. CASE \E r \in Runs : DropRemove(r) \/ \E e \in Epoch : DropFlush(r, e)
  <2>1. UNCHANGED <<up, overtaken, currentEpochId, open, todo, pc, now>>
    BY <1>3 DEF DropRemove, DropFlush, storeVars, ghostVars
  <2> QED
    BY <2>1, WindowFrame
<1>4. CASE \E r \in Runs : RotateFinish(r)
  <2> PICK r \in Runs : RotateFinish(r)
    BY <1>4
  <2> DEFINE new == EpochOf(now[r])
  <2>1. /\ open' = open \cup {new} /\ currentEpochId' = new
        /\ now' = now
        /\ pc'[r] = "dropping" /\ todo'[r] = open'
        /\ \A s \in Runs \ {r} : pc'[s] = pc[s]
        /\ overtaken' = \E s \in Runs \ {r} : pc[s] = "dropping"
    BY DEF RotateFinish, TypeOK
  <2> SUFFICES ASSUME \A s \in Runs \ {r} : pc'[s] # "dropping"
               PROVE  WindowInv'
    BY <2>1 DEF WindowInv
  <2>2. ASSUME NEW e \in open' PROVE InWindow(e)' \/ WillDrop(r, e)'
    <3>1. now[r] \in Nat /\ e \in Nat /\ new \in Nat
      BY EpochInRange, LastTickNat, <2>1 DEF TypeOK, Epoch
    <3>2. CASE e = new
      <4> HIDE DEF new
      <4>1. Retain \in Nat
        BY ConfigAssumption
      <4> QED
        BY <2>1, <3>1, <3>2, <4>1 DEF InWindow
    <3>3. CASE ~Leaving(e, now[r])
      BY <2>1, <3>1, <3>3, NotLeavingNear DEF InWindow
    <3>4. CASE e # new /\ Leaving(e, now[r])
      BY <2>1, <3>4 DEF WillDrop, Leaving, Cutoff
    <3> QED
      BY <3>2, <3>3, <3>4
  <2> QED
    BY <2>1, <2>2 DEF WindowInv
<1>5. CASE \E r \in Runs, e \in Epoch : DropClose(r, e)
  <2> PICK r \in Runs, e \in Epoch : DropClose(r, e)
    BY <1>5
  <2>1. /\ UNCHANGED <<up, overtaken, currentEpochId, pc, now>>
        /\ open' = open \ {e}
        /\ todo'[r] = todo[r] \ {e}
        /\ \A s \in Runs \ {r} : todo'[s] = todo[s]
        /\ pc[r] = "dropping"
    BY DEF DropClose, MustDrop, ghostVars, TypeOK
  <2> SUFFICES ASSUME up, ~overtaken PROVE WindowInv'
    BY <2>1 DEF WindowInv
  <2>2. /\ \A f \in open : InWindow(f) \/ \E s \in Runs : WillDrop(s, f)
        /\ \A s \in Runs : pc[s] = "dropping" => s = r
        /\ todo[r] \subseteq open
    BY <2>1 DEF WindowInv
  <2>3. ASSUME NEW f \in open', NEW s \in Runs, WillDrop(s, f)
        PROVE  WillDrop(s, f)'
    BY <2>1, <2>2, <2>3 DEF WillDrop, Leaving, Cutoff
  <2>4. \A f \in open' : InWindow(f)' \/ \E s \in Runs : WillDrop(s, f)'
    BY <2>1, <2>2, <2>3 DEF InWindow
  <2> QED
    BY <2>1, <2>2, <2>4 DEF WindowInv
<1>6. CASE \E r \in Runs : DropEnd(r)
  <2> PICK r \in Runs : DropEnd(r)
    BY <1>6
  <2>1. /\ UNCHANGED <<up, overtaken, currentEpochId, open, now>>
        /\ pc[r] = "dropping" /\ closing[r] = NoEpoch
        /\ pc'[r] = "idle" /\ todo'[r] = {}
        /\ \A s \in Runs \ {r} : pc'[s] = pc[s] /\ todo'[s] = todo[s]
        /\ \/ \A e \in todo[r] : ~MustDrop(r, e)
           \/ \E e \in todo[r] \ open : MustDrop(r, e)
    BY DEF DropEnd, storeVars, ghostVars, TypeOK
  <2> SUFFICES ASSUME up, ~overtaken PROVE WindowInv'
    BY <2>1 DEF WindowInv
  <2>2. /\ \A f \in open : InWindow(f) \/ \E s \in Runs : WillDrop(s, f)
        /\ \A s \in Runs : pc[s] = "dropping" => s = r
        /\ todo[r] \subseteq open
    BY <2>1 DEF WindowInv
  <2>3. \A f \in open, s \in Runs : ~WillDrop(s, f)
    BY <2>1, <2>2 DEF WillDrop, MustDrop
  <2>4. \A f \in open' : InWindow(f)'
    BY <2>1, <2>2, <2>3 DEF InWindow
  <2> QED
    BY <2>1, <2>2, <2>4 DEF WindowInv
<1>7. CASE Stop \/ Crash
  BY <1>7 DEF Stop, Crash, Down, WindowInv
<1>8. CASE Create
  <2>1. /\ open' = Window(EpochOf(clock)) /\ currentEpochId' = EpochOf(clock)
        /\ \A s \in Runs : pc'[s] # "dropping"
    BY <1>8 DEF Create, Stopped, runVars
  <2>2. EpochOf(clock) \in Epoch /\ Retain \in Nat
    BY EpochInRange, ConfigAssumption DEF TypeOK
  <2>3. \A e \in open' : InWindow(e)'
    BY <2>1, <2>2 DEF InWindow, Window, Epoch
  <2> QED
    BY <2>1, <2>3 DEF WindowInv
<1> QED
  BY <1>1, <1>2, <1>3, <1>4, <1>5, <1>6, <1>7, <1>8 DEF Next, RunStep

\* A manager that is not dropping epochs has none open but the retained ones
\* and the one that left the window at that tick, whatever the retention and
\* the epoch length: what a run has to drop it does drop, or another run's
\* rotation came in between.
THEOREM WindowHolds ==
  ASSUME NoStaleRun
  PROVE  Spec => []WindowBounded
<1>1. ASSUME IInv, WindowInv PROVE WindowBounded
  <2> SUFFICES ASSUME up, ~overtaken, \A r \in Runs : pc[r] # "dropping",
                      NEW e \in open
               PROVE  e <= currentEpochId /\ InWindow(e)
    BY DEF WindowBounded, InWindow
  <2> QED
    BY <1>1 DEF WindowInv, WillDrop, IInv, Order
<1>2. IInv /\ WindowInv /\ [Next]_vars => WindowInv'
  BY NextWindowInv, NextTyped DEF IInv
<1>3. IInv /\ WindowInv => WindowBounded
  BY <1>1
<1> QED
  BY Invariance, InitWindowInv, <1>2, <1>3, PTL DEF Spec

=============================================================================
