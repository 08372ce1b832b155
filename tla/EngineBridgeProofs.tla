------------------------- MODULE EngineBridgeProofs -------------------------
(***************************************************************************)
(* What the bridge keeps of its callers, its engines and their topics, for *)
(* any number of callers, processes and crashes.                           *)
(***************************************************************************)
EXTENDS EngineBridge, SequenceTheorems, TLAPS

\* Whether the caller behind a call is waiting for it.
Waits(id) ==
    CASE id.what = "open" -> join[id.by] = "opening"
      [] id.what = "join" -> join[id.by] = "joining"
      [] OTHER            -> leaving = "calling"

\* Each start() that waits listens once.
Listening ==
    /\ \A j \in Joins : join[j] = "starting" <=> \E i \in DOMAIN waiters : waiters[i] = j
    /\ \A i, k \in DOMAIN waiters : waiters[i] = waiters[k] => i = k

\* The strengthening of BridgeAgrees: while it has a process, its exit was not
\* handled, whether or not the bridge says that it runs.
BridgeInv ==
    /\ TypeOK
    /\ \A id \in Id : id \in pending <=> Waits(id)
    /\ Listening
    /\ proc # NoProc => life[proc] # "reaped"

-----------------------------------------------------------------------------
(***************************************************************************)
(* Lemmas.                                                                 *)
(***************************************************************************)

\* The calls are told apart by who makes them and what they ask for.
LEMMA Ids ==
    /\ \A j \in Joins : OpenCall(j) \in Id /\ JoinCall(j) \in Id
    /\ StopCall \in Id
    /\ \A id \in Id : \/ id.by \in Joins /\ id \in {OpenCall(id.by), JoinCall(id.by)}
                      \/ id = StopCall
BY DEF Id, OpenCall, JoinCall, StopCall

LEMMA AwaitedWaits == TypeOK => \A id \in Id : id \in Awaited <=> Waits(id)
<1> SUFFICES ASSUME TypeOK, NEW id \in Id PROVE id \in Awaited <=> Waits(id)
  OBVIOUS
<1>1. CASE id = StopCall
  BY <1>1 DEF Awaited, Waits, StopCall, OpenCall, JoinCall
<1>2. ASSUME NEW j \in Joins, id = OpenCall(j) PROVE id \in Awaited <=> Waits(id)
  BY <1>2 DEF Awaited, Waits, StopCall, OpenCall, JoinCall
<1>3. ASSUME NEW j \in Joins, id = JoinCall(j) PROVE id \in Awaited <=> Waits(id)
  BY <1>3 DEF Awaited, Waits, StopCall, OpenCall, JoinCall
<1> QED
  BY <1>1, <1>2, <1>3, Ids

\* What a call does to the map and to the pipe.
LEMMA CallKeeps ==
  ASSUME TypeOK, NEW calls \in Seq(Id), Call(calls)
  PROVE  /\ pending' \subseteq Id
         /\ stdin' \in [Procs -> Seq(Id)]
         /\ \A id \in Id : id \in pending' <=>
              id \in pending \/ (proc # NoProc /\ \E i \in DOMAIN calls : calls[i] = id)
<1>1. CASE proc = NoProc
  BY <1>1 DEF Call, TypeOK
<1>2. CASE proc # NoProc
  <2>1. pending' = pending \cup Range(calls) /\ stdin' = [stdin EXCEPT ![proc] = @ \o calls]
    BY <1>2 DEF Call
  <2>2. Range(calls) = {calls[i] : i \in DOMAIN calls}
    BY DEF Range
  <2>3. proc \in Procs /\ stdin[proc] \in Seq(Id)
    BY <1>2 DEF TypeOK
  <2>4. stdin[proc] \o calls \in Seq(Id)
    BY <2>3
  <2>5. \A i \in DOMAIN calls : calls[i] \in Id
    OBVIOUS
  <2> QED
    BY <1>2, <2>1, <2>2, <2>3, <2>4, <2>5 DEF TypeOK
<1> QED
  BY <1>1, <1>2

\* Taking one out of a sequence without repetitions.
LEMMA RemoveOne ==
  ASSUME NEW S, NEW s \in Seq(S), NEW i \in DOMAIN s,
         \A k, l \in DOMAIN s : s[k] = s[l] => k = l
  PROVE  /\ RemoveAt(s, i) \in Seq(S)
         /\ \A k, l \in DOMAIN RemoveAt(s, i) :
              RemoveAt(s, i)[k] = RemoveAt(s, i)[l] => k = l
         /\ \A x \in S : (\E k \in DOMAIN RemoveAt(s, i) : RemoveAt(s, i)[k] = x)
                           <=> x # s[i] /\ \E k \in DOMAIN s : s[k] = x
<1> DEFINE t == RemoveAt(s, i)
<1>1. /\ t \in Seq(S)
      /\ DOMAIN t = 1 .. Len(s) - 1
      /\ \A k \in 1 .. Len(s) - 1 : t[k] = IF k < i THEN s[k] ELSE s[k + 1]
  <2> DEFINE before == SubSeq(s, 1, i - 1)
             after  == SubSeq(s, i + 1, Len(s))
  <2>1. /\ Len(s) \in Nat /\ i \in 1 .. Len(s) /\ i \in Int
        /\ \A k \in 1 .. Len(s) : s[k] \in S
    OBVIOUS
  <2>2. /\ before \in Seq(S) /\ Len(before) = i - 1
        /\ \A k \in 1 .. i - 1 : before[k] = s[k]
    <3>1. \A k \in 1 .. i - 1 : s[k] \in S
      BY <2>1
    <3>2. /\ before \in Seq(S)
          /\ Len(before) = IF 1 <= i - 1 THEN i - 1 - 1 + 1 ELSE 0
          /\ \A k \in 1 .. i - 1 - 1 + 1 : before[k] = s[1 + k - 1]
      BY <2>1, <3>1, SubSeqProperties
    <3> HIDE DEF before
    <3> QED
      BY <2>1, <3>2
  <2>3. /\ after \in Seq(S) /\ Len(after) = Len(s) - i
        /\ \A k \in 1 .. Len(s) - i : after[k] = s[i + k]
    <3>1. \A k \in i + 1 .. Len(s) : s[k] \in S
      BY <2>1
    <3>2. /\ after \in Seq(S)
          /\ Len(after) = IF i + 1 <= Len(s) THEN Len(s) - (i + 1) + 1 ELSE 0
          /\ \A k \in 1 .. Len(s) - (i + 1) + 1 : after[k] = s[i + 1 + k - 1]
      BY <2>1, <3>1, SubSeqProperties
    <3> HIDE DEF after
    <3> QED
      BY <2>1, <3>2
  <2>4. t = before \o after
    BY DEF RemoveAt
  <2> HIDE DEF before, after, t
  <2>5. /\ t \in Seq(S)
        /\ Len(t) = Len(before) + Len(after)
        /\ \A k \in 1 .. Len(before) + Len(after) :
             t[k] = IF k <= Len(before) THEN before[k] ELSE after[k - Len(before)]
    <3>1. /\ before \o after \in Seq(S)
          /\ Len(before \o after) = Len(before) + Len(after)
          /\ \A k \in 1 .. Len(before) + Len(after) : (before \o after)[k] =
               IF k <= Len(before) THEN before[k] ELSE after[k - Len(before)]
      <4>1. before \in Seq(S) /\ after \in Seq(S)
        BY <2>2, <2>3
      <4> QED
        BY <4>1, ConcatProperties
    <3> QED
      BY <2>4, <3>1, Zenon
  <2>6. ASSUME NEW k \in 1 .. Len(s) - 1
        PROVE  t[k] = IF k < i THEN s[k] ELSE s[k + 1]
    <3>1. CASE k < i
      <4>1. k \in 1 .. i - 1 /\ k <= Len(before) /\ k \in 1 .. Len(before) + Len(after)
        BY <2>1, <2>2, <2>3, <3>1
      <4> QED
        BY <2>2, <2>5, <3>1, <4>1
    <3>2. CASE k >= i
      <4>1. k - (i - 1) \in 1 .. Len(s) - i /\ i + (k - (i - 1)) = k + 1
        BY <2>1, <3>2
      <4>2. /\ k \in 1 .. Len(before) + Len(after)
            /\ ~(k <= Len(before)) /\ ~(k < i)
        BY <2>1, <2>2, <2>3, <3>2, SMTT(30)
      <4>3. t[k] = after[k - Len(before)] /\ k - Len(before) = k - (i - 1)
        BY <2>2, <2>5, <4>2
      <4> QED
        BY <2>3, <4>1, <4>2, <4>3
    <3> QED
      BY <2>1, <3>1, <3>2
  <2> QED
    BY <2>1, <2>2, <2>3, <2>5, <2>6
<1>2. DOMAIN s = 1 .. Len(s) /\ Len(s) \in Nat
  OBVIOUS
<1> HIDE DEF t
<1>3. \A k, l \in DOMAIN t : t[k] = t[l] => k = l
  BY <1>1, <1>2
<1>4. ASSUME NEW k \in DOMAIN s, k # i PROVE \E l \in DOMAIN t : t[l] = s[k]
  <2>1. CASE k < i
    BY <1>1, <1>2, <2>1
  <2>2. CASE k > i
    <3>1. k - 1 \in DOMAIN t /\ t[k - 1] = s[k]
      BY <1>1, <1>2, <2>2
    <3> QED
      BY <3>1
  <2> QED
    BY <1>2, <1>4, <2>1, <2>2
<1>5. ASSUME NEW l \in DOMAIN t PROVE \E k \in DOMAIN s : k # i /\ s[k] = t[l]
  BY <1>1, <1>2, SMTT(30)
<1>6. ASSUME NEW x \in S, NEW l \in DOMAIN t, t[l] = x
      PROVE  x # s[i] /\ \E k \in DOMAIN s : s[k] = x
  <2>1. PICK k \in DOMAIN s : k # i /\ s[k] = x
    BY <1>5, <1>6
  <2> QED
    BY <2>1
<1>7. ASSUME NEW x \in S, x # s[i], NEW k \in DOMAIN s, s[k] = x
      PROVE  \E l \in DOMAIN t : t[l] = x
  BY <1>4, <1>7
<1>8. \A x \in S : (\E l \in DOMAIN t : t[l] = x) <=> x # s[i] /\ \E k \in DOMAIN s : s[k] = x
  BY <1>6, <1>7
<1>9. t \in Seq(S)
  BY <1>1
<1> QED
  BY <1>3, <1>8, <1>9 DEF t

-----------------------------------------------------------------------------
(***************************************************************************)
(* The steps.                                                              *)
(***************************************************************************)

LEMMA InitBridge == Init => BridgeInv
<1> SUFFICES ASSUME Init PROVE BridgeInv
  OBVIOUS
<1>1. TypeOK
  <2>1. <<>> \in Seq(Joins) /\ <<>> \in Seq(Id) /\ <<>> \in Seq(Line)
    OBVIOUS
  <2>2. 0 \in 0 .. MaxProcs /\ 0 \in 0 .. MaxCrashes
    BY BridgeAssumption
  <2> QED
    BY <2>1, <2>2 DEF Init, TypeOK
<1>2. \A id \in Id : ~Waits(id)
  BY Ids DEF Init, Waits, OpenCall, JoinCall, StopCall
<1> QED
  BY <1>1, <1>2 DEF Init, BridgeInv, Listening

\* A call is settled: whoever waits for it goes on, and nobody else.
Settles(id, ok) ==
    /\ pending' = pending \ {id}
    /\ IF id = StopCall /\ StopCall \in pending
       THEN Stopped
       ELSE UNCHANGED <<signalled, proc, started, leaving>>
    /\ join' = [j \in Joins |->
                    IF id.by = j /\ id \in pending THEN JoinAfter(id, ok) ELSE join[j]]
    /\ UNCHANGED <<waiters, spawned, life, crashes>>

LEMMA SettlesKeeps ==
  ASSUME BridgeInv, NEW id \in Id, NEW ok \in BOOLEAN, Settles(id, ok),
         stdin' \in [Procs -> Seq(Id)], stdout' \in [Procs -> Seq(Line)],
         UNCHANGED engineVars
  PROVE  BridgeInv'
<1> USE DEF BridgeInv
<1>1. \A j \in Joins : JoinAfter(id, ok) \in {"joined", "loading", "failed"}
  BY DEF JoinAfter
<1>2. /\ proc' \in {proc, NoProc} /\ started' \in BOOLEAN
      /\ signalled' \in [Procs -> BOOLEAN] /\ leaving' \in {leaving, "done"}
      /\ leaving' = leaving \/ id = StopCall
      /\ id = StopCall /\ StopCall \in pending => leaving' = "done"
  BY DEF Settles, Stopped, TypeOK
<1>3. TypeOK'
  BY <1>1, <1>2 DEF Settles, TypeOK, engineVars
<1>4. ASSUME NEW c \in Id PROVE c \in pending' <=> Waits(c)'
  <2>1. CASE c = StopCall
    BY <1>2, <2>1 DEF Settles, Waits, StopCall
  <2>2. ASSUME NEW j \in Joins, c \in {OpenCall(j), JoinCall(j)}
        PROVE  c \in pending' <=> Waits(c)'
    <3>1. c.by = j /\ c.what \in {"open", "join"}
      BY <2>2 DEF OpenCall, JoinCall
    <3>2. join'[j] = IF id.by = j /\ id \in pending THEN JoinAfter(id, ok) ELSE join[j]
      BY DEF Settles
    <3>3. CASE id.by = j /\ id \in pending
      <4>1. Waits(id) /\ id.what \in {"open", "join"}
        BY <3>3, Ids, BridgeAssumption DEF OpenCall, JoinCall, StopCall
      <4>2. c \in pending => c = id
        BY <2>2, <3>1, <3>3, <4>1, Ids DEF Waits, OpenCall, JoinCall, StopCall
      <4> QED
        BY <1>1, <3>1, <3>2, <3>3, <4>2 DEF Settles, Waits
    <3>4. CASE ~(id.by = j /\ id \in pending)
      BY <3>1, <3>2, <3>4 DEF Settles, Waits
    <3> QED
      BY <3>3, <3>4
  <2> QED
    BY <2>1, <2>2, Ids
<1>5. Listening'
  <2>1. ASSUME NEW j \in Joins PROVE join'[j] = "starting" <=> join[j] = "starting"
    <3>1. CASE id.by = j /\ id \in pending
      <4>1. join[j] \in {"opening", "joining"}
        BY <3>1, Ids, BridgeAssumption DEF Waits, OpenCall, JoinCall, StopCall
      <4> QED
        BY <1>1, <3>1, <4>1 DEF Settles
    <3>2. CASE ~(id.by = j /\ id \in pending)
      BY <3>2 DEF Settles
    <3> QED
      BY <3>1, <3>2
  <2> QED
    BY <2>1 DEF Settles, Listening
<1> QED
  BY <1>2, <1>3, <1>4, <1>5 DEF Settles

\* Every step keeps the invariant.
LEMMA BridgeStep == BridgeInv /\ [Next]_vars => BridgeInv'
<1> SUFFICES ASSUME BridgeInv, [Next]_vars PROVE BridgeInv'
  OBVIOUS
<1> USE DEF BridgeInv
<1>s. \A w \in Seq(Joins) : /\ DOMAIN w = 1 .. Len(w) /\ Len(w) \in Nat
                            /\ \A i \in DOMAIN w : w[i] \in Joins
  OBVIOUS
<1>1. ASSUME NEW j \in Joins, JoinRunning(j) \/ JoinStuck(j) PROVE BridgeInv'
  <2>1. /\ join' = [join EXCEPT ![j] = join'[j]] /\ join'[j] \in {"loading", "failed"}
        /\ join[j] = "idle"
        /\ UNCHANGED <<bridgeVars, leaving, procVars, pipeVars, engineVars>>
    BY <1>1 DEF JoinRunning, JoinStuck, TypeOK
  <2>2. TypeOK'
    BY <2>1 DEF TypeOK, bridgeVars, procVars, pipeVars, engineVars
  <2>3. \A id \in Id : Waits(id)' <=> Waits(id)
    BY <2>1, Ids DEF Waits, TypeOK, OpenCall, JoinCall, StopCall
  <2>4. Listening'
    BY <2>1 DEF Listening, TypeOK, bridgeVars
  <2> QED
    BY <2>1, <2>2, <2>3, <2>4 DEF bridgeVars, procVars
<1>2. ASSUME NEW j \in Joins, JoinSpawns(j) PROVE BridgeInv'
  <2>1. spawned + 1 \in Procs
    BY <1>2, BridgeAssumption DEF JoinSpawns, TypeOK, Procs
  <2>2. TypeOK'
    BY <1>2, <2>1, BridgeAssumption DEF JoinSpawns, TypeOK, Procs, pipeVars, engineVars
  <2>3. \A id \in Id : Waits(id)' <=> Waits(id)
    BY <1>2, Ids DEF JoinSpawns, Waits, TypeOK, OpenCall, JoinCall, StopCall
  <2>4. Listening'
    <3>1. /\ waiters \in Seq(Joins) /\ waiters' = Append(waiters, j)
          /\ DOMAIN waiters' = 1 .. Len(waiters) + 1 /\ waiters'[Len(waiters) + 1] = j
          /\ \A i \in 1 .. Len(waiters) : waiters'[i] = waiters[i]
      BY <1>2 DEF JoinSpawns, TypeOK
    <3>2. join'[j] = "starting" /\ \A k \in Joins \ {j} : join'[k] = join[k]
      BY <1>2 DEF JoinSpawns, TypeOK
    <3>3. \A i \in DOMAIN waiters : waiters[i] # j
      BY <1>2 DEF JoinSpawns, Listening
    <3> QED
      BY <1>s, <3>1, <3>2, <3>3, SMTT(30) DEF Listening
  <2> QED
    BY <1>2, <2>1, <2>2, <2>3, <2>4 DEF JoinSpawns, TypeOK
<1>3. ASSUME NEW j \in Joins, Loaded(j) PROVE BridgeInv'
  <2>1. /\ <<JoinCall(j)>> \in Seq(Id)
        /\ \A id \in Id : (\E i \in DOMAIN <<JoinCall(j)>> : <<JoinCall(j)>>[i] = id)
                            <=> id = JoinCall(j)
    BY Ids
  <2>2. /\ pending' \subseteq Id
        /\ stdin' \in [Procs -> Seq(Id)]
        /\ \A id \in Id : id \in pending' <=>
              id \in pending \/ (proc # NoProc /\ id = JoinCall(j))
    BY <1>3, <2>1, CallKeeps DEF Loaded
  <2>3. /\ join[j] = "loading"
        /\ join' = [join EXCEPT ![j] = IF proc = NoProc THEN "joined" ELSE "joining"]
        /\ UNCHANGED <<proc, started, waiters, leaving, procVars, stdout, engineVars>>
    BY <1>3 DEF Loaded
  <2>4. TypeOK'
    BY <2>2, <2>3 DEF TypeOK, procVars, engineVars
  <2>5. \A id \in Id : id \in pending' <=> Waits(id)'
    BY <2>2, <2>3, Ids DEF Waits, TypeOK, OpenCall, JoinCall, StopCall
  <2>6. Listening'
    BY <2>3 DEF Listening, TypeOK
  <2> QED
    BY <2>3, <2>4, <2>5, <2>6 DEF procVars
<1>4. ASSUME NEW j \in Joins, Timeout(j) PROVE BridgeInv'
  <2>1. PICK i \in DOMAIN waiters : waiters[i] = j /\ waiters' = RemoveAt(waiters, i)
    BY <1>4 DEF Timeout
  <2>2. waiters \in Seq(Joins) /\ \A k, l \in DOMAIN waiters : waiters[k] = waiters[l] => k = l
    BY DEF TypeOK, Listening
  <2>3. /\ waiters' \in Seq(Joins)
        /\ \A k, l \in DOMAIN waiters' : waiters'[k] = waiters'[l] => k = l
        /\ \A x \in Joins : (\E k \in DOMAIN waiters' : waiters'[k] = x)
                              <=> x # j /\ \E k \in DOMAIN waiters : waiters[k] = x
    BY <2>1, <2>2, RemoveOne
  <2>4. /\ join[j] = "starting" /\ join' = [join EXCEPT ![j] = "failed"]
        /\ UNCHANGED <<proc, started, pending, leaving, procVars, pipeVars, engineVars>>
    BY <1>4 DEF Timeout
  <2>5. TypeOK'
    BY <2>3, <2>4 DEF TypeOK, procVars, pipeVars, engineVars
  <2>6. \A id \in Id : Waits(id)' <=> Waits(id)
    BY <2>4, Ids DEF Waits, TypeOK, OpenCall, JoinCall, StopCall
  <2>7. Listening'
    BY <2>3, <2>4 DEF Listening, TypeOK
  <2> QED
    BY <2>4, <2>5, <2>6, <2>7 DEF procVars
<1>5. CASE Leave
  <2>1. /\ <<StopCall>> \in Seq(Id)
        /\ \A id \in Id : (\E i \in DOMAIN <<StopCall>> : <<StopCall>>[i] = id)
                            <=> id = StopCall
    BY Ids
  <2>2. /\ pending' \subseteq Id
        /\ stdin' \in [Procs -> Seq(Id)]
        /\ \A id \in Id : id \in pending' <=>
              id \in pending \/ (proc # NoProc /\ id = StopCall)
    BY <1>5, <2>1, CallKeeps DEF Leave
  <2>3. /\ leaving = "no"
        /\ leaving' = IF proc = NoProc THEN "done" ELSE "calling"
        /\ UNCHANGED <<proc, started, waiters, join, procVars, stdout, engineVars>>
    BY <1>5 DEF Leave
  <2>4. TypeOK'
    BY <2>2, <2>3 DEF TypeOK, procVars, engineVars
  <2>5. \A id \in Id : id \in pending' <=> Waits(id)'
    BY <2>2, <2>3, Ids DEF Waits, TypeOK, OpenCall, JoinCall, StopCall
  <2>6. Listening'
    BY <2>3 DEF Listening
  <2> QED
    BY <2>3, <2>4, <2>5, <2>6 DEF procVars
<1>6. ASSUME NEW p \in Procs, HearReady(p) PROVE BridgeInv'
  <2> DEFINE calls == [i \in DOMAIN waiters |-> OpenCall(waiters[i])]
  <2>1. calls \in Seq(Id)
    <3>1. \A i \in DOMAIN waiters : OpenCall(waiters[i]) \in Id
      BY <1>s, Ids DEF TypeOK
    <3>2. calls \in [1 .. Len(waiters) -> Id] /\ Len(waiters) \in Nat
      BY <1>s, <3>1 DEF TypeOK
    <3> QED
      BY <3>2, SeqDef
  <2>2. \A id \in Id : (\E i \in DOMAIN calls : calls[i] = id)
                         <=> \E j \in Joins : join[j] = "starting" /\ id = OpenCall(j)
    BY <1>s DEF Listening, TypeOK
  <2>3. Call(calls)
    BY <1>6 DEF HearReady
  <2> HIDE DEF calls
  <2>4. /\ pending' \subseteq Id
        /\ stdin' \in [Procs -> Seq(Id)]
        /\ \A id \in Id : id \in pending' <=>
              \/ id \in pending
              \/ proc # NoProc /\ \E j \in Joins : join[j] = "starting" /\ id = OpenCall(j)
    BY <2>1, <2>2, <2>3, CallKeeps
  <2>5. /\ waiters' = <<>> /\ started' \in BOOLEAN
        /\ join' = [j \in Joins |->
                        IF join[j] # "starting" THEN join[j]
                        ELSE IF proc = NoProc THEN "failed" ELSE "opening"]
        /\ UNCHANGED <<proc, leaving, procVars, engineVars>>
    BY <1>6 DEF HearReady, TypeOK
  <2>6. stdout' \in [Procs -> Seq(Line)]
    BY <1>6 DEF HearReady, TypeOK
  <2>7. TypeOK'
    BY <2>4, <2>5, <2>6 DEF TypeOK, procVars, engineVars
  <2>8. \A id \in Id : id \in pending' <=> Waits(id)'
    BY <2>4, <2>5, Ids DEF Waits, TypeOK, OpenCall, JoinCall, StopCall
  <2>9. Listening'
    BY <2>5 DEF Listening, TypeOK
  <2> QED
    BY <2>5, <2>7, <2>8, <2>9 DEF procVars
<1>7. ASSUME NEW p \in Procs, HearAnswer(p) PROVE BridgeInv'
  <2>1. stdout[p] \in Seq(Line) /\ stdout[p] # <<>> /\ Head(stdout[p]).kind = "answer"
    BY <1>7 DEF HearAnswer, TypeOK
  <2>2. Head(stdout[p]) \in [kind : {"answer"}, id : Id, ok : BOOLEAN]
    BY <2>1 DEF Line
  <2>3. Settles(Head(stdout[p]).id, Head(stdout[p]).ok) /\ UNCHANGED <<stdin, engineVars>>
    BY <1>7 DEF HearAnswer, Settles
  <2>4. stdout' \in [Procs -> Seq(Line)]
    BY <1>7 DEF HearAnswer, TypeOK
  <2> QED
    BY <2>2, <2>3, <2>4, SettlesKeeps DEF TypeOK
<1>8. ASSUME NEW p \in Procs, WriteFails(p) PROVE BridgeInv'
  <2>1. stdin[p] \in Seq(Id) /\ stdin[p] # <<>>
    BY <1>8 DEF WriteFails, TypeOK
  <2>2. Head(stdin[p]) \in Id
    BY <2>1
  <2>3. Settles(Head(stdin[p]), FALSE) /\ UNCHANGED <<stdout, engineVars>>
    BY <1>8 DEF WriteFails, Settles
  <2>4. stdin' \in [Procs -> Seq(Id)]
    BY <1>8 DEF WriteFails, TypeOK
  <2> QED
    BY <2>2, <2>3, <2>4, SettlesKeeps DEF TypeOK
<1>9. ASSUME NEW p \in Procs, HearExit(p) PROVE BridgeInv'
  <2>1. TypeOK'
    BY <1>9 DEF HearExit, TypeOK, JoinAfter, pipeVars, engineVars
  <2>2. \A j \in Joins : /\ OpenCall(j) \in pending <=> join[j] = "opening"
                         /\ JoinCall(j) \in pending <=> join[j] = "joining"
    BY Ids DEF Waits, OpenCall, JoinCall
  <2>3. StopCall \in pending <=> leaving = "calling"
    BY Ids DEF Waits, StopCall
  <2>4. \A j \in Joins : /\ join'[j] \notin {"opening", "joining"}
                         /\ join'[j] = "starting" <=> join[j] = "starting"
    BY <1>9, <2>2 DEF HearExit, JoinAfter, OpenCall, JoinCall
  <2>5. \A id \in Id : ~Waits(id)'
    <3>1. leaving' # "calling"
      BY <1>9, <2>3 DEF HearExit
    <3> QED
      BY <2>4, <3>1, Ids DEF Waits, OpenCall, JoinCall, StopCall
  <2>6. Listening'
    BY <1>9, <2>4 DEF HearExit, Listening
  <2> QED
    BY <1>9, <2>1, <2>5, <2>6 DEF HearExit
<1>10. ASSUME NEW p \in Procs, Boot(p) \/ Handle(p) \/ Terminate(p) \/ Crash(p)
       PROVE  BridgeInv'
  <2>1. UNCHANGED <<bridgeVars, clientVars>>
    BY <1>10 DEF Boot, Handle, Terminate, Crash, Ends
  <2>2. \A q \in Procs : life'[q] = "reaped" => life[q] = "reaped"
    BY <1>10 DEF Boot, Handle, Terminate, Crash, Ends, procVars, TypeOK
  <2>3. TypeOK'
    <3>1. CASE Boot(p)
      BY <2>1, <3>1 DEF Boot, TypeOK, bridgeVars, clientVars, engineVars, Line
    <3>2. CASE Handle(p)
      <4>1. Head(stdin[p]) \in Id /\ stdin' \in [Procs -> Seq(Id)]
        BY <3>2 DEF Handle, TypeOK
      <4>2. [kind |-> "answer", id |-> Head(stdin[p]),
             ok |-> Head(stdin[p]).what = "join" => open[p]] \in Line
        BY <4>1 DEF Line, TypeOK
      <4>3. stdout' \in [Procs -> Seq(Line)]
        BY <3>2, <4>2 DEF Handle, TypeOK
      <4>4. open' \in [Procs -> BOOLEAN]
        BY <3>2 DEF Handle, TypeOK
      <4>5. topics' \in [Procs -> SUBSET Joins]
        <5>1. Head(stdin[p]).what = "join" => Head(stdin[p]).by \in Joins
          BY <4>1, Ids DEF OpenCall, JoinCall, StopCall
        <5> QED
          BY <3>2, <5>1 DEF Handle, TypeOK
      <4> QED
        BY <2>1, <3>2, <4>1, <4>3, <4>4, <4>5
           DEF Handle, TypeOK, bridgeVars, clientVars, procVars
    <3>3. CASE Terminate(p) \/ Crash(p)
      <4>1. crashes' \in 0 .. MaxCrashes
        BY <3>3, BridgeAssumption DEF Terminate, Crash, TypeOK
      <4>2. stdin' \in [Procs -> Seq(Id)] /\ life' \in [Procs ->
                {"none", "booting", "serving", "dead", "reaped"}]
        <5>1. <<>> \in Seq(Id)
          OBVIOUS
        <5>2. stdin' = [stdin EXCEPT ![p] = <<>>] /\ stdin \in [Procs -> Seq(Id)]
          BY <3>3 DEF Terminate, Crash, Ends, TypeOK
        <5>3. life' = [life EXCEPT ![p] = "dead"]
          BY <3>3 DEF Terminate, Crash, Ends
        <5> QED
          BY <5>1, <5>2, <5>3 DEF TypeOK
      <4>3. open' \in [Procs -> BOOLEAN] /\ topics' \in [Procs -> SUBSET Joins]
        BY <3>3 DEF Terminate, Crash, Ends, TypeOK
      <4> QED
        BY <2>1, <3>3, <4>1, <4>2, <4>3
           DEF Terminate, Crash, Ends, TypeOK, bridgeVars, clientVars
    <3> QED
      BY <1>10, <3>1, <3>2, <3>3
  <2>4. \A id \in Id : Waits(id)' <=> Waits(id)
    BY <2>1 DEF Waits, clientVars
  <2>5. Listening'
    BY <2>1 DEF Listening, bridgeVars, clientVars
  <2> QED
    BY <2>1, <2>2, <2>3, <2>4, <2>5 DEF bridgeVars, TypeOK
<1>11. CASE UNCHANGED vars
  <2>1. UNCHANGED <<bridgeVars, clientVars>>
    BY <1>11 DEF vars
  <2>2. TypeOK'
    BY <1>11 DEF TypeOK, vars, bridgeVars, clientVars, procVars, pipeVars, engineVars
  <2>3. \A id \in Id : Waits(id)' <=> Waits(id)
    BY <2>1 DEF Waits, clientVars
  <2>4. Listening'
    BY <2>1 DEF Listening, bridgeVars, clientVars
  <2> QED
    BY <1>11, <2>1, <2>2, <2>3, <2>4 DEF vars, bridgeVars, procVars
<1> QED
  BY <1>1, <1>2, <1>3, <1>4, <1>5, <1>6, <1>7, <1>8, <1>9, <1>10, <1>11 DEF Next

-----------------------------------------------------------------------------

\* The pending map of the bridge is exactly the callers that wait, and a bridge
\* that says it runs has a process whose exit it was not told, for any number of
\* callers, processes, crashes and time-outs.
THEOREM BridgeKeepsItsWord == Spec => []BridgeAgrees
<1>1. BridgeInv => BridgeAgrees
  <2> SUFFICES ASSUME BridgeInv PROVE BridgeAgrees
    OBVIOUS
  <2>1. pending \subseteq Id /\ Awaited \subseteq Id
    BY Ids DEF BridgeInv, TypeOK, Awaited
  <2>2. pending = Awaited
    BY <2>1, AwaitedWaits DEF BridgeInv
  <2> QED
    BY <2>2 DEF BridgeInv, BridgeAgrees, PendingIsAwaited, RunningWasNotReaped, IsRunning
<1> QED
  BY InitBridge, BridgeStep, <1>1, PTL DEF Spec

-----------------------------------------------------------------------------
(***************************************************************************)
(* One start(), one engine.                                                *)
(***************************************************************************)

\* Processes are spawned one after the other, and the bridge's is one of them.
SpawnInv ==
    /\ \A p \in Procs : life[p] = "none" <=> p > spawned
    /\ proc <= spawned
    /\ OneStartOneEngine

LEMMA SpawnStep == TypeOK /\ SpawnInv /\ [Next]_vars => SpawnInv'
<1> SUFFICES ASSUME TypeOK, SpawnInv, [Next]_vars PROVE SpawnInv'
  OBVIOUS
<1>b. /\ spawned \in Nat /\ proc \in Nat /\ MaxProcs \in Nat
      /\ \A p \in Procs : p \in Nat /\ p >= 1
  BY BridgeAssumption DEF TypeOK, Procs, NoProc
<1>1. ASSUME NEW j \in Joins, JoinSpawns(j) PROVE SpawnInv'
  <2>1. /\ spawned' = spawned + 1 /\ proc' = spawned + 1 /\ signalled' = signalled
        /\ life' = [life EXCEPT ![spawned + 1] = "booting"] /\ spawned + 1 \in Procs
    BY <1>1, <1>b DEF JoinSpawns, Procs
  <2>2. life'[spawned + 1] = "booting" /\ \A p \in Procs : p # spawned + 1 => life'[p] = life[p]
    BY <2>1 DEF TypeOK
  <2>3. \A p \in Procs : life'[p] = "none" <=> p > spawned + 1
    BY <1>b, <2>1, <2>2 DEF SpawnInv
  <2>4. OneStartOneEngine'
    <3> SUFFICES ASSUME spawned + 1 <= 1, NEW p \in Procs, Alive(p)' PROVE p = spawned + 1
      BY <2>1 DEF OneStartOneEngine, OneEngine
    <3>1. ~(p > spawned + 1)
      BY <2>3 DEF Alive
    <3> QED
      BY <1>b, <3>1
  <2> QED
    BY <1>b, <2>1, <2>3, <2>4 DEF SpawnInv
<1>2. ASSUME NEW p \in Procs, HearAnswer(p) \/ WriteFails(p) PROVE SpawnInv'
  <2>1. /\ spawned' = spawned /\ life' = life
        /\ Stopped \/ UNCHANGED <<signalled, proc>>
    BY <1>2 DEF HearAnswer, WriteFails
  <2>2. CASE Stopped
    BY <1>b, <2>1, <2>2 DEF Stopped, SpawnInv, OneStartOneEngine, OneEngine, Alive, TypeOK, NoProc
  <2>3. CASE UNCHANGED <<signalled, proc>>
    BY <2>1, <2>3 DEF SpawnInv, OneStartOneEngine, OneEngine, Alive
  <2> QED
    BY <2>1, <2>2, <2>3
<1>3. ASSUME NEW p \in Procs, HearExit(p) PROVE SpawnInv'
  <2>1. /\ life[p] = "dead" /\ life' = [life EXCEPT ![p] = "reaped"] /\ proc' = NoProc
        /\ UNCHANGED <<spawned, signalled>>
    BY <1>3 DEF HearExit
  <2>2. \A q \in Procs : /\ life'[q] = "none" <=> life[q] = "none"
                         /\ Alive(q)' => q # p /\ Alive(q)
    BY <2>1 DEF TypeOK, Alive
  <2>3. OneStartOneEngine'
    <3> SUFFICES ASSUME spawned <= 1, NEW q \in Procs, Alive(q)' PROVE FALSE
      BY <2>1 DEF OneStartOneEngine, OneEngine
    <3>1. ~(q > spawned) /\ ~(p > spawned) /\ q # p
      BY <2>1, <2>2 DEF SpawnInv, Alive
    <3> QED
      BY <1>b, <3>1
  <2> QED
    BY <1>b, <2>1, <2>2, <2>3 DEF SpawnInv, NoProc
<1>4. ASSUME NEW p \in Procs, Boot(p) \/ Terminate(p) \/ Crash(p) PROVE SpawnInv'
  <2>1. /\ Alive(p) /\ \E l \in {"serving", "dead"} : life' = [life EXCEPT ![p] = l]
        /\ UNCHANGED <<spawned, signalled, proc>>
    BY <1>4 DEF Boot, Terminate, Crash, Ends, Alive, bridgeVars
  <2>2. \A q \in Procs : /\ life'[q] = "none" <=> life[q] = "none"
                         /\ Alive(q)' => Alive(q)
    BY <2>1 DEF TypeOK, Alive
  <2> QED
    BY <2>1, <2>2 DEF SpawnInv, OneStartOneEngine, OneEngine
<1>5. CASE \/ \E j \in Joins : JoinRunning(j) \/ JoinStuck(j) \/ Loaded(j) \/ Timeout(j)
           \/ Leave
           \/ \E p \in Procs : HearReady(p) \/ Handle(p)
           \/ UNCHANGED vars
  <2>1. UNCHANGED <<spawned, life, signalled, proc>>
    BY <1>5 DEF JoinRunning, JoinStuck, Loaded, Timeout, Leave, HearReady, Handle, vars,
                bridgeVars, procVars
  <2> QED
    BY <2>1 DEF SpawnInv, OneStartOneEngine, OneEngine, Alive
<1> QED
  BY <1>1, <1>2, <1>3, <1>4, <1>5 DEF Next

\* Where there was one start(), no engine goes on that the bridge does not know
\* and has not told to end, for any crashes, time-outs and orders of what the
\* daemon hears.
THEOREM NoneLeftBehind == Spec => []OneStartOneEngine
<1>1. Init => BridgeInv /\ SpawnInv
  <2> SUFFICES ASSUME Init PROVE SpawnInv
    BY InitBridge
  <2>1. \A p \in Procs : p > 0
    BY DEF Procs
  <2> QED
    BY <2>1 DEF Init, SpawnInv, OneStartOneEngine, OneEngine, Alive, NoProc
<1>2. BridgeInv /\ SpawnInv /\ [Next]_vars => (BridgeInv /\ SpawnInv)'
  BY BridgeStep, SpawnStep DEF BridgeInv
<1>3. SpawnInv => OneStartOneEngine
  BY DEF SpawnInv
<1> QED
  BY <1>1, <1>2, <1>3, PTL DEF Spec

-----------------------------------------------------------------------------
(***************************************************************************)
(* Who joined is subscribed.                                               *)
(***************************************************************************)

LEMMA TailIs ==
    ASSUME NEW S, NEW s \in Seq(S), s # <<>>
    PROVE  /\ 1 \in DOMAIN s /\ Head(s) = s[1] /\ Head(s) \in S
           /\ \A i \in DOMAIN Tail(s) : \E k \in DOMAIN s : Tail(s)[i] = s[k]
<1>1. Len(s) \in Nat \ {0} /\ DOMAIN s = 1 .. Len(s) /\ Tail(s) \in Seq(S)
  OBVIOUS
<1>2. Len(Tail(s)) = Len(s) - 1 /\ DOMAIN Tail(s) = 1 .. Len(Tail(s))
  BY <1>1
<1>3. \A i \in 1 .. Len(s) - 1 : Tail(s)[i] = s[i + 1] /\ i + 1 \in 1 .. Len(s)
  BY <1>1
<1> QED
  BY <1>1, <1>2, <1>3

LEMMA AppendIs ==
    ASSUME NEW S, NEW s \in Seq(S), NEW x \in S
    PROVE  \A i \in DOMAIN Append(s, x) :
              Append(s, x)[i] = x \/ \E k \in DOMAIN s : Append(s, x)[i] = s[k]
<1>1. Len(s) \in Nat /\ DOMAIN s = 1 .. Len(s)
  OBVIOUS
<1>2. DOMAIN Append(s, x) = 1 .. Len(s) + 1 /\ Append(s, x)[Len(s) + 1] = x
  OBVIOUS
<1>3. \A i \in 1 .. Len(s) : Append(s, x)[i] = s[i]
  OBVIOUS
<1> QED
  BY <1>1, <1>2, <1>3

LEMMA ConcatIs ==
    ASSUME NEW S, NEW s \in Seq(S), NEW t \in Seq(S)
    PROVE  /\ \A i \in DOMAIN (s \o t) : \/ \E k \in DOMAIN s : (s \o t)[i] = s[k]
                                         \/ \E k \in DOMAIN t : (s \o t)[i] = t[k]
           /\ s # <<>> => s \o t # <<>> /\ Head(s \o t) = Head(s)
           /\ s = <<>> => s \o t = t
<1>1. /\ Len(s) \in Nat /\ DOMAIN s = 1 .. Len(s)
      /\ Len(t) \in Nat /\ DOMAIN t = 1 .. Len(t)
  OBVIOUS
<1>2. /\ s \o t \in Seq(S) /\ Len(s \o t) = Len(s) + Len(t)
      /\ \A i \in 1 .. Len(s) + Len(t) :
           (s \o t)[i] = IF i <= Len(s) THEN s[i] ELSE t[i - Len(s)]
  BY ConcatProperties
<1>3. DOMAIN (s \o t) = 1 .. Len(s) + Len(t)
  BY <1>2
<1>4. ASSUME NEW i \in 1 .. Len(s) + Len(t)
      PROVE  \/ \E k \in DOMAIN s : (s \o t)[i] = s[k]
             \/ \E k \in DOMAIN t : (s \o t)[i] = t[k]
  <2>1. CASE i <= Len(s)
    <3>1. i \in 1 .. Len(s)
      BY <1>1, <2>1
    <3> QED
      BY <1>1, <1>2, <2>1, <3>1
  <2>2. CASE ~(i <= Len(s))
    <3>1. i - Len(s) \in 1 .. Len(t)
      BY <1>1, <2>2
    <3> QED
      BY <1>1, <1>2, <2>2, <3>1
  <2> QED
    BY <2>1, <2>2
<1>5. ASSUME s # <<>> PROVE s \o t # <<>> /\ Head(s \o t) = Head(s)
  <2>1. Len(s) # 0 /\ Head(s) = s[1]
    BY <1>5
  <2>2. 1 \in 1 .. Len(s) + Len(t) /\ 1 <= Len(s) /\ Len(s \o t) # 0
    BY <1>1, <1>2, <2>1
  <2>3. (s \o t)[1] = s[1]
    BY <1>2, <2>2
  <2>4. s \o t # <<>> /\ Head(s \o t) = (s \o t)[1]
    BY <1>2, <2>2
  <2> QED
    BY <2>1, <2>3, <2>4
<1> QED
  BY <1>3, <1>4, <1>5

Calm == crashes = 0 /\ leaving = "no"

\* As long as no engine died and nobody left: whoever is past start() finds the
\* bridge started on the engine that all calls were written for, that engine has
\* an endpoint before it comes to a join, and the answer to a join follows the
\* subscription.
SharedInv ==
    Calm =>
        /\ \A p \in Procs : ~signalled[p] /\ life[p] \in {"none", "booting", "serving"}
        /\ started \/ waiters # <<>> => proc # NoProc
        /\ \A j \in Joins : join[j] \in {"opening", "loading", "joining", "joined"} => started
        /\ started => open[proc] \/ (stdin[proc] # <<>> /\ Head(stdin[proc]).what = "open")
        /\ \A p \in Procs : stdin[p] # <<>> => started /\ p = proc
        /\ \A p \in Procs : \A i \in DOMAIN stdin[p] : stdin[p][i].what # "stop"
        /\ \A p \in Procs : \A i \in DOMAIN stdout[p] : stdout[p][i].kind = "answer" =>
             /\ started /\ p = proc
             /\ stdout[p][i].id.what = "join" => stdout[p][i].id.by \in topics[proc]
        /\ \A j \in Joins : join[j] = "joined" => j \in topics[proc]

LEMMA SharedStep == BridgeInv /\ SharedInv /\ [Next]_vars => SharedInv'
<1> SUFFICES ASSUME BridgeInv, SharedInv, [Next]_vars, Calm' PROVE SharedInv'
  BY DEF SharedInv
<1>t. TypeOK
  BY DEF BridgeInv
<1>s. /\ \A p \in Procs : stdin[p] \in Seq(Id) /\ stdout[p] \in Seq(Line)
      /\ proc # NoProc => proc \in Procs
  BY <1>t DEF TypeOK
<1>p. StopCall \in pending <=> leaving = "calling"
  BY Ids DEF BridgeInv, Waits, StopCall
<1>1. ASSUME NEW j \in Joins, JoinRunning(j) \/ JoinStuck(j) PROVE SharedInv'
  <2>1. /\ started /\ Calm
        /\ join' = [join EXCEPT ![j] = join'[j]] /\ join'[j] \in {"loading", "failed"}
        /\ UNCHANGED <<proc, started, waiters, signalled, life, stdin, stdout, open, topics>>
    BY <1>1, <1>t DEF JoinRunning, JoinStuck, TypeOK, IsRunning, Calm, bridgeVars, procVars,
                      pipeVars, engineVars
  <2> QED
    BY <1>t, <2>1 DEF SharedInv, TypeOK
<1>2. ASSUME NEW j \in Joins, JoinSpawns(j) PROVE SharedInv'
  <2>1. /\ ~started /\ Calm /\ spawned + 1 \in Procs /\ spawned + 1 # NoProc
        /\ life' = [life EXCEPT ![spawned + 1] = "booting"] /\ proc' = spawned + 1
        /\ join' = [join EXCEPT ![j] = "starting"]
        /\ UNCHANGED <<started, signalled, stdin, stdout, open, topics>>
    BY <1>2, <1>t, BridgeAssumption DEF JoinSpawns, TypeOK, Procs, NoProc, Calm, pipeVars,
                                        engineVars
  <2>2. \A k \in Joins : join'[k] \notin {"opening", "loading", "joining", "joined"}
    BY <1>t, <2>1 DEF SharedInv, TypeOK
  <2>3. \A p \in Procs : life'[p] \in {"none", "booting", "serving"}
    BY <1>t, <2>1 DEF SharedInv, TypeOK
  <2> QED
    BY <2>1, <2>2, <2>3 DEF SharedInv
<1>3. ASSUME NEW j \in Joins, Loaded(j) PROVE SharedInv'
  <2>1. join[j] = "loading" /\ Calm
        /\ UNCHANGED <<proc, started, waiters, signalled, life, stdout, open, topics>>
    BY <1>3 DEF Loaded, Calm, procVars, engineVars
  <2>2. started /\ proc \in Procs /\ proc # NoProc
    BY <1>s, <2>1 DEF SharedInv
  <2>3. /\ stdin' = [stdin EXCEPT ![proc] = stdin[proc] \o <<JoinCall(j)>>]
        /\ join' = [join EXCEPT ![j] = "joining"]
    BY <1>3, <2>2 DEF Loaded, Call
  <2> DEFINE s == stdin[proc] \o <<JoinCall(j)>>
  <2>4. /\ \A i \in DOMAIN s : \/ \E k \in DOMAIN stdin[proc] : s[i] = stdin[proc][k]
                               \/ s[i] = JoinCall(j)
        /\ stdin[proc] # <<>> => s # <<>> /\ Head(s) = Head(stdin[proc])
    <3>1. <<JoinCall(j)>> \in Seq(Id) /\ \A k \in DOMAIN <<JoinCall(j)>> : <<JoinCall(j)>>[k] = JoinCall(j)
      BY Ids
    <3> QED
      BY <1>s, <2>2, <3>1, ConcatIs
  <2> HIDE DEF s
  <2>5. stdin'[proc] = s /\ \A p \in Procs : p # proc => stdin'[p] = stdin[p]
    BY <1>t, <2>2, <2>3 DEF TypeOK, s
  <2>6. \A p \in Procs : \A i \in DOMAIN stdin'[p] : stdin'[p][i].what # "stop"
    BY <2>1, <2>4, <2>5 DEF SharedInv, JoinCall
  <2>7. \A p \in Procs : stdin'[p] # <<>> => p = proc
    BY <2>1, <2>5 DEF SharedInv
  <2>8. open[proc] \/ (stdin'[proc] # <<>> /\ Head(stdin'[proc]).what = "open")
    BY <2>1, <2>2, <2>4, <2>5 DEF SharedInv
  <2>9. \A k \in Joins : join'[k] = "joined" => join[k] = "joined"
    BY <1>t, <2>3 DEF TypeOK
  <2> QED
    BY <2>1, <2>2, <2>6, <2>7, <2>8, <2>9 DEF SharedInv
<1>4. ASSUME NEW j \in Joins, Timeout(j) PROVE SharedInv'
  <2>1. /\ Calm /\ waiters # <<>> /\ join' = [join EXCEPT ![j] = "failed"]
        /\ UNCHANGED <<proc, started, signalled, life, stdin, stdout, open, topics>>
    BY <1>4 DEF Timeout, Calm, procVars, pipeVars, engineVars
  <2> QED
    BY <1>t, <2>1 DEF SharedInv, TypeOK
<1>5. ASSUME NEW p \in Procs, HearReady(p) PROVE SharedInv'
  <2>1. /\ Calm /\ stdout[p] # <<>> /\ stdout' = [stdout EXCEPT ![p] = Tail(stdout[p])]
        /\ started' = (started \/ waiters # <<>>) /\ waiters' = <<>>
        /\ join' = [j \in Joins |-> IF join[j] # "starting" THEN join[j]
                                    ELSE IF proc = NoProc THEN "failed" ELSE "opening"]
        /\ UNCHANGED <<proc, signalled, life, open, topics>>
    BY <1>5 DEF HearReady, Calm, procVars, engineVars
  <2>2. \A q \in Procs : \A i \in DOMAIN stdout'[q] : \E k \in DOMAIN stdout[q] :
            stdout'[q][i] = stdout[q][k]
    <3>1. stdout'[p] = Tail(stdout[p]) /\ \A q \in Procs : q # p => stdout'[q] = stdout[q]
      BY <1>t, <2>1 DEF TypeOK
    <3>2. \A i \in DOMAIN Tail(stdout[p]) : \E k \in DOMAIN stdout[p] : Tail(stdout[p])[i] = stdout[p][k]
      BY <1>s, <2>1, TailIs
    <3> DEFINE t == Tail(stdout[p])
    <3> HIDE DEF t
    <3>5. stdout'[p] = t /\ \A i \in DOMAIN t : \E k \in DOMAIN stdout[p] : t[i] = stdout[p][k]
      BY <3>1, <3>2 DEF t
    <3> TAKE q \in Procs
    <3>3. CASE q = p
      BY <3>3, <3>5
    <3>4. CASE q # p
      BY <3>1, <3>4
    <3> QED
      BY <3>3, <3>4
  <2>3. \A j \in Joins : join'[j] = "opening" => join[j] = "opening" \/ waiters # <<>>
    BY <2>1 DEF BridgeInv, Listening
  <2>4. \A j \in Joins : /\ join'[j] \in {"loading", "joining", "joined"} => join'[j] = join[j]
                         /\ join'[j] = "joined" => join[j] = "joined"
    BY <2>1
  <2>5. \A q \in Procs : \A i \in DOMAIN stdout'[q] : stdout'[q][i].kind = "answer" =>
            /\ started' /\ q = proc
            /\ stdout'[q][i].id.what = "join" => stdout'[q][i].id.by \in topics[proc]
    <3> TAKE q \in Procs
    <3> TAKE i \in DOMAIN stdout'[q]
    <3>1. PICK k \in DOMAIN stdout[q] : stdout'[q][i] = stdout[q][k]
      BY <2>2
    <3>2. stdout[q][k].kind = "answer" =>
            /\ started /\ q = proc
            /\ stdout[q][k].id.what = "join" => stdout[q][k].id.by \in topics[proc]
      BY <2>1 DEF SharedInv
    <3> QED
      BY <2>1, <3>1, <3>2
  <2>6. \A j \in Joins : /\ join'[j] \in {"opening", "loading", "joining", "joined"} => started'
                         /\ join'[j] = "joined" => j \in topics[proc]
    BY <2>1, <2>3, <2>4 DEF SharedInv
  <2>7. CASE proc = NoProc
    <3>1. waiters = <<>> /\ ~started /\ stdin' = stdin
      BY <1>5, <2>1, <2>7 DEF SharedInv, HearReady, Call
    <3> QED
      BY <2>1, <2>5, <2>6, <2>7, <3>1 DEF SharedInv
  <2>8. CASE proc # NoProc
    <3> DEFINE calls == [i \in DOMAIN waiters |-> OpenCall(waiters[i])]
    <3>1. stdin' = [stdin EXCEPT ![proc] = stdin[proc] \o calls] /\ proc \in Procs
      BY <1>5, <1>s, <2>8 DEF HearReady, Call
    <3>2. /\ calls \in Seq(Id) /\ \A i \in DOMAIN calls : calls[i].what = "open"
          /\ waiters = <<>> => calls = <<>>
          /\ waiters # <<>> => calls # <<>> /\ Head(calls).what = "open"
      <4>1. waiters \in Seq(Joins) /\ Len(waiters) \in Nat /\ DOMAIN waiters = 1 .. Len(waiters)
        BY <1>t DEF TypeOK
      <4>2. \A i \in DOMAIN waiters : OpenCall(waiters[i]) \in Id /\ OpenCall(waiters[i]).what = "open"
        BY <4>1, Ids DEF OpenCall
      <4>3. calls \in [1 .. Len(waiters) -> Id]
        BY <4>1, <4>2
      <4>4. calls \in Seq(Id) /\ Len(calls) = Len(waiters)
        BY <4>1, <4>3, SeqDef
      <4>5. \A i \in DOMAIN calls : calls[i].what = "open"
        BY <4>2
      <4> HIDE DEF calls
      <4>6. calls # <<>> => 1 \in DOMAIN calls /\ Head(calls) = calls[1]
        BY <4>4, TailIs
      <4> QED
        BY <4>1, <4>4, <4>5, <4>6
    <3> HIDE DEF calls
    <3> DEFINE s == stdin[proc] \o calls
    <3>3. /\ \A i \in DOMAIN s : \/ \E k \in DOMAIN stdin[proc] : s[i] = stdin[proc][k]
                                 \/ \E k \in DOMAIN calls : s[i] = calls[k]
          /\ stdin[proc] # <<>> => s # <<>> /\ Head(s) = Head(stdin[proc])
          /\ stdin[proc] = <<>> => s = calls
      <4>1. stdin[proc] \in Seq(Id) /\ calls \in Seq(Id)
        BY <1>s, <3>1, <3>2
      <4> QED
        BY <4>1, ConcatIs
    <3> HIDE DEF s
    <3>4. stdin'[proc] = s /\ \A q \in Procs : q # proc => stdin'[q] = stdin[q]
      BY <1>t, <3>1 DEF TypeOK, s
    <3>5. \A q \in Procs : \A i \in DOMAIN stdin'[q] : stdin'[q][i].what # "stop"
      BY <2>1, <3>2, <3>3, <3>4 DEF SharedInv
    <3>6. \A q \in Procs : stdin'[q] # <<>> => started' /\ q = proc
      BY <2>1, <3>1, <3>2, <3>3, <3>4 DEF SharedInv
    <3>7. started' => open[proc] \/ (stdin'[proc] # <<>> /\ Head(stdin'[proc]).what = "open")
      BY <2>1, <3>1, <3>2, <3>3, <3>4 DEF SharedInv
    <3> QED
      BY <2>1, <2>5, <2>6, <2>8, <3>5, <3>6, <3>7 DEF SharedInv
  <2> QED
    BY <2>7, <2>8
<1>6. ASSUME NEW p \in Procs, HearAnswer(p) PROVE SharedInv'
  <2> DEFINE answer == Head(stdout[p])
  <2>1. /\ stdout[p] # <<>> /\ answer.kind = "answer" /\ stdout' = [stdout EXCEPT ![p] = Tail(stdout[p])]
        /\ join' = [j \in Joins |-> IF answer.id.by = j /\ answer.id \in pending
                                    THEN JoinAfter(answer.id, answer.ok) ELSE join[j]]
        /\ UNCHANGED <<waiters, life, crashes, stdin, open, topics>>
    BY <1>6 DEF HearAnswer, engineVars
  <2>2. Calm /\ UNCHANGED <<signalled, proc, started>>
    <3>1. leaving' = "no" => leaving = "no" /\ UNCHANGED <<signalled, proc, started>>
      BY <1>6, <1>p DEF HearAnswer, Stopped
    <3> QED
      BY <2>1, <3>1 DEF Calm
  <2>3. /\ 1 \in DOMAIN stdout[p] /\ answer = stdout[p][1]
        /\ \A i \in DOMAIN Tail(stdout[p]) : \E k \in DOMAIN stdout[p] : Tail(stdout[p])[i] = stdout[p][k]
    BY <1>s, <2>1, TailIs
  <2> HIDE DEF answer
  <2>4. started /\ (answer.id.what = "join" => answer.id.by \in topics[proc])
    BY <2>1, <2>2, <2>3 DEF SharedInv
  <2>5. \A q \in Procs : \A i \in DOMAIN stdout'[q] : \E k \in DOMAIN stdout[q] :
            stdout'[q][i] = stdout[q][k]
    <3>1. stdout'[p] = Tail(stdout[p]) /\ \A q \in Procs : q # p => stdout'[q] = stdout[q]
      BY <1>t, <2>1 DEF TypeOK
    <3> DEFINE t == Tail(stdout[p])
    <3> HIDE DEF t
    <3>4. stdout'[p] = t /\ \A i \in DOMAIN t : \E k \in DOMAIN stdout[p] : t[i] = stdout[p][k]
      BY <2>3, <3>1 DEF t
    <3> TAKE q \in Procs
    <3>2. CASE q = p
      BY <3>2, <3>4
    <3>3. CASE q # p
      BY <3>1, <3>3
    <3> QED
      BY <3>2, <3>3
  <2>6. \A j \in Joins : join'[j] = "joined" => j \in topics[proc]
    <3> SUFFICES ASSUME NEW j \in Joins, join'[j] = "joined" PROVE j \in topics[proc]
      OBVIOUS
    <3>1. CASE answer.id.by = j /\ answer.id \in pending
      BY <2>1, <2>4, <3>1 DEF JoinAfter
    <3>2. CASE ~(answer.id.by = j /\ answer.id \in pending)
      BY <2>1, <2>2, <3>2 DEF SharedInv
    <3> QED
      BY <3>1, <3>2
  <2> QED
    BY <2>1, <2>2, <2>4, <2>5, <2>6 DEF SharedInv
<1>7. ASSUME NEW p \in Procs, Boot(p) PROVE SharedInv'
  <2>1. /\ Calm /\ life' = [life EXCEPT ![p] = "serving"]
        /\ stdout' = [stdout EXCEPT ![p] = Append(stdout[p], [kind |-> "ready"])]
        /\ UNCHANGED <<proc, started, waiters, join, signalled, stdin, open, topics>>
    BY <1>7 DEF Boot, Calm, bridgeVars, clientVars, engineVars
  <2>2. \A q \in Procs : life'[q] \in {"none", "booting", "serving"}
    BY <1>t, <2>1 DEF SharedInv, TypeOK
  <2>3. \A q \in Procs : \A i \in DOMAIN stdout'[q] :
            \/ stdout'[q][i].kind # "answer"
            \/ \E k \in DOMAIN stdout[q] : stdout'[q][i] = stdout[q][k]
    <3>1. [kind |-> "ready"] \in Line /\ [kind |-> "ready"].kind # "answer"
      BY DEF Line
    <3>2. \A i \in DOMAIN Append(stdout[p], [kind |-> "ready"]) :
              \/ Append(stdout[p], [kind |-> "ready"])[i] = [kind |-> "ready"]
              \/ \E k \in DOMAIN stdout[p] : Append(stdout[p], [kind |-> "ready"])[i] = stdout[p][k]
      BY <1>s, <3>1, AppendIs
    <3>3. /\ stdout'[p] = Append(stdout[p], [kind |-> "ready"])
          /\ \A q \in Procs : q # p => stdout'[q] = stdout[q]
      BY <1>t, <2>1 DEF TypeOK
    <3> QED
      BY <3>1, <3>2, <3>3
  <2> QED
    BY <2>1, <2>2, <2>3 DEF SharedInv
<1>8. ASSUME NEW p \in Procs, Handle(p) PROVE SharedInv'
  <2> DEFINE id   == Head(stdin[p])
             line == [kind |-> "answer", id |-> id, ok |-> id.what = "join" => open[p]]
  <2>1. /\ Calm /\ stdin[p] # <<>> /\ stdin' = [stdin EXCEPT ![p] = Tail(stdin[p])]
        /\ stdout' = [stdout EXCEPT ![p] = Append(stdout[p], line)]
        /\ UNCHANGED <<proc, started, waiters, join, signalled, life>>
    BY <1>8 DEF Handle, Calm, bridgeVars, clientVars, procVars
  <2>2. /\ 1 \in DOMAIN stdin[p] /\ id = stdin[p][1] /\ id \in Id
        /\ \A i \in DOMAIN Tail(stdin[p]) : \E k \in DOMAIN stdin[p] : Tail(stdin[p])[i] = stdin[p][k]
    BY <1>s, <2>1, TailIs
  <2>3. started /\ p = proc /\ id.what \in {"open", "join"}
    BY <2>1, <2>2, Ids DEF SharedInv, OpenCall, JoinCall, StopCall
  <2>4. /\ open[p] \/ id.what = "open"
        /\ id.what = "join" => open[p]
    BY <2>1, <2>3 DEF SharedInv
  <2>5. open'[p]
    <3>1. open' = [open EXCEPT ![p] = id.what = "open" \/ (open[p] /\ id.what # "stop")]
      BY <1>8 DEF Handle
    <3> QED
      BY <1>t, <2>3, <2>4, <3>1 DEF TypeOK
  <2>6. /\ topics[p] \subseteq topics'[p]
        /\ id.what = "join" => id.by \in topics'[p]
    BY <1>8, <1>t, <2>3, <2>4 DEF Handle, TypeOK
  <2>7. line \in Line /\ line.kind = "answer" /\ line.id = id
    BY <1>t, <2>2 DEF Line, TypeOK
  <2> HIDE DEF id, line
  <2>8. \A q \in Procs : \A i \in DOMAIN stdout'[q] :
            \/ q = p /\ stdout'[q][i] = line
            \/ \E k \in DOMAIN stdout[q] : stdout'[q][i] = stdout[q][k]
    <3>1. \A i \in DOMAIN Append(stdout[p], line) :
              \/ Append(stdout[p], line)[i] = line
              \/ \E k \in DOMAIN stdout[p] : Append(stdout[p], line)[i] = stdout[p][k]
      BY <1>s, <2>7, AppendIs
    <3>2. stdout'[p] = Append(stdout[p], line) /\ \A q \in Procs : q # p => stdout'[q] = stdout[q]
      BY <1>t, <2>1 DEF TypeOK
    <3> QED
      BY <3>1, <3>2
  <2>9. stdin'[p] = Tail(stdin[p]) /\ \A q \in Procs : q # p => stdin'[q] = stdin[q]
    BY <1>t, <2>1 DEF TypeOK
  <2>10. \A q \in Procs : \A i \in DOMAIN stdin'[q] : stdin'[q][i].what # "stop"
    BY <2>1, <2>2, <2>9 DEF SharedInv
  <2>11. \A q \in Procs : stdin'[q] # <<>> => q = proc
    BY <2>1, <2>3, <2>9 DEF SharedInv
  <2>12. \A q \in Procs : \A i \in DOMAIN stdout'[q] : stdout'[q][i].kind = "answer" =>
            /\ q = proc
            /\ stdout'[q][i].id.what = "join" => stdout'[q][i].id.by \in topics'[proc]
    BY <2>1, <2>3, <2>6, <2>7, <2>8 DEF SharedInv
  <2>13. \A j \in Joins : join[j] = "joined" => j \in topics'[proc]
    BY <2>1, <2>3, <2>6 DEF SharedInv
  <2> QED
    BY <2>1, <2>3, <2>5, <2>10, <2>11, <2>12, <2>13 DEF SharedInv
<1>9. ASSUME NEW p \in Procs, WriteFails(p) \/ HearExit(p) \/ Terminate(p) \/ Crash(p)
      PROVE  SharedInv'
  <2>1. Calm
    <3>1. leaving' = "no" => leaving = "no"
      BY <1>9 DEF WriteFails, HearExit, Terminate, Crash, Ends, Stopped, clientVars
    <3>2. crashes' = 0 => crashes = 0
      <4>1. crashes \in Nat
        BY <1>t, BridgeAssumption DEF TypeOK
      <4>2. crashes' = crashes \/ crashes' = crashes + 1
        BY <1>9 DEF WriteFails, HearExit, Terminate, Crash
      <4> QED
        BY <4>1, <4>2
    <3> QED
      BY <3>1, <3>2 DEF Calm
  <2>2. life[p] \in {"dead", "reaped"} \/ signalled[p] \/ crashes' = crashes + 1
    BY <1>9 DEF WriteFails, HearExit, Terminate, Crash
  <2>3. crashes' # crashes + 1
    BY <2>1 DEF Calm
  <2> QED
    BY <2>1, <2>2, <2>3 DEF SharedInv
<1>10. CASE Leave
  BY <1>10 DEF Leave, Calm
<1>11. CASE UNCHANGED vars
  BY <1>11 DEF vars, bridgeVars, clientVars, procVars, pipeVars, engineVars, SharedInv, Calm
<1> QED
  BY <1>1, <1>2, <1>3, <1>4, <1>5, <1>6, <1>7, <1>8, <1>9, <1>10, <1>11 DEF Next

\* As long as no engine died and nobody left, a network that was joined is
\* subscribed to on the engine in use, however many joins overlap and however
\* many engines they spawned.
THEOREM JoinsAreSubscribed == Spec => []JoinedIsSubscribed
<1>1. Init => BridgeInv /\ SharedInv
  BY InitBridge DEF Init, SharedInv
<1>2. BridgeInv /\ SharedInv /\ [Next]_vars => (BridgeInv /\ SharedInv)'
  BY BridgeStep, SharedStep
<1>3. SharedInv => JoinedIsSubscribed
  BY DEF SharedInv, JoinedIsSubscribed, IsRunning, Calm
<1> QED
  BY <1>1, <1>2, <1>3, PTL DEF Spec

-----------------------------------------------------------------------------
(***************************************************************************)
(* Calls without an answer.                                                *)
(***************************************************************************)

\* A call on its way to an engine, its answer on the way back, and an engine
\* whose exit is still to be handled, which rejects every call.
Asked(id, p)    == \E i \in DOMAIN stdin[p] : stdin[p][i] = id
Answered(id, p) == \E i \in DOMAIN stdout[p] : stdout[p][i].kind = "answer" /\ stdout[p][i].id = id
SettledBy(id, p) == Asked(id, p) \/ Answered(id, p) \/ life[p] = "dead"

NobodyIsForgotten == \A id \in pending : \E p \in Procs : SettledBy(id, p)

\* Where the elements of a sequence are after it is read and written.
LEMMA TailHas ==
  ASSUME NEW S, NEW s \in Seq(S), s # <<>>, NEW i \in DOMAIN s, i # 1
  PROVE  \E k \in DOMAIN Tail(s) : Tail(s)[k] = s[i]
<1>1. /\ Len(s) \in Nat /\ DOMAIN s = 1 .. Len(s) /\ Tail(s) \in Seq(S)
      /\ Len(Tail(s)) = Len(s) - 1
      /\ \A k \in 1 .. Len(s) - 1 : Tail(s)[k] = s[k + 1]
  BY HeadTailProperties
<1>2. i - 1 \in DOMAIN Tail(s) /\ i - 1 \in 1 .. Len(s) - 1 /\ i - 1 + 1 = i
  BY <1>1
<1>3. Tail(s)[i - 1] = s[i]
  BY <1>1, <1>2
<1> QED
  BY <1>2, <1>3

LEMMA AppendHas ==
  ASSUME NEW S, NEW s \in Seq(S), NEW x \in S, NEW t, t = Append(s, x)
  PROVE  /\ \A i \in DOMAIN s : \E k \in DOMAIN t : t[k] = s[i]
         /\ \E k \in DOMAIN t : t[k] = x
<1>1. /\ Len(s) \in Nat /\ DOMAIN s = 1 .. Len(s)
      /\ DOMAIN t = 1 .. Len(s) + 1
      /\ \A k \in 1 .. Len(s) : t[k] = s[k]
      /\ t[Len(s) + 1] = x
  OBVIOUS
<1>2. \A i \in 1 .. Len(s) : i \in 1 .. Len(s) + 1
  BY <1>1
<1>3. Len(s) + 1 \in 1 .. Len(s) + 1
  BY <1>1
<1> QED
  BY <1>1, <1>2, <1>3

LEMMA ConcatHas ==
  ASSUME NEW S, NEW s \in Seq(S), NEW t \in Seq(S)
  PROVE  /\ \A i \in DOMAIN s : i \in DOMAIN (s \o t) /\ (s \o t)[i] = s[i]
         /\ \A i \in DOMAIN t : Len(s) + i \in DOMAIN (s \o t) /\ (s \o t)[Len(s) + i] = t[i]
<1>1. /\ Len(s) \in Nat /\ DOMAIN s = 1 .. Len(s)
      /\ Len(t) \in Nat /\ DOMAIN t = 1 .. Len(t)
  OBVIOUS
<1>2. /\ s \o t \in Seq(S) /\ Len(s \o t) = Len(s) + Len(t)
      /\ \A k \in 1 .. Len(s) + Len(t) :
           (s \o t)[k] = IF k <= Len(s) THEN s[k] ELSE t[k - Len(s)]
  BY ConcatProperties
<1>3. DOMAIN (s \o t) = 1 .. Len(s) + Len(t)
  BY <1>2
<1>4. ASSUME NEW i \in 1 .. Len(s)
      PROVE  i \in 1 .. Len(s) + Len(t) /\ (s \o t)[i] = s[i]
  <2>1. i \in 1 .. Len(s) + Len(t) /\ i <= Len(s)
    BY <1>1
  <2> QED
    BY <1>2, <2>1
<1>5. ASSUME NEW i \in 1 .. Len(t)
      PROVE  Len(s) + i \in 1 .. Len(s) + Len(t) /\ (s \o t)[Len(s) + i] = t[i]
  <2>1. /\ Len(s) + i \in 1 .. Len(s) + Len(t) /\ ~(Len(s) + i <= Len(s))
        /\ Len(s) + i - Len(s) = i
    BY <1>1
  <2> QED
    BY <1>2, <2>1
<1> QED
  BY <1>1, <1>3, <1>4, <1>5

\* A step that touches no pipe, ends no engine twice and makes no call.
LEMMA StillSettled ==
  ASSUME NobodyIsForgotten, pending' \subseteq pending, UNCHANGED pipeVars,
         \A p \in Procs : life[p] = "dead" => life'[p] = "dead"
  PROVE  NobodyIsForgotten'
BY DEF NobodyIsForgotten, SettledBy, Asked, Answered, pipeVars

\* What call() adds to the pending map it writes to the pipe of its process.
LEMMA CallForgetsNobody ==
  ASSUME TypeOK, NobodyIsForgotten, NEW calls \in Seq(Id), Call(calls), life' = life,
         \A p \in Procs : \A id \in Id : Answered(id, p) => Answered(id, p)'
  PROVE  NobodyIsForgotten'
<1>1. CASE proc = NoProc
  <2>1. UNCHANGED <<pending, stdin>>
    BY <1>1 DEF Call
  <2>2. pending \subseteq Id
    BY DEF TypeOK
  <2> QED
    BY <2>1, <2>2 DEF NobodyIsForgotten, SettledBy, Asked
<1>2. CASE proc # NoProc
  <2>1. /\ stdin' = [stdin EXCEPT ![proc] = stdin[proc] \o calls]
        /\ proc \in Procs /\ stdin[proc] \in Seq(Id)
    BY <1>2 DEF Call, TypeOK
  <2>2. PICK q \in Procs : q = proc
    BY <2>1
  <2>3. /\ stdin'[q] = stdin[q] \o calls
        /\ \A p \in Procs : p # q => stdin'[p] = stdin[p]
    BY <2>1, <2>2 DEF TypeOK
  <2>7. /\ \A i \in DOMAIN stdin[q] : \E k \in DOMAIN stdin'[q] : stdin'[q][k] = stdin[q][i]
        /\ \A i \in DOMAIN calls : \E k \in DOMAIN stdin'[q] : stdin'[q][k] = calls[i]
    <3>1. stdin[q] \in Seq(Id) /\ calls \in Seq(Id)
      BY <2>1, <2>2
    <3> DEFINE s == stdin[q] \o calls
    <3>2. /\ \A i \in DOMAIN stdin[q] : i \in DOMAIN s /\ s[i] = stdin[q][i]
          /\ \A i \in DOMAIN calls : Len(stdin[q]) + i \in DOMAIN s /\ s[Len(stdin[q]) + i] = calls[i]
      BY <3>1, ConcatHas
    <3> HIDE DEF s
    <3>3. stdin'[q] = s
      BY <2>3 DEF s
    <3> QED
      BY <3>2, <3>3
  <2>4. \A p \in Procs : \A id \in Id : Asked(id, p) => Asked(id, p)'
    BY <2>3, <2>7 DEF Asked
  <2>5. \A id \in Id : (\E i \in DOMAIN calls : calls[i] = id) => Asked(id, q)'
    BY <2>7 DEF Asked
  <2>6. /\ pending' \subseteq Id
        /\ \A id \in Id : id \in pending' <=>
              id \in pending \/ (proc # NoProc /\ \E i \in DOMAIN calls : calls[i] = id)
    BY CallKeeps
  <2> QED
    BY <2>4, <2>5, <2>6 DEF NobodyIsForgotten, SettledBy
<1> QED
  BY <1>1, <1>2

LEMMA ForgetsNobody ==
  BridgeInv /\ SpawnInv /\ NobodyIsForgotten /\ [Next]_vars => NobodyIsForgotten'
<1> SUFFICES ASSUME BridgeInv, SpawnInv, NobodyIsForgotten, [Next]_vars
             PROVE  NobodyIsForgotten'
  OBVIOUS
<1>t. TypeOK /\ pending \subseteq Id
  BY DEF BridgeInv, TypeOK
<1>s. \A p \in Procs : stdin[p] \in Seq(Id) /\ stdout[p] \in Seq(Line)
  BY <1>t DEF TypeOK
<1>1. ASSUME NEW j \in Joins, JoinRunning(j) \/ JoinStuck(j) \/ Timeout(j)
      PROVE  NobodyIsForgotten'
  BY <1>1, StillSettled DEF JoinRunning, JoinStuck, Timeout, bridgeVars, procVars
<1>2. ASSUME NEW j \in Joins, JoinSpawns(j) PROVE NobodyIsForgotten'
  <2>1. /\ UNCHANGED <<pending, pipeVars>> /\ spawned + 1 \in Procs
        /\ life' = [life EXCEPT ![spawned + 1] = "booting"]
    BY <1>2, <1>t, BridgeAssumption DEF JoinSpawns, TypeOK, Procs
  <2>2. life[spawned + 1] = "none"
    <3>1. spawned + 1 > spawned
      BY <1>t, BridgeAssumption DEF TypeOK
    <3> QED
      BY <2>1, <3>1 DEF SpawnInv
  <2>3. \A p \in Procs : life[p] = "dead" => life'[p] = "dead"
    BY <1>t, <2>1, <2>2 DEF TypeOK
  <2> QED
    BY <2>1, <2>3, StillSettled
<1>3. ASSUME NEW j \in Joins, Loaded(j) PROVE NobodyIsForgotten'
  <2>1. /\ <<JoinCall(j)>> \in Seq(Id) /\ Call(<<JoinCall(j)>>)
        /\ life' = life /\ stdout' = stdout
    BY <1>3, Ids DEF Loaded, procVars
  <2> QED
    BY <1>t, <2>1, CallForgetsNobody DEF Answered
<1>4. CASE Leave
  <2>1. /\ <<StopCall>> \in Seq(Id) /\ Call(<<StopCall>>)
        /\ life' = life /\ stdout' = stdout
    BY <1>4, Ids DEF Leave, procVars
  <2> QED
    BY <1>t, <2>1, CallForgetsNobody DEF Answered
<1>5. ASSUME NEW p \in Procs, HearReady(p) PROVE NobodyIsForgotten'
  <2> DEFINE calls == [i \in DOMAIN waiters |-> OpenCall(waiters[i])]
  <2>1. /\ stdout[p] # <<>> /\ Head(stdout[p]).kind = "ready"
        /\ stdout' = [stdout EXCEPT ![p] = Tail(stdout[p])]
        /\ Call(calls) /\ life' = life
    BY <1>5 DEF HearReady, procVars
  <2>2. calls \in Seq(Id)
    <3>1. waiters \in Seq(Joins) /\ Len(waiters) \in Nat /\ DOMAIN waiters = 1 .. Len(waiters)
      BY <1>t DEF TypeOK
    <3>2. \A i \in DOMAIN waiters : OpenCall(waiters[i]) \in Id
      BY <3>1, Ids
    <3>3. calls \in [1 .. Len(waiters) -> Id]
      BY <3>1, <3>2
    <3> QED
      BY <3>1, <3>3, SeqDef
  <2> HIDE DEF calls
  <2>3. Head(stdout[p]) = stdout[p][1]
    BY <1>s, <2>1, TailIs
  <2>4. ASSUME NEW q \in Procs, NEW id \in Id, Answered(id, q) PROVE Answered(id, q)'
    <3>1. PICK i \in DOMAIN stdout[q] : stdout[q][i].kind = "answer" /\ stdout[q][i].id = id
      BY <2>4 DEF Answered
    <3>2. CASE q = p
      <4>1. i # 1
        BY <2>1, <2>3, <3>1, <3>2
      <4>2. \E k \in DOMAIN Tail(stdout[p]) : Tail(stdout[p])[k] = stdout[p][i]
        BY <1>s, <2>1, <3>2, <4>1, TailHas
      <4>3. stdout'[p] = Tail(stdout[p])
        BY <1>t, <2>1 DEF TypeOK
      <4> QED
        BY <3>1, <3>2, <4>2, <4>3 DEF Answered
    <3>3. CASE q # p
      BY <1>t, <2>1, <3>1, <3>3 DEF TypeOK, Answered
    <3> QED
      BY <3>2, <3>3
  <2> QED
    BY <1>t, <2>1, <2>2, <2>4, CallForgetsNobody
<1>6. ASSUME NEW p \in Procs, HearAnswer(p) PROVE NobodyIsForgotten'
  <2> DEFINE answer == Head(stdout[p])
  <2>1. /\ stdout[p] # <<>> /\ stdout' = [stdout EXCEPT ![p] = Tail(stdout[p])]
        /\ pending' = pending \ {answer.id} /\ UNCHANGED <<life, stdin>>
    BY <1>6 DEF HearAnswer
  <2>2. answer = stdout[p][1]
    BY <1>s, <2>1, TailIs
  <2> HIDE DEF answer
  <2>3. ASSUME NEW q \in Procs, NEW id \in pending', Answered(id, q) PROVE Answered(id, q)'
    <3>1. PICK i \in DOMAIN stdout[q] : stdout[q][i].kind = "answer" /\ stdout[q][i].id = id
      BY <2>3 DEF Answered
    <3>2. CASE q = p
      <4>1. i # 1
        BY <2>1, <2>2, <2>3, <3>1, <3>2
      <4>2. \E k \in DOMAIN Tail(stdout[p]) : Tail(stdout[p])[k] = stdout[p][i]
        BY <1>s, <2>1, <3>2, <4>1, TailHas
      <4>3. stdout'[p] = Tail(stdout[p])
        BY <1>t, <2>1 DEF TypeOK
      <4> QED
        BY <3>1, <3>2, <4>2, <4>3 DEF Answered
    <3>3. CASE q # p
      BY <1>t, <2>1, <3>1, <3>3 DEF TypeOK, Answered
    <3> QED
      BY <3>2, <3>3
  <2> QED
    BY <2>1, <2>3 DEF NobodyIsForgotten, SettledBy, Asked
<1>7. ASSUME NEW p \in Procs, WriteFails(p) PROVE NobodyIsForgotten'
  <2> DEFINE sent == Head(stdin[p])
  <2>1. /\ stdin[p] # <<>> /\ stdin' = [stdin EXCEPT ![p] = Tail(stdin[p])]
        /\ pending' = pending \ {sent} /\ UNCHANGED <<life, stdout>>
    BY <1>7 DEF WriteFails
  <2>2. sent = stdin[p][1]
    BY <1>s, <2>1, TailIs
  <2> HIDE DEF sent
  <2>3. ASSUME NEW q \in Procs, NEW id \in pending', Asked(id, q) PROVE Asked(id, q)'
    <3>1. PICK i \in DOMAIN stdin[q] : stdin[q][i] = id
      BY <2>3 DEF Asked
    <3>2. CASE q = p
      <4>1. i # 1
        BY <2>1, <2>2, <2>3, <3>1, <3>2
      <4>2. \E k \in DOMAIN Tail(stdin[p]) : Tail(stdin[p])[k] = stdin[p][i]
        BY <1>s, <2>1, <3>2, <4>1, TailHas
      <4>3. stdin'[p] = Tail(stdin[p])
        BY <1>t, <2>1 DEF TypeOK
      <4> QED
        BY <3>1, <3>2, <4>2, <4>3 DEF Asked
    <3>3. CASE q # p
      BY <1>t, <2>1, <3>1, <3>3 DEF TypeOK, Asked
    <3> QED
      BY <3>2, <3>3
  <2> QED
    BY <2>1, <2>3 DEF NobodyIsForgotten, SettledBy, Answered
<1>8. ASSUME NEW p \in Procs, HearExit(p) PROVE NobodyIsForgotten'
  BY <1>8 DEF HearExit, NobodyIsForgotten
<1>9. ASSUME NEW p \in Procs, Boot(p) PROVE NobodyIsForgotten'
  <2>1. /\ UNCHANGED <<pending, stdin>> /\ life[p] = "booting"
        /\ life' = [life EXCEPT ![p] = "serving"]
        /\ stdout' = [stdout EXCEPT ![p] = Append(stdout[p], [kind |-> "ready"])]
    BY <1>9 DEF Boot, bridgeVars
  <2>3. /\ stdout'[p] = Append(stdout[p], [kind |-> "ready"])
        /\ \A q \in Procs : q # p => stdout'[q] = stdout[q]
    BY <1>t, <2>1 DEF TypeOK
  <2>2. \A i \in DOMAIN stdout[p] : \E k \in DOMAIN stdout'[p] : stdout'[p][k] = stdout[p][i]
    <3>1. [kind |-> "ready"] \in Line
      BY DEF Line
    <3> QED
      BY <1>s, <2>3, <3>1, AppendHas
  <2>4. \A q \in Procs : \A id \in Id : Answered(id, q) => Answered(id, q)'
    BY <2>2, <2>3 DEF Answered
  <2>5. \A q \in Procs : life[q] = "dead" => life'[q] = "dead"
    BY <1>t, <2>1 DEF TypeOK
  <2> QED
    BY <1>t, <2>1, <2>4, <2>5 DEF NobodyIsForgotten, SettledBy, Asked
<1>10. ASSUME NEW p \in Procs, Handle(p) PROVE NobodyIsForgotten'
  <2>1. /\ stdin[p] # <<>> /\ stdin' = [stdin EXCEPT ![p] = Tail(stdin[p])]
        /\ UNCHANGED <<pending, life>>
    BY <1>10 DEF Handle, bridgeVars, procVars
  <2>2. 1 \in DOMAIN stdin[p] /\ Head(stdin[p]) = stdin[p][1] /\ Head(stdin[p]) \in Id
    BY <1>s, <2>1, TailIs
  <2>3. PICK id \in Id : id = Head(stdin[p])
    BY <2>2
  <2>9. PICK line \in Line :
            /\ line.kind = "answer" /\ line.id = id
            /\ stdout' = [stdout EXCEPT ![p] = Append(stdout[p], line)]
    <3> DEFINE line == [kind |-> "answer", id |-> id, ok |-> id.what = "join" => open[p]]
    <3>1. line \in Line
      BY <1>t, <2>3 DEF Line, TypeOK
    <3>2. stdout' = [stdout EXCEPT ![p] = Append(stdout[p], line)]
      BY <1>10, <2>3 DEF Handle
    <3> QED
      BY <3>1, <3>2
  <2>5. /\ stdout'[p] = Append(stdout[p], line)
        /\ \A q \in Procs : q # p => stdout'[q] = stdout[q]
        /\ stdin'[p] = Tail(stdin[p])
        /\ \A q \in Procs : q # p => stdin'[q] = stdin[q]
    BY <1>t, <2>1, <2>9 DEF TypeOK
  <2>4. /\ \A i \in DOMAIN stdout[p] : \E k \in DOMAIN stdout'[p] : stdout'[p][k] = stdout[p][i]
        /\ \E k \in DOMAIN stdout'[p] : stdout'[p][k] = line
    <3>1. stdout[p] \in Seq(Line)
      BY <1>s
    <3>2. \A i \in DOMAIN stdout[p] : \E k \in DOMAIN stdout'[p] : stdout'[p][k] = stdout[p][i]
      BY <2>5, <3>1, AppendHas
    <3>3. \E k \in DOMAIN stdout'[p] : stdout'[p][k] = line
      BY <2>5, <3>1, AppendHas
    <3> QED
      BY <3>2, <3>3
  <2>6. \A q \in Procs : \A c \in Id : Answered(c, q) => Answered(c, q)'
    <3> TAKE q \in Procs
    <3> TAKE c \in Id
    <3>1. CASE q = p
      BY <2>4, <3>1 DEF Answered
    <3>2. CASE q # p
      BY <2>5, <3>2 DEF Answered
    <3> QED
      BY <3>1, <3>2
  <2>7. Answered(id, p)'
    BY <2>4, <2>9 DEF Answered
  <2>8. ASSUME NEW q \in Procs, NEW c \in Id, Asked(c, q) PROVE Asked(c, q)' \/ Answered(c, q)'
    <3>1. PICK i \in DOMAIN stdin[q] : stdin[q][i] = c
      BY <2>8 DEF Asked
    <3>2. CASE q = p /\ i = 1
      BY <2>2, <2>3, <2>7, <3>1, <3>2
    <3>3. CASE q = p /\ i # 1
      <4>1. \E k \in DOMAIN Tail(stdin[p]) : Tail(stdin[p])[k] = stdin[p][i]
        BY <1>s, <2>1, <3>3, TailHas
      <4> QED
        BY <2>5, <3>1, <3>3, <4>1 DEF Asked
    <3>4. CASE q # p
      BY <2>5, <3>1, <3>4 DEF Asked
    <3> QED
      BY <3>2, <3>3, <3>4
  <2> QED
    BY <1>t, <2>1, <2>6, <2>8 DEF NobodyIsForgotten, SettledBy
<1>11. ASSUME NEW p \in Procs, Terminate(p) \/ Crash(p) PROVE NobodyIsForgotten'
  <2>1. pending' = pending /\ life'[p] = "dead"
    BY <1>11, <1>t DEF Terminate, Crash, Ends, bridgeVars, TypeOK
  <2> QED
    BY <2>1 DEF NobodyIsForgotten, SettledBy
<1>12. CASE UNCHANGED vars
  BY <1>12, StillSettled DEF vars, bridgeVars, procVars
<1> QED
  BY <1>1, <1>2, <1>3, <1>4, <1>5, <1>6, <1>7, <1>8, <1>9, <1>10, <1>11, <1>12 DEF Next

\* The safety half of EveryCallerReturns: the answer to every call in the
\* pending map, or the exit that rejects it, is still to come, whatever engines
\* were spawned, killed or lost since (call() sets no time-out of its own).
THEOREM NoCallIsForgotten == Spec => []NobodyIsForgotten
<1>1. Init => BridgeInv /\ SpawnInv /\ NobodyIsForgotten
  <2> SUFFICES ASSUME Init PROVE SpawnInv /\ NobodyIsForgotten
    BY InitBridge
  <2>1. \A p \in Procs : p > 0
    BY DEF Procs
  <2> QED
    BY <2>1 DEF Init, SpawnInv, OneStartOneEngine, OneEngine, Alive, NoProc, NobodyIsForgotten
<1>2. BridgeInv /\ SpawnInv /\ NobodyIsForgotten /\ [Next]_vars
        => (BridgeInv /\ SpawnInv /\ NobodyIsForgotten)'
  BY BridgeStep, SpawnStep, ForgetsNobody DEF BridgeInv
<1> QED
  BY <1>1, <1>2, PTL DEF Spec
=============================================================================
