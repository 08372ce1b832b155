---------------------------- MODULE TrustProofs ----------------------------
(***************************************************************************)
(* What lets others in, and what others may rely on.  Proof-of-work stamps *)
(* verify when they are handed out, and the limiter neither lets too many  *)
(* POSTs in nor keeps a quiet peer out, for any number of POSTs, windows   *)
(* of any length and any limits.  A presentation of a credential verifies  *)
(* until it expires, and what was altered is refused, for any keys, claims *)
(* and times.  A schema that is on disk is known, for any schemas and any  *)
(* writes of them that overlap, fail or are cut off.                       *)
(***************************************************************************)
EXTENDS Ingest, Credentials, SchemaRegistry, FunctionTheorems, FiniteSetTheorems, TLAPS

-----------------------------------------------------------------------------
(***************************************************************************)
(* Stamps and limits.                                                      *)
(***************************************************************************)

\* What is being mined is for this window or the one before, and so was what is
\* kept, at the end of its mining.
StampInv ==
    /\ now \in Nat
    /\ at \in [Posts -> {"idle", "verifying", "mining"}]
    /\ mined \in [Posts -> Nat]
    /\ cache \in [stamp : Int, index : Int]
    /\ \A p \in Posts : at[p] = "mining" => mined[p] \in {WindowOf(now), WindowOf(now) - 1}
    /\ cache.index >= 0 => cache.stamp \in {cache.index, cache.index - 1}
    /\ ~unfit

LEMMA WindowsAreNumbers == \A t \in Nat : WindowOf(t) \in Nat
BY IngestAssumption DEF WindowOf

\* The window never goes back.
LEMMA WindowsGoOn == \A t \in Nat : WindowOf(t) <= WindowOf(t + 1)
<1> SUFFICES ASSUME NEW t \in Nat PROVE WindowOf(t) <= WindowOf(t + 1)
  OBVIOUS
<1> DEFINE q == t \div StampWindow
           r == (t + 1) \div StampWindow
<1>1. /\ StampWindow \in Nat \ {0} /\ q \in Nat /\ r \in Nat
      /\ StampWindow * q <= t
      /\ t + 1 < StampWindow * (r + 1)
  BY IngestAssumption, Z3
<1>2. StampWindow * q < StampWindow * (r + 1)
  <2> HIDE DEF q, r
  <2> QED BY <1>1
<1>3. q < r + 1
  <2> HIDE DEF q, r
  <2> QED BY <1>1, <1>2
<1> QED
  BY <1>1, <1>3 DEF WindowOf

\* getOrMine, asked by a POST that is idle or has just been verified.
LEMMA HandOutKeeps ==
    ASSUME StampInv, NEW p \in Posts, HandOut(p), now' = now
    PROVE  StampInv'
<1>1. WindowOf(now) \in Nat /\ WindowOf(now)' = WindowOf(now)
  BY WindowsAreNumbers DEF StampInv, WindowOf
<1>2. CASE cache.index = WindowOf(now)
  <2>1. Verifies(cache.stamp)
    BY <1>1, <1>2 DEF StampInv, Verifies
  <2> QED
    BY <1>1, <1>2, <2>1 DEF HandOut, StampInv
<1>3. CASE cache.index # WindowOf(now)
  BY <1>1, <1>3 DEF HandOut, StampInv
<1> QED
  BY <1>2, <1>3

\* POSTs that go no further, and whatever is not about stamps.
LEMMA StampsLeftAlone ==
    ASSUME StampInv, now' = now, UNCHANGED stampVars,
           at' \in [Posts -> {"idle", "verifying", "mining"}],
           \A p \in Posts : at'[p] = "mining" => at[p] = "mining"
    PROVE  StampInv'
BY DEF StampInv, stampVars, WindowOf

LEMMA AdmitKeeps ==
    ASSUME StampInv, NEW p \in Posts, NEW r, NEW valid \in BOOLEAN, Admit(p, r, valid), now' = now
    PROVE  StampInv'
<1>1. CASE valid
  BY <1>1, HandOutKeeps DEF Admit
<1>2. CASE ~valid
  BY <1>2, StampsLeftAlone DEF Admit, StampInv
<1> QED
  BY <1>1, <1>2

LEMMA StampStep == StampInv /\ [Next]_vars => StampInv'
<1> SUFFICES ASSUME StampInv, [Next]_vars PROVE StampInv'
  OBVIOUS
<1>1. ASSUME NEW p \in Posts, Blacklisted(p) \/ Oversized(p) PROVE StampInv'
  BY <1>1, StampsLeftAlone DEF Blacklisted, Oversized, Attempt, StampInv
<1>2. ASSUME NEW p \in Posts, TooMany(p) \/ Unsigned(p) PROVE StampInv'
  BY <1>2, StampsLeftAlone DEF TooMany, Unsigned, Attempt, StampInv
<1>3. ASSUME NEW p \in Posts, Verify(p) PROVE StampInv'
  BY <1>3, StampsLeftAlone DEF Verify, Attempt, StampInv
<1>4. ASSUME NEW p \in Posts, Unstamped(p) PROVE StampInv'
  BY <1>4, StampsLeftAlone DEF Unstamped, StampInv
<1>5. ASSUME NEW p \in Posts, NEW valid \in BOOLEAN, Pass(p, valid) PROVE StampInv'
  BY <1>5, AdmitKeeps DEF Pass, Attempt
<1>6. ASSUME NEW p \in Posts, NEW valid \in BOOLEAN, Verified(p, valid) PROVE StampInv'
  BY <1>6, AdmitKeeps DEF Verified
<1>7. ASSUME NEW p \in Posts, Mined(p) PROVE StampInv'
  <2>1. mined[p] \in {WindowOf(now), WindowOf(now) - 1} /\ WindowOf(now) \in Nat
    BY <1>7, WindowsAreNumbers DEF Mined, StampInv
  <2>2. Verifies(mined[p]) /\ WindowOf(now)' = WindowOf(now)
    BY <1>7, <2>1 DEF Verifies, Mined, WindowOf
  <2>3. /\ now' = now /\ ~unfit'
        /\ at' = [at EXCEPT ![p] = "idle"]
        /\ mined' = [mined EXCEPT ![p] = 0]
        /\ cache' = [stamp |-> mined[p], index |-> WindowOf(now)]
    BY <1>7, <2>2 DEF Mined, StampInv
  <2>4. cache' \in [stamp : Int, index : Int] /\ cache'.stamp \in {cache'.index, cache'.index - 1}
    BY <2>1, <2>3
  <2>5. \A q \in Posts : at'[q] = "mining" => mined'[q] \in {WindowOf(now), WindowOf(now) - 1}
    BY <2>3 DEF StampInv
  <2> QED
    BY <2>2, <2>3, <2>4, <2>5 DEF StampInv
<1>8. CASE Report
  BY <1>8, StampsLeftAlone DEF Report, StampInv
<1>9. CASE Clear
  BY <1>9, StampsLeftAlone DEF Clear, StampInv
<1>10. CASE Restart
  BY <1>10 DEF Restart, StampInv, Empty, WindowOf
<1>11. CASE Tick
  <2>1. /\ now' = now + 1 /\ UNCHANGED <<at, stampVars>>
        /\ \A p \in Posts : at[p] = "mining" => WindowOf(now + 1) <= mined[p] + 1
    BY <1>11 DEF Tick
  <2>2. /\ WindowOf(now) \in Nat /\ WindowOf(now + 1) \in Nat
        /\ WindowOf(now) <= WindowOf(now + 1)
        /\ WindowOf(now)' = WindowOf(now + 1)
    BY <2>1, WindowsAreNumbers, WindowsGoOn DEF StampInv, WindowOf
  <2>3. ASSUME NEW p \in Posts, at[p] = "mining"
        PROVE  mined[p] \in {WindowOf(now + 1), WindowOf(now + 1) - 1}
    BY <2>1, <2>2, <2>3 DEF StampInv
  <2> QED
    BY <2>1, <2>2, <2>3 DEF StampInv, stampVars
<1>12. CASE UNCHANGED vars
  BY <1>12, StampsLeftAlone DEF vars, StampInv
<1> QED
  BY <1>1, <1>2, <1>3, <1>4, <1>5, <1>6, <1>7, <1>8, <1>9, <1>10, <1>11, <1>12 DEF Next

\* A stamp from getOrMine is accepted by verifyStamp when it is handed out, also
\* across the turn of a window and out of the cache.
THEOREM StampsAreFit == Spec => []StampsVerify
<1>1. Init => StampInv
  BY DEF Init, StampInv, Empty, WindowOf
<1>2. StampInv => StampsVerify
  BY DEF StampInv, StampsVerify
<1> QED
  BY <1>1, <1>2, StampStep, PTL DEF Spec

-----------------------------------------------------------------------------
(***************************************************************************)
(* Counting.                                                               *)
(***************************************************************************)

Counter == [Times -> Nat]
Marks(f) == UNION {{t} \X (1 .. f[t]) : t \in Times}

LEMMA MarksAre ==
    ASSUME NEW f \in Counter
    PROVE  \A t, k : <<t, k>> \in Marks(f) <=> t \in Times /\ k \in 1 .. f[t]
BY DEF Marks

\* Finitely many events are counted.
LEMMA MarksFinite ==
    ASSUME NEW f \in Counter
    PROVE  IsFiniteSet(Marks(f))
<1> DEFINE row == [t \in Times |-> {t} \X (1 .. f[t])]
           rows == {{t} \X (1 .. f[t]) : t \in Times}
<1>1. IsFiniteSet(Times)
  BY FS_Interval, IngestAssumption DEF Times
<1>2. row \in Surjection(Times, rows)
  BY DEF Surjection
<1>3. IsFiniteSet(rows)
  BY <1>1, <1>2, FS_Surjection
<1>4. ASSUME NEW t \in Times PROVE IsFiniteSet({t} \X (1 .. f[t]))
  <2>1. f[t] \in Int
    BY DEF Counter
  <2>2. IsFiniteSet(1 .. f[t])
    BY <2>1, FS_Interval
  <2>3. IsFiniteSet({t})
    BY FS_Singleton
  <2> QED
    BY <2>2, <2>3, FS_Product
<1>5. \A T \in rows : IsFiniteSet(T)
  BY <1>4
<1> QED
  BY <1>3, <1>5, FS_UNION DEF Marks

LEMMA CountIsNat ==
    ASSUME NEW f \in Counter
    PROVE  Count(f) \in Nat
BY MarksFinite, FS_CardinalityType DEF Count, Marks

\* Whoever counts fewer events at every time counts fewer.
LEMMA CountMono ==
    ASSUME NEW f \in Counter, NEW g \in Counter, \A t \in Times : f[t] <= g[t]
    PROVE  Count(f) <= Count(g)
<1>1. ASSUME NEW m \in Marks(f) PROVE m \in Marks(g)
  <2>1. PICK t \in Times : m \in {t} \X (1 .. f[t])
    BY DEF Marks
  <2>2. f[t] \in Int /\ g[t] \in Int /\ f[t] <= g[t]
    BY DEF Counter
  <2>3. m \in {t} \X (1 .. g[t])
    BY <2>1, <2>2
  <2> QED
    BY <2>3 DEF Marks
<1>2. Marks(f) \in SUBSET Marks(g)
  BY <1>1
<1> QED
  BY <1>2, MarksFinite, FS_Subset DEF Count, Marks

\* One more event is one more.
LEMMA CountAdds ==
    ASSUME NEW f \in Counter, NEW t \in Times, NEW g \in Counter,
           g = [f EXCEPT ![t] = @ + 1]
    PROVE  Count(g) = Count(f) + 1
<1> DEFINE new == <<t, f[t] + 1>>
<1>1. \A u \in Times : f[u] \in Nat /\ g[u] \in Nat /\ g[u] = IF u = t THEN f[u] + 1 ELSE f[u]
  BY DEF Counter
<1>2. new \notin Marks(f)
  BY <1>1, MarksAre
<1>3. ASSUME NEW m \in Marks(g) PROVE m \in Marks(f) \cup {new}
  <2>1. PICK u \in Times : m \in {u} \X (1 .. g[u])
    BY DEF Marks
  <2>2. PICK k \in 1 .. g[u] : m = <<u, k>>
    BY <2>1
  <2>3. CASE k \in 1 .. f[u]
    BY <2>2, <2>3, MarksAre
  <2>4. CASE k \notin 1 .. f[u]
    BY <1>1, <2>2, <2>4
  <2> QED
    BY <2>3, <2>4
<1>4. ASSUME NEW m \in Marks(f) PROVE m \in Marks(g)
  <2>1. PICK u \in Times : m \in {u} \X (1 .. f[u])
    BY DEF Marks
  <2>2. m \in {u} \X (1 .. g[u])
    BY <1>1, <2>1
  <2> QED
    BY <2>2 DEF Marks
<1>5. new \in Marks(g)
  <2>1. f[t] + 1 \in 1 .. g[t]
    BY <1>1
  <2>2. new \in {t} \X (1 .. g[t])
    BY <2>1
  <2> QED
    BY <2>2 DEF Marks
<1>6. Marks(g) = Marks(f) \cup {new}
  BY <1>3, <1>4, <1>5
<1>7. Cardinality(Marks(f) \cup {new}) = Cardinality(Marks(f)) + 1
  BY <1>2, MarksFinite, FS_AddElement
<1> QED
  BY <1>6, <1>7 DEF Count, Marks

LEMMA CountOfNone ==
    ASSUME NEW f \in Counter, \A t \in Times : f[t] = 0
    PROVE  Count(f) = 0
<1>1. Marks(f) = {}
  BY DEF Marks
<1> QED
  BY <1>1, FS_EmptySet DEF Count, Marks

-----------------------------------------------------------------------------
(***************************************************************************)
(* Types.                                                                  *)
(***************************************************************************)

Reputation == [score : Int, updated : Nat, listed : Nat, permanent : BOOLEAN]

LEMMA DecayedTyped ==
    ASSUME NEW r \in Reputation
    PROVE  Decayed(r) \subseteq Int
<1>0. r.score \in Int
  BY DEF Reputation
<1>1. CASE r.score < 0
  <2> DEFINE h == -((-r.score) \div 2)
  <2>1. h \in Int
    BY <1>0
  <2> HIDE DEF h
  <2>2. (r.score .. h) \subseteq Int
    BY <1>0, <2>1
  <2> QED
    BY <1>0, <1>1, <2>2 DEF Decayed, h
<1>2. CASE ~(r.score < 0)
  <2> DEFINE h == r.score \div 2
  <2>1. h \in Int
    BY <1>0
  <2> HIDE DEF h
  <2>2. (h .. r.score) \subseteq Int
    BY <1>0, <2>1
  <2> QED
    BY <1>0, <1>2, <2>2 DEF Decayed, h
<1> QED
  BY <1>1, <1>2

\* An event changes the score, and may put the peer on the list, from now on.
LEMMA ScoredTyped ==
    ASSUME now \in Nat, NEW r \in Reputation, NEW e \in Events, NEW x \in Scored(r, e)
    PROVE  /\ x \in Reputation
           /\ x.listed \in {r.listed, now + TempSpan}
<1>1. /\ Delta[e] \in Int /\ PermLimit \in Int /\ TempLimit \in Int /\ TempSpan \in Nat
      /\ r.score \in Int /\ r.listed \in Nat /\ r.permanent \in BOOLEAN
  BY IngestAssumption DEF Reputation
<1>2. Decayed(r) \subseteq Int
  BY DecayedTyped
<1>3. PICK v \in Decayed(r) :
        x = [score |-> v + Delta[e],
             updated |-> now,
             permanent |-> r.permanent \/ v + Delta[e] < PermLimit,
             listed |-> IF ~r.permanent /\ PermLimit <= v + Delta[e] /\ v + Delta[e] < TempLimit
                            /\ r.listed = Never
                        THEN now + TempSpan ELSE r.listed]
  BY DEF Scored
<1>4. v + Delta[e] \in Int
  BY <1>1, <1>2
<1>5. /\ x.score = v + Delta[e] /\ x.updated = now
      /\ x.permanent = (r.permanent \/ v + Delta[e] < PermLimit)
      /\ x.listed \in {r.listed, now + TempSpan}
      /\ DOMAIN x = {"score", "updated", "permanent", "listed"}
  BY <1>3
<1>6. x.listed \in Nat
  BY <1>1, <1>5
<1>7. x \in Reputation
  BY <1>1, <1>3, <1>4, <1>6 DEF Reputation
<1> QED
  BY <1>5, <1>7

LEMMA IngestInitTyped == Init => TypeOK
<1> SUFFICES ASSUME Init PROVE TypeOK
  OBVIOUS
<1>1. 1 \in Times /\ 0 \in 0 .. MaxResets /\ 0 \in Nat /\ Fresh \in Reputation
  BY IngestAssumption DEF Times, Fresh, Never, Reputation
<1>2. None \in [Times -> Nat] /\ Empty \in [stamp : Nat, index : Int]
  BY DEF None, Empty
<1>3. [p \in Posts |-> 0] \in [Posts -> Nat]
  OBVIOUS
<1>4. [p \in Posts |-> "idle"] \in [Posts -> {"idle", "verifying", "mining"}]
  OBVIOUS
<1> QED
  BY <1>1, <1>2, <1>3, <1>4, Zenon DEF Init, TypeOK, Never, Reputation

\* What the limiter does with its list leaves a list.
LEMMA LimiterTyped ==
    ASSUME TypeOK
    PROVE  /\ Pruned(times) \in Counter
           /\ Recorded(times) \in Counter
           /\ now \in Nat /\ now + Window \in Nat
<1>1. times \in Counter /\ now \in Times
  BY DEF TypeOK, Counter
<1>2. now \in Nat /\ now + Window \in Nat
  BY <1>1, IngestAssumption DEF Times
<1>3. Pruned(times) \in Counter
  BY <1>1 DEF Pruned, Counter
<1>4. \A f : f \in Counter => [f EXCEPT ![now] = @ + 1] \in Counter
  BY <1>1 DEF Counter
<1> QED
  BY <1>2, <1>3, <1>4 DEF Recorded

\* A POST whose checks are over.
LEMMA AdmitTyped ==
    ASSUME TypeOK, NEW p \in Posts, NEW r \in Reputation, NEW valid \in BOOLEAN,
           Admit(p, r, valid)
    PROVE  /\ times' \in Counter /\ accepted' \in Counter
           /\ rep' \in Reputation
           /\ rep'.listed \in {r.listed, now + TempSpan}
           /\ at' \in [Posts -> {"idle", "verifying", "mining"}]
           /\ mined' \in [Posts -> Nat]
           /\ cache' \in [stamp : Nat, index : Int]
           /\ unfit' \in BOOLEAN
           /\ at'[p] # "verifying"
           /\ \A q \in Posts \ {p} : at'[q] = at[q]
<1> USE DEF TypeOK
<1>1. times' \in Counter /\ accepted' \in Counter
  BY LimiterTyped DEF Admit, Counter
<1>2. CASE valid
  <2>1. rep' \in Scored(r, "VALID") /\ HandOut(p)
    BY <1>2 DEF Admit
  <2>2. rep' \in Reputation /\ rep'.listed \in {r.listed, now + TempSpan}
    BY <2>1, LimiterTyped, ScoredTyped DEF Events
  <2>3. WindowOf(now) \in Nat
    BY LimiterTyped, WindowsAreNumbers
  <2>4. /\ unfit' \in BOOLEAN /\ cache' \in [stamp : Nat, index : Int]
        /\ mined' \in [Posts -> Nat]
    <3>1. \/ mined' = mined /\ cache' = cache /\ unfit' = (unfit \/ ~Verifies(cache.stamp))
          \/ mined' = [mined EXCEPT ![p] = WindowOf(now)] /\ cache' = cache /\ unfit' = unfit
      BY <2>1, Zenon DEF HandOut
    <3>2. unfit' \in BOOLEAN
      BY <3>1, Zenon
    <3>3. mined' \in [Posts -> Nat]
      BY <2>3, <3>1
    <3> QED
      BY <3>1, <3>2, <3>3, Zenon
  <2>5. PICK s \in {"idle", "mining"} : at' = [at EXCEPT ![p] = s]
    BY <2>1, Zenon DEF HandOut
  <2> QED
    BY <1>1, <2>2, <2>4, <2>5
<1>3. CASE ~valid
  <2>1. /\ rep' \in UNION {Scored(x, "INVALID") : x \in Scored(r, "VALID")}
        /\ at' = [at EXCEPT ![p] = "idle"]
        /\ UNCHANGED stampVars
    BY <1>3 DEF Admit
  <2>2. PICK x \in Scored(r, "VALID") : rep' \in Scored(x, "INVALID")
    BY <2>1
  <2>3. x \in Reputation /\ x.listed \in {r.listed, now + TempSpan}
    BY <2>2, LimiterTyped, ScoredTyped DEF Events
  <2>4. rep' \in Reputation /\ rep'.listed \in {x.listed, now + TempSpan}
    BY <2>2, <2>3, LimiterTyped, ScoredTyped DEF Events
  <2> QED
    BY <1>1, <2>1, <2>3, <2>4 DEF stampVars
<1> QED
  BY <1>2, <1>3

LEMMA UnlistedTyped ==
    ASSUME TypeOK
    PROVE  Unlisted \in Reputation /\ Unlisted.listed = Never
BY DEF TypeOK, Unlisted, Reputation, Never

\* Every step keeps the types.
LEMMA IngestNextTyped == TypeOK /\ [Next]_vars => TypeOK'
<1> SUFFICES ASSUME TypeOK, [Next]_vars PROVE TypeOK'
  OBVIOUS
<1> USE DEF TypeOK, limiterVars, stampVars
<1>0. /\ now \in Nat /\ now + Window \in Nat /\ Never \in Nat
      /\ Pruned(times) \in [Times -> Nat]
      /\ Unlisted \in Reputation
  BY LimiterTyped, UnlistedTyped DEF Never, Counter
<1>1. ASSUME NEW p \in Posts, Blacklisted(p) PROVE TypeOK'
  BY <1>0, <1>1 DEF Blacklisted
<1>2. ASSUME NEW p \in Posts, Oversized(p) PROVE TypeOK'
  <2>1. rep' \in Reputation
    BY <1>0, <1>2, ScoredTyped DEF Oversized, Events
  <2> QED
    BY <1>0, <1>2, <2>1 DEF Oversized, Attempt, Reputation
<1>3. ASSUME NEW p \in Posts, TooMany(p) PROVE TypeOK'
  <2>1. rep' \in Reputation
    BY <1>0, <1>3, ScoredTyped DEF TooMany, Events
  <2> QED
    BY <1>0, <1>3, <2>1 DEF TooMany, Attempt, Reputation
<1>4. ASSUME NEW p \in Posts, Verify(p) PROVE TypeOK'
  BY <1>0, <1>4 DEF Verify, Attempt, Checked, Reputation
<1>5. ASSUME NEW p \in Posts, Unsigned(p) PROVE TypeOK'
  BY <1>0, <1>5 DEF Unsigned, Attempt, Checked, Reputation
<1>6. ASSUME NEW p \in Posts, Unstamped(p) PROVE TypeOK'
  BY <1>0, <1>6 DEF Unstamped
<1>7. ASSUME NEW p \in Posts, NEW valid \in BOOLEAN, Pass(p, valid) PROVE TypeOK'
  BY <1>0, <1>7, AdmitTyped DEF Pass, Attempt, Reputation, Counter
<1>8. ASSUME NEW p \in Posts, NEW valid \in BOOLEAN, Verified(p, valid) PROVE TypeOK'
  BY <1>0, <1>8, AdmitTyped DEF Verified, Reputation, Counter
<1>9. ASSUME NEW p \in Posts, Mined(p) PROVE TypeOK'
  <2>1. WindowOf(now) \in Nat
    BY <1>0, WindowsAreNumbers
  <2> QED
    BY <1>9, <2>1 DEF Mined
<1>10. CASE Report
  <2>1. PICK s \in Decayed(rep) :
          rep' = [rep EXCEPT !.score = s,
                             !.updated = IF rep.score = 0 THEN @ ELSE now,
                             !.listed = IF Listed THEN @ ELSE Never]
    BY <1>10 DEF Report
  <2>2. s \in Int
    <3>1. rep \in Reputation
      BY DEF Reputation
    <3> QED
      BY <3>1, DecayedTyped
  <2>3. rep' \in Reputation
    BY <1>0, <2>1, <2>2 DEF Reputation
  <2> QED
    BY <1>10, <2>3 DEF Report, Reputation
<1>11. CASE Clear
  <2>1. resets' \in 0 .. MaxResets
    BY <1>11, IngestAssumption DEF Clear
  <2>2. rep' = [score |-> 0, updated |-> now, listed |-> 0, permanent |-> FALSE]
    BY <1>11 DEF Clear, Fresh, Never
  <2>3. None \in [Times -> Nat]
    BY DEF None
  <2> QED
    <3>1. rep' \in [score : Int, updated : Nat, listed : Nat, permanent : BOOLEAN]
      BY <1>0, <2>2
    <3>2. /\ times' = None /\ accepted' = None /\ bannedUntil' = Never
          /\ UNCHANGED <<now, require, at, mined, cache, unfit, seen>>
      BY <1>11 DEF Clear
    <3> QED
      BY <1>0, <2>1, <2>3, <3>1, <3>2
<1>12. CASE Restart
  <2>1. resets' \in 0 .. MaxResets
    BY <1>12, IngestAssumption DEF Restart
  <2> QED
    BY <1>0, <1>12, <2>1 DEF Restart, Fresh, None, Never, Empty
<1>13. CASE Tick
  <2>1. now' \in Times
    BY <1>13, IngestAssumption DEF Tick, Times
  <2> QED
    BY <1>13, <2>1 DEF Tick
<1>14. CASE UNCHANGED vars
  BY <1>14 DEF vars
<1> QED
  BY <1>1, <1>2, <1>3, <1>4, <1>5, <1>6, <1>7, <1>8, <1>9, <1>10, <1>11, <1>12,
     <1>13, <1>14 DEF Next

-----------------------------------------------------------------------------
(***************************************************************************)
(* What a window sees.                                                     *)
(***************************************************************************)

Within(f, t) == [u \in Times |-> IF t - Window <= u /\ u <= t THEN f[u] ELSE 0]
Verifying    == {p \in Posts : at[p] = "verifying"}
Room         == Max + Cardinality(Posts) - 1

\* The limiter has what was accepted in its window, and each POST between
\* check() and record() has a place kept for it.
LimitInv ==
    /\ TypeOK
    /\ \A u \in Times : now - Window <= u => times[u] = accepted[u]
    /\ \A u \in Times : now < u => accepted[u] = 0
    /\ Count(AcceptedBy(now)) + Cardinality(Verifying) <= Room
    /\ WindowLimit

LEMMA TimesAreNumbers == Times \subseteq Nat /\ Window \in Nat \ {0} /\ Max \in Nat \ {0}
BY IngestAssumption DEF Times

LEMMA WithinTyped ==
    ASSUME NEW f \in Counter, NEW t
    PROVE  Within(f, t) \in Counter
BY DEF Within, Counter

LEMMA WithinNone ==
    ASSUME NEW f \in Counter, \A u \in Times : f[u] = 0, NEW t
    PROVE  Count(Within(f, t)) = 0
<1>1. \A u \in Times : Within(f, t)[u] = 0
  BY DEF Within
<1> QED
  BY <1>1, WithinTyped, CountOfNone

\* A window that ends later sees no more, as long as nothing is accepted later.
LEMMA LaterSeesLess ==
    ASSUME NEW f \in Counter, NEW n \in Times, NEW t \in Times, n <= t,
           \A u \in Times : n < u => f[u] = 0
    PROVE  Count(Within(f, t)) <= Count(Within(f, n))
<1>1. ASSUME NEW u \in Times PROVE Within(f, t)[u] <= Within(f, n)[u]
  <2>1. /\ u \in Nat /\ t \in Nat /\ n \in Nat /\ Window \in Nat
        /\ f[u] \in Nat
    BY TimesAreNumbers DEF Counter
  <2>2. n < u => f[u] = 0
    OBVIOUS
  <2>3. t - Window <= u => n - Window <= u
    BY <2>1
  <2> QED
    BY <2>1, <2>2, <2>3 DEF Within
<1> QED
  BY <1>1, WithinTyped, CountMono

\* What the limiter counts is what was accepted.
LEMMA PrunedIsAccepted ==
    ASSUME LimitInv
    PROVE  Pruned(times) = Within(accepted, now)
<1>1. ASSUME NEW u \in Times PROVE Pruned(times)[u] = Within(accepted, now)[u]
  <2>1. u \in Nat /\ now \in Nat /\ Window \in Nat
    BY TimesAreNumbers DEF LimitInv, TypeOK
  <2>2. /\ now - Window <= u => times[u] = accepted[u]
        /\ now < u => accepted[u] = 0
    BY DEF LimitInv
  <2> QED
    BY <2>1, <2>2 DEF Pruned, Within
<1> QED
  BY <1>1 DEF Pruned, Within

LEMMA Accepted ==
    ASSUME LimitInv
    PROVE  /\ accepted \in Counter /\ times \in Counter /\ now \in Times
           /\ Count(Within(accepted, now)) \in Nat
           /\ Count(Within(accepted, now)) + Cardinality(Verifying) <= Room
           /\ \A t \in Times : Count(Within(accepted, t)) <= Room
           /\ IsFiniteSet(Posts) /\ Cardinality(Posts) \in Nat /\ Room \in Int
           /\ IsFiniteSet(Verifying) /\ Cardinality(Verifying) \in Nat
<1>1. accepted \in Counter /\ times \in Counter /\ now \in Times
  BY DEF LimitInv, TypeOK, Counter
<1>2. Count(Within(accepted, now)) \in Nat
  BY <1>1, WithinTyped, CountIsNat
<1>3. IsFiniteSet(Posts) /\ Cardinality(Posts) \in Nat
  BY IngestAssumption, FS_CardinalityType
<1>4. IsFiniteSet(Verifying) /\ Cardinality(Verifying) \in Nat
  <2>1. Verifying \in SUBSET Posts
    BY DEF Verifying
  <2> QED
    BY <1>3, <2>1, FS_Subset, FS_CardinalityType
<1>5. Room \in Int
  BY <1>3, TimesAreNumbers DEF Room
<1> QED
  BY <1>1, <1>2, <1>3, <1>4, <1>5 DEF LimitInv, AcceptedBy, Within, WindowLimit, Room

\* Steps that accept nothing and bring no POST past check().
LEMMA LimiterLeftAlone ==
    ASSUME LimitInv, TypeOK', accepted' = accepted, now' = now,
           times' \in {times, Pruned(times)}, Verifying' \subseteq Verifying
    PROVE  LimitInv'
<1>1. Cardinality(Verifying') <= Cardinality(Verifying) /\ Cardinality(Verifying') \in Nat
  <2>1. Verifying' \in SUBSET Verifying
    OBVIOUS
  <2> QED
    BY <2>1, Accepted, FS_Subset, FS_CardinalityType
<1>2. ASSUME NEW u \in Times, now - Window <= u PROVE times'[u] = times[u]
  <2>1. u \in Nat /\ now \in Nat /\ Window \in Nat
    BY TimesAreNumbers, Accepted
  <2> QED
    BY <1>2, <2>1 DEF Pruned
<1>3. AcceptedBy(now)' = AcceptedBy(now) /\ WindowLimit'
  BY DEF AcceptedBy, WindowLimit, LimitInv
<1>4. Count(AcceptedBy(now)) \in Nat /\ Count(AcceptedBy(now)) + Cardinality(Verifying) <= Room
  BY Accepted DEF AcceptedBy, Within
<1>5. Count(AcceptedBy(now)') + Cardinality(Verifying') <= Room
  BY <1>1, <1>3, <1>4, Accepted
<1>6. Count(AcceptedBy(now))' = Count(AcceptedBy(now)')
  BY DEF Count
<1> QED
  BY <1>2, <1>3, <1>5, <1>6 DEF LimitInv, Room

\* A POST passes check() and waits.
LEMMA VerifyKeeps ==
    ASSUME LimitInv, TypeOK', NEW p \in Posts, Verify(p)
    PROVE  LimitInv'
<1>1. /\ accepted' = accepted /\ now' = now /\ Allowed
      /\ times' \in {times, Pruned(times)}
  BY DEF Verify, Attempt, Checked
<1>2. Cardinality(Verifying') <= Cardinality(Posts) /\ Cardinality(Verifying') \in Nat
  <2>1. Verifying' \in SUBSET Posts
    BY DEF Verifying
  <2> QED
    BY <2>1, Accepted, FS_Subset, FS_CardinalityType
<1>3. Count(Within(accepted, now)) < Max
  BY <1>1, PrunedIsAccepted DEF Allowed
<1>4. ASSUME NEW u \in Times, now - Window <= u PROVE times'[u] = times[u]
  <2>1. u \in Nat /\ now \in Nat /\ Window \in Nat
    BY TimesAreNumbers, Accepted
  <2> QED
    BY <1>1, <1>4, <2>1 DEF Pruned
<1>5. AcceptedBy(now)' = Within(accepted, now) /\ WindowLimit'
  BY <1>1 DEF AcceptedBy, Within, WindowLimit, LimitInv
<1>6. Count(Within(accepted, now)) + Cardinality(Verifying') <= Room
  BY <1>2, <1>3, TimesAreNumbers, Accepted DEF Room
<1>7. Count(AcceptedBy(now))' = Count(AcceptedBy(now)')
  BY DEF Count
<1> QED
  BY <1>1, <1>4, <1>5, <1>6, <1>7 DEF LimitInv, Room

\* A POST is recorded: one that check() let through just now, or that had a
\* place kept for it.
LEMMA RecordKeeps ==
    ASSUME LimitInv, TypeOK', NEW p \in Posts, now' = now,
           times' = Recorded(times), accepted' = [accepted EXCEPT ![now] = @ + 1],
           Verifying' \subseteq Verifying \ {p},
           Allowed \/ p \in Verifying
    PROVE  LimitInv'
<1> DEFINE old == Within(accepted, now)
           new == Within(accepted', now)
<1>1. /\ accepted \in Counter /\ times \in Counter /\ now \in Times /\ now \in Nat
      /\ Window \in Nat \ {0} /\ Times \subseteq Nat
      /\ accepted' \in Counter
  BY Accepted, TimesAreNumbers DEF TypeOK, Counter
<1>2. /\ \A u \in Times \ {now} : accepted'[u] = accepted[u]
      /\ accepted'[now] = accepted[now] + 1
  BY <1>1 DEF Counter
<1>3. \A u \in Times : now < u => accepted'[u] = 0
  BY <1>1, <1>2 DEF LimitInv
<1>4. ASSUME NEW u \in Times, now - Window <= u PROVE times'[u] = accepted'[u]
  <2>1. Pruned(times)[u] = accepted[u] /\ u \in Nat
    BY <1>1, <1>4 DEF Pruned, LimitInv
  <2>2. times'[u] = IF u = now THEN Pruned(times)[u] + 1 ELSE Pruned(times)[u]
    BY <1>1 DEF Recorded, Pruned
  <2> QED
    BY <1>2, <2>1, <2>2
<1>5. Count(new) = Count(old) + 1
  <2>1. old \in Counter /\ new \in Counter
    BY <1>1, WithinTyped
  <2>2. old[now] = accepted[now]
    BY <1>1 DEF Within
  <2>3. new = [old EXCEPT ![now] = @ + 1]
    <3>1. ASSUME NEW u \in Times PROVE new[u] = IF u = now THEN old[u] + 1 ELSE old[u]
      BY <1>1, <1>2 DEF Within
    <3> QED
      BY <1>1, <3>1 DEF Within
  <2> HIDE DEF old, new
  <2> QED
    BY <1>1, <2>1, <2>3, CountAdds
<1>6. Count(new) + Cardinality(Verifying') <= Room
  <2>1. /\ Count(old) \in Nat /\ Cardinality(Verifying) \in Nat /\ Cardinality(Posts) \in Nat
        /\ Count(old) + Cardinality(Verifying) <= Room
        /\ IsFiniteSet(Posts) /\ IsFiniteSet(Verifying)
    BY Accepted
  <2>2. CASE Allowed
    <3>1. Count(old) < Max
      BY <2>2, PrunedIsAccepted DEF Allowed
    <3>2. Verifying' \in SUBSET (Posts \ {p})
      BY DEF Verifying
    <3>3. Cardinality(Posts \ {p}) = Cardinality(Posts) - 1 /\ IsFiniteSet(Posts \ {p})
      BY <2>1, FS_RemoveElement
    <3>4. Cardinality(Verifying') <= Cardinality(Posts) - 1 /\ Cardinality(Verifying') \in Nat
      BY <3>2, <3>3, FS_Subset, FS_CardinalityType
    <3> QED
      BY <1>5, <2>1, <3>1, <3>4, TimesAreNumbers DEF Room
  <2>3. CASE p \in Verifying
    <3>1. Verifying' \in SUBSET (Verifying \ {p})
      OBVIOUS
    <3>2. Cardinality(Verifying \ {p}) = Cardinality(Verifying) - 1 /\ IsFiniteSet(Verifying \ {p})
      BY <2>1, <2>3, FS_RemoveElement
    <3>3. Cardinality(Verifying') <= Cardinality(Verifying) - 1 /\ Cardinality(Verifying') \in Nat
      BY <3>1, <3>2, FS_Subset, FS_CardinalityType
    <3> QED
      BY <1>5, <2>1, <3>3, Accepted
  <2> QED
    BY <2>2, <2>3
<1>7. Count(new) <= Room
  <2>1. Count(new) \in Nat /\ Cardinality(Verifying') \in Nat /\ Room \in Int
    <3>1. Verifying' \in SUBSET Verifying
      OBVIOUS
    <3> QED
      BY <1>1, <3>1, WithinTyped, CountIsNat, Accepted, FS_Subset, FS_CardinalityType
  <2> QED
    BY <1>6, <2>1
<1>8. ASSUME NEW t \in Times PROVE Count(Within(accepted', t)) <= Room
  <2>1. CASE now <= t
    <3>1. Count(Within(accepted', t)) <= Count(new)
      BY <1>1, <1>3, <2>1, LaterSeesLess
    <3>2. Count(new) \in Nat /\ Count(Within(accepted', t)) \in Nat /\ Room \in Int
      BY <1>1, WithinTyped, CountIsNat, Accepted
    <3> QED
      BY <1>7, <3>1, <3>2
  <2>2. CASE ~(now <= t)
    <3>1. Within(accepted', t) = Within(accepted, t)
      <4>1. ASSUME NEW u \in Times PROVE Within(accepted', t)[u] = Within(accepted, t)[u]
        BY <1>1, <1>2, <2>2 DEF Within
      <4> QED
        BY <4>1 DEF Within
    <3> QED
      BY <3>1, Accepted
  <2> QED
    BY <2>1, <2>2
<1>9. \A t \in Times : AcceptedBy(t)' = Within(accepted', t) /\ Count(AcceptedBy(t))' = Count(AcceptedBy(t)')
  BY DEF AcceptedBy, Within, Count
<1>10. WindowLimit'
  BY <1>8, <1>9 DEF WindowLimit, Room
<1>11. Count(AcceptedBy(now))' = Count(new)
  BY DEF AcceptedBy, Within, Count
<1> QED
  BY <1>3, <1>4, <1>6, <1>10, <1>11 DEF LimitInv, Room

\* Nothing is counted any more, and nothing counts as accepted.
LEMMA ForgetKeeps ==
    ASSUME LimitInv, TypeOK', now' = now, times' = None, accepted' = None
    PROVE  LimitInv'
<1>1. None \in Counter /\ \A u \in Times : None[u] = 0
  BY DEF None, Counter
<1>2. \A t : Count(Within(None, t)) = 0
  BY <1>1, WithinNone
<1>3. /\ Cardinality(Verifying') <= Cardinality(Posts) /\ Cardinality(Verifying') \in Nat
      /\ Cardinality(Posts) \in Nat
  <2>1. Verifying' \in SUBSET Posts
    BY DEF Verifying
  <2> QED
    BY <2>1, Accepted, FS_Subset, FS_CardinalityType
<1>4. \A t : Count(AcceptedBy(t))' = Count(Within(None, t))
  BY DEF AcceptedBy, Within, Count
<1>5. Count(AcceptedBy(now))' = 0
  BY <1>2 DEF AcceptedBy, Within, Count
<1>6. 0 + Cardinality(Verifying') <= Room /\ 0 <= Room
  BY <1>3, TimesAreNumbers DEF Room
<1>7. WindowLimit'
  BY <1>2, <1>4, <1>6 DEF WindowLimit, Room
<1> QED
  BY <1>1, <1>5, <1>6, <1>7 DEF LimitInv, Room

\* A window that ends when the clock has moved on sees no more.
LEMMA TickKeeps ==
    ASSUME LimitInv, TypeOK', Tick
    PROVE  LimitInv'
<1>1. /\ now \in Times /\ now' \in Times /\ now' = now + 1 /\ now \in Nat
      /\ times' = times /\ accepted' = accepted /\ at' = at
  BY TimesAreNumbers DEF Tick, limiterVars, TypeOK, LimitInv
<1>2. Count(AcceptedBy(now))' = Count(Within(accepted, now'))
  BY <1>1 DEF AcceptedBy, Within, Count
<1>3. Count(Within(accepted, now')) <= Count(Within(accepted, now))
  BY <1>1, LaterSeesLess, Accepted DEF LimitInv
<1>4. Verifying' = Verifying
  BY <1>1 DEF Verifying
<1>5. Count(Within(accepted, now')) + Cardinality(Verifying) <= Room
  BY <1>1, <1>3, Accepted, WithinTyped, CountIsNat
<1>6. WindowLimit'
  BY <1>1 DEF WindowLimit, AcceptedBy, LimitInv
<1>7. ASSUME NEW u \in Times
      PROVE  /\ now' - Window <= u => times'[u] = accepted'[u]
             /\ now' < u => accepted'[u] = 0
  BY <1>1, TimesAreNumbers DEF LimitInv
<1> QED
  BY <1>2, <1>4, <1>5, <1>6, <1>7 DEF LimitInv, Room

LEMMA LimitStep == LimitInv /\ [Next]_vars => LimitInv'
<1> SUFFICES ASSUME LimitInv, [Next]_vars PROVE LimitInv'
  OBVIOUS
<1>0. TypeOK /\ TypeOK' /\ at \in [Posts -> {"idle", "verifying", "mining"}]
  BY IngestNextTyped DEF LimitInv, TypeOK
<1>1. ASSUME NEW p \in Posts, Blacklisted(p) \/ Oversized(p) \/ TooMany(p) \/ Unsigned(p)
      PROVE  LimitInv'
  <2>1. /\ accepted' = accepted /\ now' = now /\ at' = at
        /\ times' \in {times, Pruned(times)}
    BY <1>1 DEF Blacklisted, Oversized, TooMany, Unsigned, Attempt, Checked, limiterVars
  <2> QED
    BY <1>0, <2>1, LimiterLeftAlone DEF Verifying
<1>2. ASSUME NEW p \in Posts, Verify(p) PROVE LimitInv'
  BY <1>0, <1>2, VerifyKeeps
<1>3. ASSUME NEW p \in Posts, Unstamped(p) \/ Mined(p) PROVE LimitInv'
  <2>1. /\ accepted' = accepted /\ now' = now /\ times' = times
        /\ at' = [at EXCEPT ![p] = "idle"]
    BY <1>3 DEF Unstamped, Mined, limiterVars
  <2> QED
    BY <1>0, <2>1, LimiterLeftAlone DEF Verifying
<1>4. ASSUME NEW p \in Posts, NEW valid \in BOOLEAN, Pass(p, valid) PROVE LimitInv'
  <2>1. /\ Allowed /\ now' = now /\ times' = Recorded(times)
        /\ accepted' = [accepted EXCEPT ![now] = @ + 1]
    BY <1>4 DEF Pass, Attempt, Admit
  <2>2. Unlisted \in Reputation /\ Admit(p, Unlisted, valid)
    BY <1>0, <1>4, UnlistedTyped DEF Pass
  <2>3. at'[p] # "verifying" /\ \A q \in Posts \ {p} : at'[q] = at[q]
    BY <1>0, <2>2, AdmitTyped
  <2> QED
    BY <1>0, <2>1, <2>3, RecordKeeps DEF Verifying
<1>5. ASSUME NEW p \in Posts, NEW valid \in BOOLEAN, Verified(p, valid) PROVE LimitInv'
  <2>1. /\ now' = now /\ times' = Recorded(times)
        /\ accepted' = [accepted EXCEPT ![now] = @ + 1]
        /\ at[p] = "verifying"
    BY <1>5 DEF Verified, Admit
  <2>2. rep \in Reputation /\ Admit(p, rep, valid)
    BY <1>0, <1>5 DEF Verified, TypeOK, Reputation
  <2>3. at'[p] # "verifying" /\ \A q \in Posts \ {p} : at'[q] = at[q]
    BY <1>0, <2>2, AdmitTyped
  <2> QED
    BY <1>0, <2>1, <2>3, RecordKeeps DEF Verifying
<1>6. CASE Report
  <2>1. accepted' = accepted /\ now' = now /\ times' = times /\ at' = at
    BY <1>6 DEF Report, limiterVars
  <2> QED
    BY <1>0, <2>1, LimiterLeftAlone DEF Verifying
<1>7. CASE Clear \/ Restart
  BY <1>0, <1>7, ForgetKeeps DEF Clear, Restart
<1>8. CASE Tick
  BY <1>0, <1>8, TickKeeps
<1>9. CASE UNCHANGED vars
  BY <1>0, <1>9, LimiterLeftAlone DEF vars, limiterVars, Verifying
<1> QED
  BY <1>1, <1>2, <1>3, <1>4, <1>5, <1>6, <1>7, <1>8, <1>9 DEF Next

-----------------------------------------------------------------------------
(***************************************************************************)
(* How long the peer is remembered.                                        *)
(***************************************************************************)

\* Nothing that is held against the peer lasts longer than its span, told from
\* the last time that the peer did anything.
QuietInv ==
    /\ seen <= now
    /\ \A u \in Times : times[u] # 0 => u <= seen
    /\ bannedUntil <= seen + Window
    /\ rep.listed # Never => rep.listed <= seen + TempSpan

LEMMA QuietNumbers ==
    ASSUME TypeOK
    PROVE  /\ now \in Nat /\ seen \in Nat /\ bannedUntil \in Nat /\ rep.listed \in Nat
           /\ Window \in Nat \ {0} /\ TempSpan \in Nat \ {0} /\ Times \subseteq Nat
BY IngestAssumption DEF TypeOK, Times

\* What the peer does starts its spans anew.
LEMMA SeenNow ==
    ASSUME TypeOK, TypeOK', QuietInv, now' = now, seen' = now,
           times' \in {times, Pruned(times), Recorded(times)},
           bannedUntil' \in {bannedUntil, Never, now + Window},
           rep'.listed \in {rep.listed, Never, now + TempSpan}
    PROVE  QuietInv'
<1>1. ASSUME NEW u \in Times, times'[u] # 0 PROVE u <= seen'
  <2>1. CASE u = now
    BY <2>1, QuietNumbers
  <2>2. CASE u # now
    <3>1. times'[u] \in {times[u], Pruned(times)[u]}
      BY <2>2, LimiterTyped DEF Recorded, Counter
    <3>2. Pruned(times)[u] \in {0, times[u]}
      BY DEF Pruned
    <3> QED
      BY <1>1, <3>1, <3>2, QuietNumbers DEF QuietInv
  <2> QED
    BY <2>1, <2>2
<1>2. bannedUntil' <= now + Window
  BY QuietNumbers DEF QuietInv, Never
<1>3. rep'.listed # Never => rep'.listed <= now + TempSpan
  BY QuietNumbers DEF QuietInv
<1>4. now <= now
  BY QuietNumbers
<1> QED
  BY <1>1, <1>2, <1>3, <1>4 DEF QuietInv

\* And what others do prolongs none.
LEMMA NotSeen ==
    ASSUME TypeOK, TypeOK', QuietInv, now' = now, seen' = seen,
           times' \in {times, None},
           bannedUntil' \in {bannedUntil, Never},
           rep'.listed \in {rep.listed, Never}
    PROVE  QuietInv'
<1>1. ASSUME NEW u \in Times, times'[u] # 0 PROVE u <= seen'
  BY <1>1 DEF QuietInv, None
<1>2. bannedUntil' <= seen + Window
  BY QuietNumbers DEF QuietInv, Never
<1> QED
  BY <1>1, <1>2 DEF QuietInv

\* Whom an event lists.
LEMMA ScoredListed ==
    ASSUME TypeOK, NEW r \in Reputation, r.listed \in {rep.listed, Never, now + TempSpan},
           NEW e \in Events, NEW x \in Scored(r, e)
    PROVE  x.listed \in {rep.listed, Never, now + TempSpan}
BY QuietNumbers, ScoredTyped

LEMMA QuietStep == TypeOK /\ QuietInv /\ [Next]_vars => QuietInv'
<1> SUFFICES ASSUME TypeOK, QuietInv, [Next]_vars PROVE QuietInv'
  OBVIOUS
<1>0. /\ TypeOK' /\ rep \in Reputation
      /\ Unlisted \in Reputation /\ Unlisted.listed = Never
      /\ now \in Nat
  BY IngestNextTyped, UnlistedTyped, QuietNumbers DEF TypeOK, Reputation
<1>1. ASSUME NEW p \in Posts, Blacklisted(p) PROVE QuietInv'
  BY <1>0, <1>1, SeenNow DEF Blacklisted, limiterVars
<1>2. ASSUME NEW p \in Posts, Oversized(p) PROVE QuietInv'
  <2>1. rep'.listed \in {rep.listed, Never, now + TempSpan}
    BY <1>0, <1>2, ScoredListed DEF Oversized, Events
  <2> QED
    BY <1>0, <1>2, <2>1, SeenNow DEF Oversized, Attempt, limiterVars
<1>3. ASSUME NEW p \in Posts, TooMany(p) PROVE QuietInv'
  <2>1. rep'.listed \in {rep.listed, Never, now + TempSpan}
    BY <1>0, <1>3, ScoredListed DEF TooMany, Events
  <2> QED
    BY <1>0, <1>3, <2>1, SeenNow DEF TooMany, Attempt
<1>4. ASSUME NEW p \in Posts, Verify(p) \/ Unsigned(p) PROVE QuietInv'
  BY <1>0, <1>4, SeenNow DEF Verify, Unsigned, Attempt, Checked
<1>5. ASSUME NEW p \in Posts, NEW r \in Reputation, r.listed \in {rep.listed, Never},
             NEW valid \in BOOLEAN, Admit(p, r, valid)
      PROVE  rep'.listed \in {rep.listed, Never, now + TempSpan} /\ times' = Recorded(times)
  <2>1. CASE valid
    BY <1>5, <2>1, ScoredListed DEF Admit, Events
  <2>2. CASE ~valid
    <3>1. PICK x \in Scored(r, "VALID") : rep' \in Scored(x, "INVALID")
      BY <1>5, <2>2 DEF Admit
    <3>2. x \in Reputation /\ x.listed \in {rep.listed, Never, now + TempSpan}
      BY <1>0, <1>5, <3>1, ScoredListed, ScoredTyped DEF Events
    <3>3. rep'.listed \in {rep.listed, Never, now + TempSpan}
      BY <3>1, <3>2, ScoredListed DEF Events
    <3> QED
      BY <1>5, <3>3 DEF Admit
  <2> QED
    BY <2>1, <2>2
<1>6. ASSUME NEW p \in Posts, NEW valid \in BOOLEAN, Pass(p, valid) PROVE QuietInv'
  BY <1>0, <1>5, <1>6, SeenNow DEF Pass, Attempt
<1>7. ASSUME NEW p \in Posts, NEW valid \in BOOLEAN, Verified(p, valid) PROVE QuietInv'
  BY <1>0, <1>5, <1>7, SeenNow DEF Verified
<1>8. ASSUME NEW p \in Posts, Unstamped(p) \/ Mined(p) PROVE QuietInv'
  BY <1>0, <1>8, NotSeen DEF Unstamped, Mined, limiterVars
<1>9. CASE Report
  <2>1. rep'.listed \in {rep.listed, Never}
    BY <1>0, <1>9 DEF Report, Reputation
  <2> QED
    BY <1>0, <1>9, <2>1, NotSeen DEF Report, limiterVars
<1>10. CASE Clear
  <2>1. rep'.listed = Never
    BY <1>10 DEF Clear, Fresh
  <2> QED
    BY <1>0, <1>10, <2>1, NotSeen DEF Clear
<1>11. CASE Restart
  <2>1. rep'.listed = Never
    BY <1>11 DEF Restart, Fresh
  <2> QED
    BY <1>0, <1>11, <2>1, NotSeen DEF Restart
<1>12. CASE Tick
  BY <1>12, QuietNumbers DEF Tick, QuietInv, limiterVars
<1>13. CASE UNCHANGED vars
  BY <1>13 DEF vars, limiterVars, QuietInv
<1> QED
  BY <1>1, <1>2, <1>3, <1>4, <1>6, <1>7, <1>8, <1>9, <1>10, <1>11, <1>12, <1>13 DEF Next

\* A quiet peer has run out of everything.
LEMMA QuietPasses ==
    ASSUME TypeOK, QuietInv
    PROVE  QuietIsLetIn
<1> SUFFICES ASSUME now - seen > Window
             PROVE  Allowed /\ (now - seen > TempSpan => (Listed => rep.permanent))
  BY DEF QuietIsLetIn
<1>1. ~Banned
  BY QuietNumbers DEF Banned, QuietInv
<1>2. ASSUME NEW u \in Times PROVE Pruned(times)[u] = 0
  BY QuietNumbers DEF Pruned, QuietInv
<1>3. Count(Pruned(times)) = 0
  BY <1>2, LimiterTyped, CountOfNone
<1>4. now - seen > TempSpan => (Listed => rep.permanent)
  BY QuietNumbers DEF Listed, QuietInv
<1> QED
  BY <1>1, <1>3, <1>4, TimesAreNumbers DEF Allowed

\* Whatever overlaps, whatever the clock, the events and the resets do: no window
\* sees more POSTs accepted than the limit and those that had passed check()
\* before, and who is quiet for long enough is let in.
THEOREM LimitsAreKept == Spec => []LimitsHold
<1>1. Init => LimitInv /\ QuietInv
  <2> SUFFICES ASSUME Init PROVE LimitInv /\ QuietInv
    OBVIOUS
  <2>1. /\ times = None /\ accepted = None /\ now = 1 /\ seen = 0 /\ bannedUntil = 0
        /\ rep.listed = Never /\ at = [p \in Posts |-> "idle"]
    BY DEF Init, Fresh, Never
  <2>2. None \in Counter /\ \A u \in Times : None[u] = 0
    BY DEF None, Counter
  <2>3. \A t : Count(Within(None, t)) = 0
    BY <2>2, WithinNone
  <2>4. \A t : Count(AcceptedBy(t)) = 0
    BY <2>1, <2>3 DEF AcceptedBy, Within
  <2>5. Verifying = {} /\ Cardinality(Verifying) = 0
    BY <2>1, FS_EmptySet DEF Verifying
  <2>6. Cardinality(Posts) \in Nat /\ Max \in Nat \ {0}
    BY IngestAssumption, FS_CardinalityType
  <2>7. LimitInv
    BY <2>1, <2>2, <2>4, <2>5, <2>6, IngestInitTyped DEF LimitInv, WindowLimit, Room
  <2>8. QuietInv
    BY <2>1, <2>2, QuietNumbers, IngestInitTyped DEF QuietInv
  <2> QED
    BY <2>7, <2>8
<1>2. LimitInv /\ QuietInv /\ [Next]_vars => (LimitInv /\ QuietInv)'
  BY LimitStep, QuietStep DEF LimitInv
<1>3. LimitInv /\ QuietInv => LimitsHold
  BY QuietPasses DEF LimitInv, LimitsHold
<1> QED
  BY <1>1, <1>2, <1>3, PTL DEF Spec

-----------------------------------------------------------------------------
(***************************************************************************)
(* Credentials and presentations.                                          *)
(***************************************************************************)

\* What credentials are made of: claims at positions.
Input(input) == DOMAIN input \subseteq Nat

\* Whatever was issued is a credential of its issuer, and whatever is shown was
\* made of it by its subject at some moment so far.
ShownInv ==
    /\ clock \in Nat
    /\ \A issued \in wallet :
          \E issuer, holder, input :
             /\ issuer \in Keys /\ holder \in Keys /\ Input(input)
             /\ issued = Issue(issuer, issuer, holder, input)
    /\ \A issued, other \in wallet : issued = other
    /\ shown # {} => wallet # {}
    /\ \A p \in shown, issued \in wallet :
          \E types, moment :
             /\ moment \in 0 .. clock
             /\ p \in Presentations(issued, types, issued.credential.body.subject,
                                    issued.credential.body.subject, moment, 0)

\* A credential as it was issued: signed by its issuer, with commitments that
\* tell the claims apart, and with the nonce of each type that one claim has.
IsCredential(issued, issuer, holder, claims) ==
    /\ issued.credential.body = [issuer |-> issuer, subject |-> holder, claims |-> claims]
    /\ issued.credential = [body |-> issued.credential.body,
                            proof |-> <<issuer, issued.credential.body>>]
    /\ \A i \in DOMAIN claims : claims[i] = [type |-> claims[i].type, value |-> claims[i].value,
                                             commitment |-> <<claims[i].type, claims[i].value, i>>]
    /\ \A i \in DOMAIN claims :
          (\A j, k \in DOMAIN claims :
                claims[j].type = claims[i].type /\ claims[k].type = claims[i].type => j = k)
            => issued.nonces[claims[i].type] = i

LEMMA IssuedFacts ==
    ASSUME NEW issuer, NEW holder, NEW input, Input(input)
    PROVE  \E claims : IsCredential(Issue(issuer, issuer, holder, input), issuer, holder, claims)
<1>1. PICK claims : claims = [i \in DOMAIN input |->
                       [type |-> input[i].type, value |-> input[i].value,
                        commitment |-> Commitment(input[i].type, input[i].value, i)]]
  OBVIOUS
<1>2. PICK body : body = [issuer |-> issuer, subject |-> holder, claims |-> claims]
  OBVIOUS
<1> DEFINE P(t, k) == /\ input[k].type = t
                      /\ \A j \in DOMAIN input : input[j].type = t => j <= k
<1>3. PICK nonces : nonces = [t \in {input[i].type : i \in DOMAIN input} |->
                                CHOOSE i \in DOMAIN input : P(t, i)]
  OBVIOUS
<1>4. PICK issued : issued = Issue(issuer, issuer, holder, input)
  OBVIOUS
<1>5. issued = [credential |-> [body |-> body, proof |-> <<issuer, body>>], nonces |-> nonces]
  BY <1>1, <1>2, <1>3, <1>4, Zenon DEF Issue
<1>6. /\ issued.credential = [body |-> body, proof |-> <<issuer, body>>]
      /\ issued.credential.body = body
      /\ issued.nonces = nonces
  BY <1>5
<1>7. /\ DOMAIN claims = DOMAIN input
      /\ \A i \in DOMAIN input : claims[i].type = input[i].type
      /\ \A i \in DOMAIN claims :
           claims[i] = [type |-> claims[i].type, value |-> claims[i].value,
                        commitment |-> <<claims[i].type, claims[i].value, i>>]
  <2>1. ASSUME NEW i \in DOMAIN input
        PROVE  claims[i] = [type |-> input[i].type, value |-> input[i].value,
                            commitment |-> <<input[i].type, input[i].value, i>>]
    BY <1>1 DEF Commitment
  <2> QED
    BY <1>1, <2>1
<1>8. ASSUME NEW i \in DOMAIN claims,
             \A j, k \in DOMAIN claims :
                claims[j].type = claims[i].type /\ claims[k].type = claims[i].type => j = k
      PROVE  nonces[claims[i].type] = i
  <2>1. PICK t : t = input[i].type /\ t = claims[i].type
    BY <1>7
  <2>2. nonces[t] = CHOOSE k \in DOMAIN input : P(t, k)
    BY <1>3, <1>7, <2>1
  <2>3. i \in Nat /\ i \in DOMAIN input
    BY <1>7 DEF Input
  <2>4. \A j, k \in DOMAIN input : input[j].type = t /\ input[k].type = t => j = k
    BY <1>7, <1>8, <2>1
  <2>5. P(t, i)
    <3>1. ASSUME NEW j \in DOMAIN input, input[j].type = t
          PROVE  j <= i
      <4>1. j = i
        BY <2>1, <2>3, <2>4, <3>1
      <4> QED
        BY <2>3, <4>1
    <3> QED
      BY <2>1, <3>1
  <2>6. \A k \in DOMAIN input : P(t, k) => k = i
    BY <2>1, <2>3, <2>4
  <2> HIDE DEF P
  <2> QED
    BY <2>1, <2>2, <2>3, <2>5, <2>6
<1> QED
  BY <1>2, <1>4, <1>6, <1>7, <1>8 DEF IsCredential

LEMMA WalletHas ==
    ASSUME ShownInv, NEW issued \in wallet
    PROVE  \E issuer, holder, claims :
              issuer \in Keys /\ holder \in Keys /\ IsCredential(issued, issuer, holder, claims)
<1>1. PICK issuer, holder, input :
          /\ issuer \in Keys /\ holder \in Keys /\ Input(input)
          /\ issued = Issue(issuer, issuer, holder, input)
  BY DEF ShownInv
<1> QED
  BY <1>1, IssuedFacts

\* A presentation as its holder made it at some moment.
IsPresented(p, issued, types, holder, moment) ==
    /\ p.holder = holder
    /\ p.revealed = Revealed(issued, types) /\ p.hidden = Hidden(issued, types)
    /\ p = [holder |-> p.holder, revealed |-> p.revealed, hidden |-> p.hidden,
            ownership |-> p.ownership]
    /\ p.ownership = [did |-> holder, issuedAt |-> moment, expiresAt |-> moment + Ttl, nonce |-> 0,
                      challenge |-> Challenge(holder, moment, 0),
                      signature |-> <<holder, Challenge(holder, moment, 0)>>,
                      context |-> p.ownership.context]

LEMMA PresentedFacts ==
    ASSUME NEW issued, NEW types, NEW holder \in Keys, NEW moment,
           NEW p \in Presentations(issued, types, holder, holder, moment, 0)
    PROVE  IsPresented(p, issued, types, holder, moment)
<1>1. PICK o \in OwnershipProofs(holder, holder, moment, Ttl, 0, issued.credential) :
        p = [holder |-> holder, revealed |-> Revealed(issued, types),
             hidden |-> Hidden(issued, types), ownership |-> o]
  BY DEF Presentations
<1>2. PICK c \in {Challenge(d, moment, 0) : d \in {holder} \cap Keys} :
        o = [did |-> holder, issuedAt |-> moment, expiresAt |-> moment + Ttl, nonce |-> 0,
             challenge |-> c, signature |-> <<holder, c>>, context |-> issued.credential]
  BY DEF OwnershipProofs
<1>3. c = Challenge(holder, moment, 0)
  BY <1>2
<1> QED
  BY <1>1, <1>2, <1>3 DEF IsPresented

LEMMA ShownHas ==
    ASSUME ShownInv, NEW issued \in wallet, NEW p \in shown,
           NEW issuer \in Keys, NEW holder \in Keys, NEW claims,
           IsCredential(issued, issuer, holder, claims)
    PROVE  /\ clock \in Nat
           /\ \E types, moment :
                 moment \in 0 .. clock /\ IsPresented(p, issued, types, holder, moment)
<1>1. issued.credential.body.subject = holder
  BY DEF IsCredential
<1>2. PICK types, moment :
          moment \in 0 .. clock /\ p \in Presentations(issued, types, holder, holder, moment, 0)
  BY <1>1 DEF ShownInv
<1>3. IsPresented(p, issued, types, holder, moment)
  BY <1>2, PresentedFacts
<1> QED
  BY <1>2, <1>3 DEF ShownInv

LEMMA VerifiesUntilItExpires ==
    ASSUME ShownInv, NEW issued \in wallet, NEW p \in shown,
           \A r \in p.revealed : Once(issued, r.claim.type)
    PROVE  PresentationVerifies(p, clock) <=> clock - p.ownership.issuedAt <= Ttl
<1>1. PICK issuer, holder, claims :
          issuer \in Keys /\ holder \in Keys /\ IsCredential(issued, issuer, holder, claims)
  BY WalletHas
<1>2. PICK types, moment :
          moment \in 0 .. clock /\ IsPresented(p, issued, types, holder, moment)
  BY <1>1, ShownHas
<1>3. moment \in Nat /\ clock \in Nat /\ Ttl \in Nat
  BY <1>2, CredentialsAssumption DEF ShownInv
<1>4. issued.credential.body.claims = claims
  BY <1>1 DEF IsCredential
<1>5. ASSUME NEW r \in p.revealed
      PROVE  Commitment(r.claim.type, r.claim.value, r.nonce) = r.claim.commitment
  <2>1. PICK i \in DOMAIN claims :
            r = [claim |-> claims[i], nonce |-> issued.nonces[claims[i].type]]
    BY <1>2, <1>4 DEF IsPresented, Revealed
  <2>2. r.claim = claims[i] /\ r.nonce = issued.nonces[claims[i].type]
    BY <2>1
  <2>3. \A j, k \in DOMAIN claims :
                claims[j].type = claims[i].type /\ claims[k].type = claims[i].type => j = k
    BY <1>4, <2>2 DEF Once
  <2>4. r.nonce = i
    BY <1>1, <2>2, <2>3 DEF IsCredential
  <2>5. claims[i].commitment = <<claims[i].type, claims[i].value, i>>
    <3>1. claims[i] = [type |-> claims[i].type, value |-> claims[i].value,
                       commitment |-> <<claims[i].type, claims[i].value, i>>]
      BY <1>1 DEF IsCredential
    <3> QED
      BY <3>1
  <2> QED
    BY <2>2, <2>4, <2>5 DEF Commitment
<1>6. PresentationVerifies(p, clock) <=> OwnershipVerifies(p.ownership, clock)
  BY <1>5 DEF PresentationVerifies
<1>7. PICK o : o = p.ownership
  OBVIOUS
<1>8. /\ o.did = holder /\ o.issuedAt = moment /\ o.expiresAt = moment + Ttl /\ o.nonce = 0
      /\ o.challenge = Challenge(holder, moment, 0)
      /\ o.signature = <<holder, Challenge(holder, moment, 0)>>
  BY <1>2, <1>7 DEF IsPresented
<1>9. OwnershipVerifies(o, clock) <=> clock <= moment + Ttl
  BY <1>1, <1>8 DEF OwnershipVerifies, Forged
<1> QED
  BY <1>3, <1>6, <1>7, <1>8, <1>9

LEMMA RevealedOrHidden ==
    ASSUME ShownInv, NEW issued \in wallet, NEW p \in shown,
           NEW claims, claims = issued.credential.body.claims
    PROVE  /\ p.holder = issued.credential.body.subject
           /\ \A i \in DOMAIN claims :
                 claims[i] \in {r.claim : r \in p.revealed}
                    <=> claims[i].commitment \notin p.hidden
<1>1. PICK issuer, holder, made :
          issuer \in Keys /\ holder \in Keys /\ IsCredential(issued, issuer, holder, made)
  BY WalletHas
<1>2. PICK types, moment :
          moment \in 0 .. clock /\ IsPresented(p, issued, types, holder, moment)
  BY <1>1, ShownHas
<1>3. made = claims /\ issued.credential.body.subject = holder
  BY <1>1 DEF IsCredential
<1>4. \A i \in DOMAIN claims : claims[i] = [type |-> claims[i].type, value |-> claims[i].value,
                                            commitment |-> <<claims[i].type, claims[i].value, i>>]
  BY <1>1, <1>3 DEF IsCredential
<1>5. \A i, j \in DOMAIN claims : claims[i].commitment = claims[j].commitment => i = j
  <2>1. ASSUME NEW i \in DOMAIN claims
        PROVE  claims[i].commitment = <<claims[i].type, claims[i].value, i>>
    <3>1. claims[i] = [type |-> claims[i].type, value |-> claims[i].value,
                       commitment |-> <<claims[i].type, claims[i].value, i>>]
      BY <1>4
    <3> QED
      BY <3>1
  <2> QED
    BY <2>1
<1>6. /\ p.revealed = {[claim |-> claims[i], nonce |-> issued.nonces[claims[i].type]] :
                         i \in {j \in DOMAIN claims : claims[j].type \in types}}
      /\ p.hidden = {claims[i].commitment : i \in {j \in DOMAIN claims : claims[j].type \notin types}}
  BY <1>2 DEF IsPresented, Revealed, Hidden
<1>7. ASSUME NEW i \in DOMAIN claims
      PROVE  claims[i] \in {r.claim : r \in p.revealed} <=> claims[i].type \in types
  <2>1. CASE claims[i].type \in types
    <3>1. PICK r : r = [claim |-> claims[i], nonce |-> issued.nonces[claims[i].type]]
      OBVIOUS
    <3>2. r \in p.revealed /\ r.claim = claims[i]
      BY <1>6, <2>1, <3>1
    <3> QED
      BY <2>1, <3>2
  <2>2. ASSUME NEW r \in p.revealed, r.claim = claims[i]
        PROVE  claims[i].type \in types
    <3>1. PICK j \in DOMAIN claims :
             /\ claims[j].type \in types
             /\ r = [claim |-> claims[j], nonce |-> issued.nonces[claims[j].type]]
      BY <1>6
    <3>2. r.claim = claims[j]
      BY <3>1
    <3> QED
      BY <2>2, <3>1, <3>2
  <2> QED
    BY <2>1, <2>2
<1>8. ASSUME NEW i \in DOMAIN claims
      PROVE  claims[i].commitment \notin p.hidden <=> claims[i].type \in types
  BY <1>5, <1>6
<1>9. p.holder = holder
  BY <1>2 DEF IsPresented
<1> QED
  BY <1>3, <1>7, <1>8, <1>9

LEMMA PresentedVerify == ShownInv => PresentationsVerify
<1> SUFFICES ASSUME ShownInv, NEW issued \in wallet, NEW p \in shown
             PROVE  LET claims   == issued.credential.body.claims
                        revealed == {r.claim : r \in p.revealed}
                    IN  /\ (\A c \in revealed : Once(issued, c.type)) =>
                               (PresentationVerifies(p, clock) <=> clock - p.ownership.issuedAt <= Ttl)
                        /\ p.holder = issued.credential.body.subject
                        /\ \A i \in DOMAIN claims :
                              claims[i] \in revealed <=> claims[i].commitment \notin p.hidden
  BY DEF PresentationsVerify
<1>1. ASSUME \A c \in {r.claim : r \in p.revealed} : Once(issued, c.type)
      PROVE  PresentationVerifies(p, clock) <=> clock - p.ownership.issuedAt <= Ttl
  BY <1>1, VerifiesUntilItExpires
<1> QED
  BY <1>1, RevealedOrHidden

LEMMA AlteredCredential ==
    ASSUME ShownInv, NEW issued \in wallet
    PROVE  LET c == issued.credential
           IN  /\ CredentialVerifies(c)
               /\ \A other \in Keys :
                    /\ other # c.body.subject => ~CredentialVerifies([c EXCEPT !.body.subject = other])
                    /\ other # c.body.issuer => ~CredentialVerifies([c EXCEPT !.body.issuer = other])
               /\ \A i \in DOMAIN c.body.claims, j \in DOMAIN c.body.claims :
                    c.body.claims[i] # c.body.claims[j] =>
                        ~CredentialVerifies([c EXCEPT !.body.claims[i] = c.body.claims[j]])
<1>1. PICK issuer, holder, claims :
          issuer \in Keys /\ holder \in Keys /\ IsCredential(issued, issuer, holder, claims)
  BY WalletHas
<1>2. PICK c : c = issued.credential
  OBVIOUS
<1>3. PICK body : body = c.body
  OBVIOUS
<1>4. claims = body.claims
  BY <1>1, <1>2, <1>3 DEF IsCredential
<1>5. /\ body = [issuer |-> issuer, subject |-> holder, claims |-> claims]
      /\ c = [body |-> body, proof |-> <<issuer, body>>]
  BY <1>1, <1>2, <1>3 DEF IsCredential
<1>6. CredentialVerifies(c)
  BY <1>1, <1>5 DEF CredentialVerifies, Forged
<1>7. ASSUME NEW other \in Keys, other # body.subject
      PROVE  ~CredentialVerifies([c EXCEPT !.body.subject = other])
  <2>1. PICK d : d = [c EXCEPT !.body.subject = other]
    OBVIOUS
  <2>2. d.body.subject = other /\ d.proof = <<issuer, body>>
    BY <1>5, <2>1
  <2>3. d.proof # <<d.body.issuer, d.body>>
    BY <1>7, <2>2
  <2> QED
    BY <2>1, <2>3 DEF CredentialVerifies, Forged
<1>8. ASSUME NEW other \in Keys, other # body.issuer
      PROVE  ~CredentialVerifies([c EXCEPT !.body.issuer = other])
  <2>1. PICK d : d = [c EXCEPT !.body.issuer = other]
    OBVIOUS
  <2>2. d.body.issuer = other /\ d.proof = <<issuer, body>>
    BY <1>5, <2>1
  <2>3. d.proof # <<d.body.issuer, d.body>>
    BY <1>8, <2>2
  <2> QED
    BY <2>1, <2>3 DEF CredentialVerifies, Forged
<1>9. ASSUME NEW i \in DOMAIN claims, NEW j \in DOMAIN claims, claims[i] # claims[j]
      PROVE  ~CredentialVerifies([c EXCEPT !.body.claims[i] = claims[j]])
  <2>1. PICK d : d = [c EXCEPT !.body.claims[i] = claims[j]]
    OBVIOUS
  <2>2. d.body.claims[i] = claims[j] /\ d.proof = <<issuer, body>>
    BY <1>5, <2>1
  <2>3. d.proof # <<d.body.issuer, d.body>>
    BY <1>4, <1>9, <2>2
  <2> QED
    BY <2>1, <2>3 DEF CredentialVerifies, Forged
<1> QED
  BY <1>2, <1>3, <1>4, <1>6, <1>7, <1>8, <1>9

LEMMA AlteredPresentation ==
    ASSUME ShownInv, NEW p \in shown
    PROVE  /\ \A other \in Keys \ {p.holder} :
                ~PresentationVerifies([p EXCEPT !.ownership.did = other], clock)
           /\ \A then \in 0 .. MaxClock : then # p.ownership.issuedAt =>
                ~PresentationVerifies([p EXCEPT !.ownership.issuedAt = then], clock)
<1>1. PICK issued \in wallet : TRUE
  BY DEF ShownInv
<1>2. PICK issuer, holder, claims :
          issuer \in Keys /\ holder \in Keys /\ IsCredential(issued, issuer, holder, claims)
  BY WalletHas
<1>3. PICK types, moment :
          moment \in 0 .. clock /\ IsPresented(p, issued, types, holder, moment)
  BY <1>2, ShownHas
<1>6. PICK o : o = p.ownership
  OBVIOUS
<1>7. /\ p.holder = holder /\ o.did = holder /\ o.issuedAt = moment /\ o.nonce = 0
      /\ o.challenge = Challenge(holder, moment, 0)
      /\ p = [holder |-> p.holder, revealed |-> p.revealed, hidden |-> p.hidden, ownership |-> o]
      /\ o = [did |-> o.did, issuedAt |-> moment, expiresAt |-> moment + Ttl, nonce |-> 0,
              challenge |-> o.challenge, signature |-> o.signature, context |-> o.context]
  BY <1>3, <1>6 DEF IsPresented
<1>8. ASSUME NEW other \in Keys, other # p.holder
      PROVE  ~PresentationVerifies([p EXCEPT !.ownership.did = other], clock)
  <2>1. PICK q : q = [p EXCEPT !.ownership.did = other]
    OBVIOUS
  <2>2. /\ q.ownership.did = other /\ q.ownership.issuedAt = moment
        /\ q.ownership.challenge = Challenge(holder, moment, 0)
    BY <1>7, <2>1
  <2>3. Challenge(q.ownership.did, q.ownership.issuedAt, q.ownership.nonce) # q.ownership.challenge
    BY <1>7, <1>8, <2>2 DEF Challenge
  <2> QED
    BY <2>1, <2>3 DEF PresentationVerifies, OwnershipVerifies
<1>9. ASSUME NEW then \in 0 .. MaxClock, then # o.issuedAt
      PROVE  ~PresentationVerifies([p EXCEPT !.ownership.issuedAt = then], clock)
  <2>1. PICK q : q = [p EXCEPT !.ownership.issuedAt = then]
    OBVIOUS
  <2>2. /\ q.ownership.issuedAt = then
        /\ q.ownership.challenge = Challenge(holder, moment, 0)
    BY <1>7, <2>1
  <2>3. Challenge(q.ownership.did, q.ownership.issuedAt, q.ownership.nonce) # q.ownership.challenge
    BY <1>7, <1>9, <2>2 DEF Challenge
  <2> QED
    BY <2>1, <2>3 DEF PresentationVerifies, OwnershipVerifies
<1> QED
  BY <1>6, <1>8, <1>9

LEMMA IssueStep ==
    ASSUME ShownInv, wallet = {}, NEW issuer \in Keys, NEW holder \in Keys, NEW input, Input(input),
           wallet' = {Issue(issuer, issuer, holder, input)}, UNCHANGED <<clock, shown>>
    PROVE  ShownInv'
<1>1. shown = {}
  BY DEF ShownInv
<1> QED
  BY <1>1 DEF ShownInv

LEMMA PresentStep ==
    ASSUME ShownInv, NEW issued \in wallet, NEW types, NEW holder,
           \/ holder = issued.credential.body.subject
           \/ holder = Malformed,
           Present(holder, types)
    PROVE  ShownInv'
<1>1. /\ shown = {} /\ clock' = clock /\ wallet' = wallet
      /\ shown' = UNION {Presentations(i, types, holder, i.credential.body.subject, clock, 0) : i \in wallet}
  BY DEF Present
<1>2. ASSUME NEW p \in shown', NEW other \in wallet
      PROVE  p \in Presentations(other, types, other.credential.body.subject,
                                 other.credential.body.subject, clock, 0)
  <2>1. p \in Presentations(issued, types, holder, issued.credential.body.subject, clock, 0) /\ other = issued
    BY <1>1, <1>2 DEF ShownInv
  <2>2. holder # Malformed
    BY <2>1, CredentialsAssumption DEF Presentations, OwnershipProofs
  <2> QED
    BY <2>1, <2>2
<1>3. clock \in Nat /\ clock \in 0 .. clock
  BY DEF ShownInv
<1> QED
  BY <1>1, <1>2, <1>3 DEF ShownInv

LEMMA ShownStep == ShownInv /\ [CredentialsNext]_credentialVars => ShownInv'
<1> SUFFICES ASSUME ShownInv, [CredentialsNext]_credentialVars PROVE ShownInv'
  OBVIOUS
<1>1. ASSUME NEW issuer \in Keys, NEW holder \in Keys, NEW input \in ClaimInputs,
             IssueOne(issuer, holder, input)
      PROVE  ShownInv'
  BY <1>1, IssueStep, CredentialsAssumption DEF IssueOne, Input
<1>2. ASSUME NEW agent \in Keys, NEW n \in 0 .. Len(Capabilities),
             IssueCapabilities(agent, SubSeq(Capabilities, 1, n))
      PROVE  ShownInv'
  <2>1. PICK names : names = SubSeq(Capabilities, 1, n)
    OBVIOUS
  <2>2. DOMAIN names \subseteq Nat
    BY <2>1 DEF Capabilities, BuiltInCapabilities
  <2>3. PICK input : input = [i \in DOMAIN names |-> [type |-> "capability", value |-> names[i]]]
    OBVIOUS
  <2>4. Input(input)
    BY <2>2, <2>3 DEF Input
  <2> QED
    BY <1>2, <2>1, <2>3, <2>4, IssueStep DEF IssueCapabilities, CapabilityCredential
<1>3. ASSUME NEW issued \in wallet, NEW types \in SUBSET TypesOf(issued),
             Present(issued.credential.body.subject, types) \/ Present(Malformed, types)
      PROVE  ShownInv'
  BY <1>3, PresentStep
<1>4. CASE TimePasses
  BY <1>4 DEF TimePasses, ShownInv
<1>5. CASE UNCHANGED credentialVars
  BY <1>5 DEF credentialVars, ShownInv
<1> QED
  BY <1>1, <1>2, <1>3, <1>4, <1>5 DEF CredentialsNext

\* A presentation that the subject of a credential makes verifies until it
\* expires and reveals what it was asked to, and what was altered is refused,
\* for any keys, claims and times (createPresentation, verifyPresentation and
\* verifyCredential, packages/core/src/zkp.ts).
THEOREM PresentationsHold == CredentialsSpec => []CredentialsHold
<1>1. CredentialsInit => ShownInv
  BY DEF CredentialsInit, ShownInv
<1>2. ShownInv => CredentialsHold
  BY PresentedVerify, AlteredCredential, AlteredPresentation DEF CredentialsHold, AlteredIsRefused
<1> QED
  BY <1>1, <1>2, ShownStep, PTL DEF CredentialsSpec

-----------------------------------------------------------------------------
(***************************************************************************)
(* The schema registry.                                                    *)
(***************************************************************************)

\* Every file is one of its NSID and revision, what is being written is a
\* schema that the Map has, a file that is read stands for one too, and two
\* writes of a file at a time are remembered, as is whatever tore it.
RegistryInv ==
    /\ RegistryTypeOK
    /\ \A f \in Files : files[f] \in Posted => FileOf(files[f]) = f
    /\ \A w \in saves : FileOf(w.body) \in Files /\ w.body.id \in DOMAIN schemas
    /\ \A f \in Files : files[f] \in Posted => f[1] \in DOMAIN schemas
    /\ \A v, w \in saves :
          v # w /\ FileOf(v.body) = FileOf(w.body) => FileOf(w.body) \in overlapped
    /\ \A w \in saves :
          w.opened => files[FileOf(w.body)] = Blank \/ FileOf(w.body) \in overlapped
    /\ \A f \in Files : files[f] \in {Blank, Torn} =>
          f \in overlapped \/ \E w \in saves : w.opened /\ FileOf(w.body) = f

\* The kinds of what no file says are three, and none of them is a body.
LEMMA UnreadableAre ==
    /\ Absent # Blank /\ Absent # Torn /\ Blank # Torn
    /\ Absent \notin Posted /\ Blank \notin Posted /\ Torn \notin Posted
<1>1. Absent.kind # Blank.kind /\ Absent.kind # Torn.kind /\ Blank.kind # Torn.kind
  BY DEF Absent, Blank, Torn
<1> QED
  BY <1>1, RegistryAssumption DEF Unreadable

\* A file is a pair.
LEMMA FileParts ==
    ASSUME NEW s
    PROVE  FileOf(s)[1] = s.id /\ (s \in Posted /\ IsLexicon(s) => FileOf(s) \in Files /\ s.id \in NSIDs)
  BY DEF FileOf, Files, NSIDs

LEMMA RegistryStarts == RegistryInit => RegistryInv
<1> SUFFICES ASSUME RegistryInit PROVE RegistryInv
  OBVIOUS
<1>1. RegistryTypeOK
  BY RegistryAssumption DEF RegistryInit, RegistryTypeOK, NSIDs, Unreadable
<1> QED
  BY <1>1, UnreadableAre DEF RegistryInit, RegistryInv

\* A post that is a schema.
LEMMA RegisterKeeps ==
    ASSUME RegistryInv, NEW s \in Posted, Register(s)
    PROVE  RegistryInv'
<1> DEFINE new == [body |-> s, opened |-> FALSE]
<1>1. /\ saves' = saves \cup {new} /\ new.body = s /\ new.opened = FALSE
      /\ files' = files /\ restarts' = restarts /\ posts' = posts + 1
  BY DEF Register
<1>2. DOMAIN schemas' = {s.id} \cup DOMAIN schemas
  BY DEF Register
<1>3. FileOf(s) \in Files /\ s.id \in NSIDs /\ FileOf(s)[1] = s.id
  BY FileParts DEF Register
<1>4. overlapped' = IF \E w \in saves : FileOf(w.body) = FileOf(s)
                    THEN overlapped \cup {FileOf(s)} ELSE overlapped
  BY DEF Register
<1>5. overlapped \subseteq overlapped' /\ overlapped' \subseteq overlapped \cup {FileOf(s)}
  BY <1>4
<1>6. posts' \in 0 .. MaxPosts
  BY <1>1, RegistryAssumption DEF Register, RegistryInv, RegistryTypeOK
<1>7. RegistryTypeOK'
  <2>1. saves' \subseteq [body : Posted, opened : BOOLEAN]
    BY <1>1 DEF RegistryInv, RegistryTypeOK
  <2> QED
    BY <1>1, <1>2, <1>3, <1>5, <1>6, <2>1 DEF RegistryInv, RegistryTypeOK, NSIDs, Files, Unreadable
<1>8. \A v, w \in saves' :
         v # w /\ FileOf(v.body) = FileOf(w.body) => FileOf(w.body) \in overlapped'
  <2> SUFFICES ASSUME NEW v \in saves', NEW w \in saves', v # w, FileOf(v.body) = FileOf(w.body)
               PROVE  FileOf(w.body) \in overlapped'
    OBVIOUS
  <2>1. CASE v \in saves /\ w \in saves
    BY <2>1, <1>5 DEF RegistryInv
  <2>2. CASE v = new /\ w \in saves
    BY <2>2, <1>1, <1>4
  <2>3. CASE w = new /\ v \in saves
    BY <2>3, <1>1, <1>4
  <2> QED
    BY <1>1, <2>1, <2>2, <2>3
<1> QED
  BY <1>1, <1>2, <1>3, <1>5, <1>7, <1>8 DEF RegistryInv, FileOf, Files, Unreadable

\* What a step does that a write under way takes.
LEMMA SaveParts ==
    ASSUME RegistryInv, NEW w \in saves
    PROVE  /\ w.body \in Posted /\ w.opened \in BOOLEAN /\ FileOf(w.body) \in Files
           /\ FileOf(w.body)[1] = w.body.id /\ w.body.id \in DOMAIN schemas
  BY FileParts DEF RegistryInv, RegistryTypeOK

\* A write opens its file.
LEMMA OpenKeeps ==
    ASSUME RegistryInv, NEW w \in saves, OpenFile(w)
    PROVE  RegistryInv'
<1> DEFINE f == FileOf(w.body)
           new == [w EXCEPT !.opened = TRUE]
<1>1. /\ w.opened = FALSE /\ w.body \in Posted /\ f \in Files /\ f[1] = w.body.id
      /\ w.body.id \in DOMAIN schemas /\ w \in [body : Posted, opened : BOOLEAN]
  BY SaveParts DEF OpenFile, RegistryInv, RegistryTypeOK
<1>2. new \in [body : Posted, opened : BOOLEAN] /\ new.body = w.body /\ new.opened = TRUE
  BY <1>1
<1>3. saves' = (saves \ {w}) \cup {new} /\ UNCHANGED <<schemas, overlapped, posts, restarts>>
  BY DEF OpenFile
<1>4. files' = [files EXCEPT ![f] = Blank]
  BY DEF OpenFile
<1>5. files' \in [Files -> Posted \cup Unreadable]
  BY <1>1, <1>4 DEF RegistryInv, RegistryTypeOK, Unreadable
<1>6. files'[f] = Blank /\ \A g \in Files : g # f => files'[g] = files[g]
  BY <1>1, <1>4 DEF RegistryInv, RegistryTypeOK
<1>7. RegistryTypeOK'
  BY <1>2, <1>3, <1>5 DEF RegistryInv, RegistryTypeOK, NSIDs, Files, Unreadable
<1>8. \A v, u \in saves' :
         v # u /\ FileOf(v.body) = FileOf(u.body) => FileOf(u.body) \in overlapped'
  <2> SUFFICES ASSUME NEW v \in saves', NEW u \in saves', v # u, FileOf(v.body) = FileOf(u.body)
               PROVE  FileOf(u.body) \in overlapped'
    OBVIOUS
  <2>1. CASE v \in saves \ {w} /\ u \in saves \ {w}
    BY <2>1, <1>3 DEF RegistryInv
  <2>2. CASE v = new /\ u \in saves \ {w}
    BY <2>2, <1>2, <1>3 DEF RegistryInv
  <2>3. CASE u = new /\ v \in saves \ {w}
    BY <2>3, <1>2, <1>3 DEF RegistryInv
  <2> QED
    BY <1>3, <2>1, <2>2, <2>3
<1>9. \A u \in saves' :
         u.opened => files'[FileOf(u.body)] = Blank \/ FileOf(u.body) \in overlapped'
  BY <1>2, <1>3, <1>6 DEF RegistryInv
<1>10. \A g \in Files : files'[g] \in {Blank, Torn} =>
          g \in overlapped' \/ \E u \in saves' : u.opened /\ FileOf(u.body) = g
  BY <1>1, <1>2, <1>3, <1>6 DEF RegistryInv
<1>11. \A u \in saves' : FileOf(u.body) \in Files /\ u.body.id \in DOMAIN schemas'
  BY <1>1, <1>2, <1>3 DEF RegistryInv
<1>12. \A g \in Files : files'[g] \in Posted => FileOf(files'[g]) = g /\ g[1] \in DOMAIN schemas'
  BY <1>3, <1>6, UnreadableAre DEF RegistryInv
<1>13. Files' = Files
  BY DEF Files
<1> QED
  BY <1>7, <1>8, <1>9, <1>10, <1>11, <1>12, <1>13 DEF RegistryInv, FileOf

\* A write is over, for better or worse: its file has a text of its body, or
\* one that was overlapped or cut off, or what it had before it was opened.
LEMMA OverKeeps ==
    ASSUME RegistryInv, NEW w \in saves, NEW text,
           saves' = saves \ {w},
           files' = [files EXCEPT ![FileOf(w.body)] = text],
           overlapped \subseteq overlapped',
           overlapped' \subseteq overlapped \cup {FileOf(w.body)},
           UNCHANGED <<schemas, posts, restarts>>,
           \/ text = w.body
           \/ text \in Posted \cup Unreadable /\ text = files[FileOf(w.body)]
                 /\ (w.opened => FileOf(w.body) \in overlapped')
           \/ text = Torn /\ FileOf(w.body) \in overlapped'
    PROVE  RegistryInv'
<1> DEFINE f == FileOf(w.body)
<1>1. w.body \in Posted /\ f \in Files /\ f[1] = w.body.id /\ w.body.id \in DOMAIN schemas
  BY SaveParts
<1>2. text \in Posted \cup Unreadable
  BY <1>1 DEF Unreadable
<1>3. files' \in [Files -> Posted \cup Unreadable]
  BY <1>1, <1>2 DEF RegistryInv, RegistryTypeOK
<1>4. files'[f] = text /\ \A g \in Files : g # f => files'[g] = files[g]
  BY <1>1 DEF RegistryInv, RegistryTypeOK
<1>5. RegistryTypeOK'
  BY <1>1, <1>3 DEF RegistryInv, RegistryTypeOK, NSIDs, Files, Unreadable
<1>6. \A v, u \in saves' :
         v # u /\ FileOf(v.body) = FileOf(u.body) => FileOf(u.body) \in overlapped'
  BY DEF RegistryInv
<1>7. \A u \in saves' :
         u.opened => files'[FileOf(u.body)] = Blank \/ FileOf(u.body) \in overlapped'
  <2> SUFFICES ASSUME NEW u \in saves', u.opened
               PROVE  files'[FileOf(u.body)] = Blank \/ FileOf(u.body) \in overlapped'
    OBVIOUS
  <2>1. CASE FileOf(u.body) = f
    BY <2>1 DEF RegistryInv
  <2>2. CASE FileOf(u.body) # f
    BY <2>2, <1>4 DEF RegistryInv
  <2> QED
    BY <2>1, <2>2
<1>8. \A g \in Files : files'[g] \in {Blank, Torn} =>
          g \in overlapped' \/ \E u \in saves' : u.opened /\ FileOf(u.body) = g
  <2> SUFFICES ASSUME NEW g \in Files, files'[g] \in {Blank, Torn}, g \notin overlapped'
               PROVE  \E u \in saves' : u.opened /\ FileOf(u.body) = g
    OBVIOUS
  <2>1. CASE g # f
    BY <2>1, <1>4 DEF RegistryInv
  <2>2. CASE g = f
    <3>1. ~w.opened /\ files[f] \in {Blank, Torn} /\ f \notin overlapped
      BY <2>2, <1>1, <1>4, UnreadableAre
    <3> QED
      BY <2>2, <3>1, <1>1 DEF RegistryInv
  <2> QED
    BY <2>1, <2>2
<1>9. \A u \in saves' : FileOf(u.body) \in Files /\ u.body.id \in DOMAIN schemas'
  BY DEF RegistryInv
<1>10. \A g \in Files : files'[g] \in Posted => FileOf(files'[g]) = g /\ g[1] \in DOMAIN schemas'
  BY <1>1, <1>4, UnreadableAre DEF RegistryInv
<1>11. Files' = Files
  BY DEF Files
<1> QED
  BY <1>5, <1>6, <1>7, <1>8, <1>9, <1>10, <1>11 DEF RegistryInv, FileOf

LEMMA WriteKeeps ==
    ASSUME RegistryInv, NEW w \in saves, WriteFile(w)
    PROVE  RegistryInv'
<1>1. w.opened /\ saves' = saves \ {w} /\ UNCHANGED <<schemas, overlapped, posts, restarts>>
  BY DEF WriteFile
<1>2. PICK text \in {w.body} \cup (IF files[FileOf(w.body)] = Blank THEN {} ELSE {Torn}) :
         files' = [files EXCEPT ![FileOf(w.body)] = text]
  BY DEF WriteFile
<1>3. text = w.body \/ (text = Torn /\ FileOf(w.body) \in overlapped')
  BY <1>1, <1>2 DEF RegistryInv
<1> QED
  BY <1>1, <1>2, <1>3, OverKeeps

LEMMA FailKeeps ==
    ASSUME RegistryInv, NEW w \in saves, Fail(w)
    PROVE  RegistryInv'
<1>1. saves' = saves \ {w} /\ UNCHANGED <<schemas, posts, restarts>>
  BY DEF Fail
<1>2. PICK text \in {files[FileOf(w.body)]} \cup (IF w.opened THEN {Torn} ELSE {}) :
         files' = [files EXCEPT ![FileOf(w.body)] = text]
  BY DEF Fail
<1>3. overlapped' = IF w.opened THEN overlapped \cup {FileOf(w.body)} ELSE overlapped
  BY DEF Fail
<1>4. files[FileOf(w.body)] \in Posted \cup Unreadable
  BY SaveParts DEF RegistryInv, RegistryTypeOK
<1>5. \/ text \in Posted \cup Unreadable /\ text = files[FileOf(w.body)]
            /\ (w.opened => FileOf(w.body) \in overlapped')
      \/ text = Torn /\ FileOf(w.body) \in overlapped'
  BY <1>2, <1>3, <1>4
<1> QED
  BY <1>1, <1>2, <1>3, <1>5, OverKeeps

\* The Map of a restart has every NSID that a file is read for.
LEMMA RestartKeeps ==
    ASSUME RegistryInv, RestartRegistry
    PROVE  RegistryInv'
<1>1. /\ saves' = {} /\ files' = files /\ posts' = posts /\ restarts' = restarts + 1
      /\ overlapped' = overlapped \cup {FileOf(w.body) : w \in {v \in saves : v.opened}}
  BY DEF RestartRegistry
<1>2. DOMAIN schemas' = Cached \cup DOMAIN BuiltIns
  BY DEF RestartRegistry, Loaded, Read
<1>3. restarts' \in 0 .. MaxRestarts
  BY RegistryAssumption DEF RestartRegistry, RegistryInv, RegistryTypeOK
<1>4. overlapped' \subseteq Files
  BY <1>1, SaveParts DEF RegistryInv, RegistryTypeOK
<1>5. RegistryTypeOK'
  BY <1>1, <1>2, <1>3, <1>4 DEF RegistryInv, RegistryTypeOK, Cached, NSIDs, Files, Unreadable
<1>6. \A f \in Files : files[f] \in Posted => f[1] \in DOMAIN schemas'
  <2> SUFFICES ASSUME NEW f \in Files, files[f] \in Posted PROVE f[1] \in Cached \cup DOMAIN BuiltIns
    BY <1>2
  <2>1. f[1] \in NSIDs
    BY FileParts DEF Files, NSIDs
  <2>2. f \in Readable(f[1])
    BY UnreadableAre, RegistryAssumption DEF Readable
  <2> QED
    BY <2>1, <2>2 DEF Cached
<1>7. \A f \in Files : files[f] \in {Blank, Torn} => f \in overlapped'
  BY <1>1 DEF RegistryInv
<1> QED
  BY <1>1, <1>5, <1>6, <1>7 DEF RegistryInv, FileOf, Files

LEMMA RegistryStep == RegistryInv /\ [RegistryNext]_registryVars => RegistryInv'
<1> SUFFICES ASSUME RegistryInv, [RegistryNext]_registryVars PROVE RegistryInv'
  OBVIOUS
<1>1. ASSUME NEW s \in Posted, Refuse(s) PROVE RegistryInv'
  <2>1. posts' \in 0 .. MaxPosts
    BY <1>1, RegistryAssumption DEF Refuse, RegistryInv, RegistryTypeOK
  <2> QED
    BY <1>1, <2>1 DEF Refuse, RegistryInv, RegistryTypeOK, FileOf, Files, NSIDs, Unreadable
<1>2. ASSUME NEW s \in Posted, Register(s) PROVE RegistryInv'
  BY <1>2, RegisterKeeps
<1>3. ASSUME NEW w \in saves, OpenFile(w) PROVE RegistryInv'
  BY <1>3, OpenKeeps
<1>4. ASSUME NEW w \in saves, WriteFile(w) PROVE RegistryInv'
  BY <1>4, WriteKeeps
<1>5. ASSUME NEW w \in saves, Fail(w) PROVE RegistryInv'
  BY <1>5, FailKeeps
<1>6. CASE RestartRegistry
  BY <1>6, RestartKeeps
<1>7. CASE UNCHANGED registryVars
  BY <1>7 DEF registryVars, RegistryInv, RegistryTypeOK, FileOf, Files, NSIDs, Unreadable
<1> QED
  BY <1>1, <1>2, <1>3, <1>4, <1>5, <1>6, <1>7 DEF RegistryNext

\* Whatever is posted, however many writes overlap, fail or are cut off: an
\* NSID that a file can be read for is in the Map, before and after a restart,
\* and a file that cannot be read is being written, or was overlapped, failed
\* or cut off (register, save and load of schema-registry.ts).
THEOREM RegistryKeepsFiles == RegistrySpec => []SchemasHold
<1>1. RegistryInv => SchemasHold
  BY DEF RegistryInv, SchemasHold, FilesAreKnown, RegistryTypeOK
<1>2. RegistryInit => RegistryInv
  BY RegistryStarts
<1> QED
  BY <1>1, <1>2, RegistryStep, PTL DEF RegistrySpec
=============================================================================
