------------------------------- MODULE Ingest -------------------------------
(***************************************************************************)
(* What stands between POST /memory and the store: checkIngestSecurity of  *)
(* packages/daemon/src/api.ts with the rate limiter, the reputation and    *)
(* the proof-of-work stamps of packages/core/src, for the POSTs that name  *)
(* one peer as their source.                                               *)
(*                                                                         *)
(* The limiter is asked first and told afterwards.  A POST that brings a   *)
(* signature waits for a module in between, every POST waits for its stamp *)
(* later on, and other POSTs run meanwhile.  All of it is in memory.       *)
(***************************************************************************)
EXTENDS Integers, FiniteSets

CONSTANTS
    Posts,              \* requests that can be under way at a time
    Max, Window,        \* maxPerWindow and windowMs
    Delta,              \* what an event adds to the score
    TempLimit, PermLimit, TempSpan,
    StampWindow,        \* powWindowMs
    MaxTime,            \* bound on the clock
    MaxResets           \* bound on DELETE /security/reputation and restarts

Events == {"VALID", "INVALID", "RATE", "OVERSIZED"}

ASSUME IngestAssumption ==
    /\ IsFiniteSet(Posts)
    /\ Max \in Nat \ {0} /\ Window \in Nat \ {0}
    /\ Delta \in [Events -> Int]
    /\ Delta["VALID"] > 0
    /\ \A e \in Events \ {"VALID"} : Delta[e] < 0
    /\ TempLimit \in Int /\ PermLimit \in Int
    /\ PermLimit < TempLimit /\ TempLimit < 0
    /\ TempSpan \in Nat \ {0} /\ StampWindow \in Nat \ {0}
    /\ MaxTime \in Nat \ {0} /\ MaxResets \in Nat

Times == 1 .. MaxTime
Never == 0

VARIABLES
    now,
    require,            \* requireSignatures and requirePoW of the configuration
    at,                 \* at[p]: where a POST is
    times, bannedUntil, \* the limiter: events recorded at a time; the soft ban
    rep,                \* the record of the reputation
    mined, cache,       \* the windows that stamps are mined and kept for
    accepted,           \* history: like times, and nothing prunes it
    seen,               \* history: the last time that the peer did anything
    unfit,              \* history: a stamp was handed out that does not verify
    resets

limiterVars == <<times, bannedUntil>>
stampVars   == <<mined, cache, unfit>>
vars == <<now, require, at, limiterVars, rep, stampVars, accepted, seen, resets>>

Fresh == [score |-> 0, updated |-> Never, listed |-> Never, permanent |-> FALSE]
Empty == [stamp |-> 0, index |-> -1]
None  == [t \in Times |-> 0]

TypeOK ==
    /\ now \in Times
    /\ require \subseteq {"signature", "stamp"}
    /\ at \in [Posts -> {"idle", "verifying", "mining"}]
    /\ times \in [Times -> Nat] /\ accepted \in [Times -> Nat]
    /\ bannedUntil \in Nat
    /\ rep \in [score : Int, updated : Nat, listed : Nat, permanent : BOOLEAN]
    /\ mined \in [Posts -> Nat]
    /\ cache \in [stamp : Nat, index : Int]
    /\ seen \in Nat
    /\ unfit \in BOOLEAN
    /\ resets \in 0 .. MaxResets

Init ==
    /\ now = 1
    /\ require \in SUBSET {"signature", "stamp"}
    /\ at = [p \in Posts |-> "idle"]
    /\ times = None
    /\ bannedUntil = Never
    /\ rep = Fresh
    /\ mined = [p \in Posts |-> 0]
    /\ cache = Empty
    /\ accepted = None
    /\ seen = Never
    /\ unfit = FALSE
    /\ resets = 0

-----------------------------------------------------------------------------
(***************************************************************************)
(* The rate limiter.                                                       *)
(***************************************************************************)

Pruned(f) == [t \in Times |-> IF t < now - Window THEN 0 ELSE f[t]]

\* Every event that f has, told by its time and its number at that time.
Count(f) == Cardinality(UNION {{t} \X (1 .. f[t]) : t \in Times})

Banned == bannedUntil # Never /\ now < bannedUntil

\* Mutant of Allowed: off by one.
AllowedOneMore == ~Banned /\ Count(Pruned(times)) <= Max

\* What check() answers.
Allowed == ~Banned /\ Count(Pruned(times)) < Max

\* What check() leaves behind.
Checked(f) ==
    /\ times' = IF Banned THEN f ELSE Pruned(f)
    /\ bannedUntil' = IF Banned THEN bannedUntil ELSE Never

Recorded(f) == [Pruned(f) EXCEPT ![now] = @ + 1]

-----------------------------------------------------------------------------
(***************************************************************************)
(* The reputation.                                                         *)
(***************************************************************************)

\* The score some time later.  It halves in a day, which is longer than
\* anything else here takes.
Decayed(r) ==
    IF r.updated = now THEN {r.score}
    ELSE IF r.score < 0 THEN r.score .. -((-r.score) \div 2)
    ELSE (r.score \div 2) .. r.score

\* record(): the records that r may become.
Scored(r, event) ==
    {[score |-> s,
      updated |-> now,
      permanent |-> r.permanent \/ s < PermLimit,
      listed |-> IF ~r.permanent /\ PermLimit <= s /\ s < TempLimit /\ r.listed = Never
                 THEN now + TempSpan ELSE r.listed]
        : s \in {v + Delta[event] : v \in Decayed(r)}}

Listed == rep.permanent \/ (rep.listed # Never /\ now < rep.listed)

\* What isBlacklisted() leaves behind when it answers no.
Unlisted == [rep EXCEPT !.listed = Never]

-----------------------------------------------------------------------------
(***************************************************************************)
(* Stamps.  A stamp is told by the window its challenge was made for.      *)
(***************************************************************************)

WindowOf(t) == t \div StampWindow

\* verifyStamp accepts the current window and the one before.
Verifies(stamp) == stamp \in {WindowOf(now), WindowOf(now) - 1}

\* Mutant of HandOut: the cache never gets old.
HandOutCached(p) ==
    IF cache.index >= 0
    THEN /\ at' = [at EXCEPT ![p] = "idle"]
         /\ unfit' = (unfit \/ ~Verifies(cache.stamp))
         /\ UNCHANGED <<mined, cache>>
    ELSE /\ at' = [at EXCEPT ![p] = "mining"]
         /\ mined' = [mined EXCEPT ![p] = WindowOf(now)]
         /\ UNCHANGED <<cache, unfit>>

\* getOrMine: from the cache, or else by mining.
HandOut(p) ==
    IF cache.index = WindowOf(now)
    THEN /\ at' = [at EXCEPT ![p] = "idle"]
         /\ unfit' = (unfit \/ ~Verifies(cache.stamp))
         /\ UNCHANGED <<mined, cache>>
    ELSE /\ at' = [at EXCEPT ![p] = "mining"]
         /\ mined' = [mined EXCEPT ![p] = WindowOf(now)]
         /\ UNCHANGED <<cache, unfit>>

\* Mining ends.  The stamp is kept for the window in which it does.
Mined(p) ==
    /\ at[p] = "mining"
    /\ at' = [at EXCEPT ![p] = "idle"]
    /\ cache' = [stamp |-> mined[p], index |-> WindowOf(now)]
    /\ mined' = [mined EXCEPT ![p] = 0]
    /\ unfit' = (unfit \/ ~Verifies(mined[p]))
    /\ UNCHANGED <<now, require, limiterVars, rep, accepted, seen, resets>>

-----------------------------------------------------------------------------
(***************************************************************************)
(* POST /memory.                                                           *)
(***************************************************************************)

Attempt(p) ==
    /\ at[p] = "idle"
    /\ ~Listed
    /\ seen' = now
    /\ UNCHANGED <<now, require, resets>>

\* 403: the peer is on the blacklist.
Blacklisted(p) ==
    /\ at[p] = "idle"
    /\ Listed
    /\ seen' = now
    /\ UNCHANGED <<now, require, at, limiterVars, rep, stampVars, accepted, resets>>

\* 413: too large.
Oversized(p) ==
    /\ Attempt(p)
    /\ rep' \in Scored(Unlisted, "OVERSIZED")
    /\ UNCHANGED <<at, limiterVars, stampVars, accepted>>

\* 429, and a soft ban from now on.
TooMany(p) ==
    /\ Attempt(p)
    /\ ~Allowed
    /\ rep' \in Scored(Unlisted, "RATE")
    /\ times' = IF Banned THEN times ELSE Pruned(times)
    /\ bannedUntil' = now + Window
    /\ UNCHANGED <<at, stampVars, accepted>>

\* It brings a signature: the handler awaits an import.
Verify(p) ==
    /\ Attempt(p)
    /\ Allowed
    /\ Checked(times)
    /\ rep' = Unlisted
    /\ at' = [at EXCEPT ![p] = "verifying"]
    /\ UNCHANGED <<stampVars, accepted>>

\* 400: no signature, or no stamp.  The chunk is made without one.
Unsigned(p) ==
    /\ Attempt(p)
    /\ Allowed
    /\ require # {}
    /\ Checked(times)
    /\ rep' = Unlisted
    /\ UNCHANGED <<at, stampVars, accepted>>

\* The checks are over: both stores record the event, and only then the chunk
\* is validated and gets its stamp.
Admit(p, r, valid) ==
    /\ "stamp" \notin require
    /\ times' = Recorded(times)
    /\ accepted' = [accepted EXCEPT ![now] = @ + 1]
    /\ IF valid
       THEN /\ rep' \in Scored(r, "VALID")
            /\ HandOut(p)
       ELSE /\ rep' \in UNION {Scored(x, "INVALID") : x \in Scored(r, "VALID")}
            /\ at' = [at EXCEPT ![p] = "idle"]
            /\ UNCHANGED stampVars

\* A POST without a signature gets through without a pause.
Pass(p, valid) ==
    /\ Attempt(p)
    /\ Allowed
    /\ "signature" \notin require
    /\ Admit(p, Unlisted, valid)
    /\ bannedUntil' = Never

\* The import is there; the signature itself is not looked at.
Verified(p, valid) ==
    /\ at[p] = "verifying"
    /\ Admit(p, rep, valid)
    /\ seen' = now
    /\ UNCHANGED <<now, require, bannedUntil, resets>>

Unstamped(p) ==
    /\ at[p] = "verifying"
    /\ "stamp" \in require
    /\ at' = [at EXCEPT ![p] = "idle"]
    /\ UNCHANGED <<now, require, limiterVars, rep, stampVars, accepted, seen, resets>>

-----------------------------------------------------------------------------
(***************************************************************************)
(* Everything else.                                                        *)
(***************************************************************************)

\* GET /security/reputation lets the score decay.
Report ==
    /\ \E s \in Decayed(rep) :
        rep' = [rep EXCEPT !.score = s,
                           !.updated = IF rep.score = 0 THEN @ ELSE now,
                           !.listed = IF Listed THEN @ ELSE Never]
    /\ UNCHANGED <<now, require, at, limiterVars, stampVars, accepted, seen, resets>>

\* DELETE /security/reputation/:peerId.
Clear ==
    /\ resets < MaxResets
    /\ resets' = resets + 1
    /\ rep' = [Fresh EXCEPT !.updated = now]
    /\ times' = None
    /\ bannedUntil' = Never
    /\ accepted' = None
    /\ UNCHANGED <<now, require, at, stampVars, seen>>

Restart ==
    /\ resets < MaxResets
    /\ resets' = resets + 1
    /\ at' = [p \in Posts |-> "idle"]
    /\ times' = None
    /\ bannedUntil' = Never
    /\ rep' = Fresh
    /\ mined' = [p \in Posts |-> 0]
    /\ cache' = Empty
    /\ accepted' = None
    /\ UNCHANGED <<now, require, seen, unfit>>

\* Mining takes less than a window.
Tick ==
    /\ now < MaxTime
    /\ \A p \in Posts : at[p] = "mining" => WindowOf(now + 1) <= mined[p] + 1
    /\ now' = now + 1
    /\ UNCHANGED <<require, at, limiterVars, rep, stampVars, accepted, seen, resets>>

Next ==
    \/ \E p \in Posts :
        \/ Blacklisted(p) \/ Oversized(p) \/ TooMany(p)
        \/ Verify(p) \/ Unsigned(p) \/ Unstamped(p)
        \/ \E valid \in BOOLEAN : Pass(p, valid) \/ Verified(p, valid)
        \/ Mined(p)
    \/ Report \/ Clear \/ Restart \/ Tick

Spec == Init /\ [][Next]_vars

-----------------------------------------------------------------------------
\* What was accepted in the window that ends at t.
AcceptedBy(t) == [u \in Times |-> IF t - Window <= u /\ u <= t THEN accepted[u] ELSE 0]

\* However the POSTs overlap between the answer of check() and record(), no
\* window sees more of them accepted than the limit and those that had passed
\* check() before: one less than can be under way.
WindowLimit ==
    \A t \in Times : Count(AcceptedBy(t)) <= Max + Cardinality(Posts) - 1

\* Soft bans, counted events and the temporary blacklist all run out: a peer
\* that did nothing for longer than the window passes the limiter, and one that
\* did nothing for longer than the blacklisting is on the list for good or not
\* at all, whatever it did before and however it was counted.
QuietIsLetIn ==
    (/\ \A p \in Posts : at[p] # "verifying"
     /\ now - seen > Window)
        => /\ Allowed
           /\ now - seen > TempSpan => (Listed => rep.permanent)

\* The limiter neither lets too many in nor keeps a quiet peer out.
LimitsHold == TypeOK /\ WindowLimit /\ QuietIsLetIn

\* A stamp that getOrMine hands out, mined just now or long ago, or across the
\* turn of a window, is accepted by verifyStamp at that moment.
StampsVerify == ~unfit
=============================================================================
