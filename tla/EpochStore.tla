----------------------------- MODULE EpochStore -----------------------------
(***************************************************************************)
(* One LoroEpochManager (packages/core/src/loro-epoch-manager.ts) with the *)
(* snapshot files of its epoch stores and the daemon's GC scheduler        *)
(* (packages/daemon/src/gc-scheduler.ts) that drives it.                   *)
(*                                                                         *)
(* A store is a CRDT map from chunk ids to a live chunk or a tombstone;    *)
(* the manager writes to the store of the current epoch, reads every open  *)
(* epoch newest first, and at an epoch boundary opens a new store, copies  *)
(* the live chunks of epochs that leave the retention window into it, and  *)
(* deletes those epochs with their files.  Each action below is the code   *)
(* between two awaits that reach the event loop: opening a store, flushing *)
(* one that is being closed, deleting a file.  A background save is one    *)
(* step here; SnapshotFile models the writes it is made of.                *)
(***************************************************************************)
EXTENDS Integers, FiniteSets

CONSTANTS
    Ids,            \* chunk ids
    Ttls,           \* the ttl a chunk may carry: NoTtl or a time
    Dur,            \* config.epochDurationMs, in ticks of the clock
    Retain,         \* config.retainEpochs
    MaxEpoch,       \* bound: the clock stops at the end of this epoch
    Runs,           \* runAll() invocations that may overlap
    MayLag,         \* whether the I/O of another manager may hold a run up
                    \* between its Date.now() and this manager's turn
    MaxExits,       \* bound on crashes and graceful shutdowns
    SaveMayFail     \* whether a background writeFile may reject (disk full)

NoTtl == -1         \* chunk.ttl is undefined: a permanent chunk

ASSUME ConfigAssumption ==
    /\ Dur \in Nat \ {0}
    /\ Retain \in Nat
    /\ MaxEpoch \in Nat
    /\ MayLag \in BOOLEAN
    /\ MaxExits \in Nat
    /\ SaveMayFail \in BOOLEAN
    /\ Ttls \subseteq Int

VARIABLES
    clock,                \* Date.now()
    up,                   \* the daemon runs and the manager exists
    currentEpochId,
    open,                 \* keys of the manager's epochs Map
    doc,                  \* doc[e]: the LoroDoc of the open store of e
    savePending,          \* savePending[e] of that store
    file,                 \* file[e]: content of <e>.bin, empty when there is none
    migrationInProgress,
    pc,                   \* pc[r]: where invocation r of runAll() stands
    now,                  \* now[r]: the time it captured when it began
    todo,                 \* todo[r]: epoch ids dropExpiredEpochs still visits
    closing,              \* closing[r]: the epoch whose close or rm it awaits
    ttl,                  \* ttl[id] of the chunk with this id
    written,              \* history: ids whose put was acknowledged
    forgotten,            \* history: ids whose forget was acknowledged
    known,                \* history: ids this process owes its readers
    overtaken,            \* history: the last rotation found a run that dropped
    exits                 \* how often the process ended

storeVars == <<currentEpochId, open, doc, savePending>>
runVars   == <<migrationInProgress, pc, now, todo, closing>>
ghostVars == <<ttl, written, forgotten, known, overtaken>>
vars == <<clock, up, storeVars, file, runVars, ghostVars, exits>>

Epoch   == 0 .. MaxEpoch
NoEpoch == -1
Entry   == {"absent", "live", "dead"}      \* dead is a tombstone
Doc     == [Ids -> Entry]
EmptyDoc == [id \in Ids |-> "absent"]
LastTick == (MaxEpoch + 1) * Dur - 1

\* Mutant of EpochOf: the quotient is rounded up.
EpochOfRounded(t) == (t + Dur - 1) \div Dur

EpochOf(t)    == t \div Dur                \* computeEpochId
StartOf(e)    == e * Dur                   \* epochStartMs
\* Mutant of Cutoff: one epoch too many is retained.
CutoffOneLess(t) == t - (Retain + 2) * Dur

Cutoff(t)     == t - (Retain + 1) * Dur    \* retentionCutoffMs
Leaving(e, t) == StartOf(e) < Cutoff(t)

Window(e)     == {p \in Epoch : p <= e /\ e - Retain <= p}

ExpiredAt(id, t) == ttl[id] # NoTtl /\ ttl[id] < t

LiveEpochs(id) == {e \in open : doc[e][id] = "live"}
Visible(id)    == LiveEpochs(id) # {}      \* get(id) returns the chunk

Newest(S) == CHOOSE e \in S : \A f \in S : f <= e

(***************************************************************************)
(* The store forget() writes the tombstone to: that of the newest epoch    *)
(* that still holds the chunk, or the current one when none does.          *)
(***************************************************************************)
ForgetTarget(id) ==
    IF Visible(id) THEN Newest(LiveEpochs(id)) ELSE currentEpochId

Forgetting(S) ==
    /\ doc' = [e \in Epoch |-> [id \in Ids |->
                 IF id \in S /\ e = ForgetTarget(id) THEN "dead"
                 ELSE doc[e][id]]]
    /\ savePending' = [e \in Epoch |->
                         savePending[e] \/ \E id \in S : e = ForgetTarget(id)]

(***************************************************************************)
(* Node runs one callback at a time: while an invocation of runAll() has   *)
(* not reached an await of I/O, nothing else takes a step.                 *)
(***************************************************************************)
Busy(r) ==
    \/ pc[r] = "check" /\ ~MayLag
    \/ pc[r] = "dropping" /\ closing[r] = NoEpoch

Yielded == \A r \in Runs : ~Busy(r)
Turn(r) == \A s \in Runs \ {r} : ~Busy(s)

TypeOK ==
    /\ clock \in 0 .. LastTick
    /\ up \in BOOLEAN
    /\ currentEpochId \in Epoch
    /\ open \in SUBSET Epoch
    /\ doc \in [Epoch -> Doc]
    /\ savePending \in [Epoch -> BOOLEAN]
    /\ file \in [Epoch -> Doc]
    /\ migrationInProgress \in BOOLEAN
    /\ pc \in [Runs -> {"idle", "check", "opening", "dropping"}]
    /\ now \in [Runs -> 0 .. LastTick]
    /\ todo \in [Runs -> SUBSET Epoch]
    /\ closing \in [Runs -> Epoch \cup {NoEpoch}]
    /\ ttl \in [Ids -> Ttls]
    /\ written \in SUBSET Ids
    /\ forgotten \in SUBSET Ids
    /\ known \in SUBSET Ids
    /\ overtaken \in BOOLEAN
    /\ exits \in 0 .. MaxExits

Init ==
    /\ clock = 0
    /\ up = TRUE
    /\ currentEpochId = 0
    /\ open = {0}
    /\ doc = [e \in Epoch |-> EmptyDoc]
    /\ savePending = [e \in Epoch |-> FALSE]
    /\ file = [e \in Epoch |-> EmptyDoc]
    /\ migrationInProgress = FALSE
    /\ pc = [r \in Runs |-> "idle"]
    /\ now = [r \in Runs |-> 0]
    /\ todo = [r \in Runs |-> {}]
    /\ closing = [r \in Runs |-> NoEpoch]
    /\ ttl \in [Ids -> Ttls]
    /\ written = {}
    /\ forgotten = {}
    /\ known = {}
    /\ overtaken = FALSE
    /\ exits = 0

-----------------------------------------------------------------------------
(***************************************************************************)
(* Requests.                                                               *)
(***************************************************************************)

\* POST /memory: a chunk under a fresh id goes to the current epoch's store.
Put(id) ==
    /\ up
    /\ Yielded
    /\ currentEpochId \in open
    /\ id \notin written
    /\ doc' = [doc EXCEPT ![currentEpochId][id] = "live"]
    /\ savePending' = [savePending EXCEPT ![currentEpochId] = TRUE]
    /\ written' = written \cup {id}
    /\ known' = known \cup {id}
    /\ UNCHANGED <<clock, up, currentEpochId, open, file, runVars, ttl,
                   forgotten, overtaken, exits>>

\* DELETE /memory/:id: the route forgets an id that get() returned.
Forget(id) ==
    /\ up
    /\ Yielded
    /\ Visible(id)
    /\ Forgetting({id})
    /\ forgotten' = forgotten \cup {id}
    /\ UNCHANGED <<clock, up, currentEpochId, open, file, runVars, ttl,
                   written, known, overtaken, exits>>

\* The deferred save of one store: its whole document replaces the file.
Save(e) ==
    /\ up
    /\ Yielded
    /\ e \in open
    /\ savePending[e]
    /\ file' = [file EXCEPT ![e] = doc[e]]
    /\ savePending' = [savePending EXCEPT ![e] = FALSE]
    /\ UNCHANGED <<clock, up, currentEpochId, open, doc, runVars, ghostVars,
                   exits>>

\* The same save when writeFile rejects: a warning is logged, that is all.
SaveFails(e) ==
    /\ SaveMayFail
    /\ up
    /\ Yielded
    /\ e \in open
    /\ savePending[e]
    /\ savePending' = [savePending EXCEPT ![e] = FALSE]
    /\ UNCHANGED <<clock, up, currentEpochId, open, doc, file, runVars,
                   ghostVars, exits>>

-----------------------------------------------------------------------------
(***************************************************************************)
(* One invocation of runAll(): TTL collection, rotation, dropping.         *)
(***************************************************************************)

\* Mutant of RunStart: runGC lists the chunks of the current epoch only.
RunStartCurrentOnly(r) ==
    /\ up
    /\ Turn(r)
    /\ pc[r] = "idle"
    /\ Forgetting({id \in Ids : /\ currentEpochId \in LiveEpochs(id)
                               /\ ExpiredAt(id, clock)})
    /\ pc' = [pc EXCEPT ![r] = "check"]
    /\ now' = [now EXCEPT ![r] = clock]
    /\ UNCHANGED <<clock, up, currentEpochId, open, file,
                   migrationInProgress, todo, closing, ghostVars, exits>>

\* runAll captures the time; runGC then tombstones every expired chunk that
\* list() returns.
RunStart(r) ==
    /\ up
    /\ Turn(r)
    /\ pc[r] = "idle"
    /\ Forgetting({id \in Ids : Visible(id) /\ ExpiredAt(id, clock)})
    /\ pc' = [pc EXCEPT ![r] = "check"]
    /\ now' = [now EXCEPT ![r] = clock]
    /\ UNCHANGED <<clock, up, currentEpochId, open, file,
                   migrationInProgress, todo, closing, ghostVars, exits>>

\* maybeRotateEpoch(now) finds nothing to do, or a rotation under way.
NoRotation(r) ==
    /\ Turn(r)
    /\ pc[r] = "check"
    /\ EpochOf(now[r]) = currentEpochId \/ migrationInProgress
    /\ pc' = [pc EXCEPT ![r] = "idle"]
    /\ UNCHANGED <<clock, up, storeVars, file, migrationInProgress, now,
                   todo, closing, ghostVars, exits>>

\* Mutant of RotateBegin: the current epoch changes before its store is open.
RotateBeginEarly(r) ==
    /\ Turn(r)
    /\ pc[r] = "check"
    /\ EpochOf(now[r]) # currentEpochId
    /\ ~migrationInProgress
    /\ migrationInProgress' = TRUE
    /\ currentEpochId' = EpochOf(now[r])
    /\ pc' = [pc EXCEPT ![r] = "opening"]
    /\ UNCHANGED <<clock, up, open, doc, savePending, file, now, todo,
                   closing, ghostVars, exits>>

\* rotateEpoch(EpochOf(now)) up to the await of _openEpochStore.
RotateBegin(r) ==
    /\ Turn(r)
    /\ pc[r] = "check"
    /\ EpochOf(now[r]) # currentEpochId
    /\ ~migrationInProgress
    /\ migrationInProgress' = TRUE
    /\ pc' = [pc EXCEPT ![r] = "opening"]
    /\ UNCHANGED <<clock, up, storeVars, file, now, todo, closing,
                   ghostVars, exits>>

\* Mutant of Migrated: chunks that carry a ttl are not worth copying.
MigratedPermanent(new, t) ==
    {id \in Ids : /\ ttl[id] = NoTtl
                  /\ \E e \in open \ {new} : /\ Leaving(e, t)
                                             /\ doc[e][id] = "live"}

\* Mutant of Migrated: an epoch leaves when its end is before the cutoff.
MigratedByEnd(new, t) ==
    {id \in Ids : /\ ~ExpiredAt(id, t)
                  /\ \E e \in open \ {new} : /\ Leaving(e + 1, t)
                                             /\ doc[e][id] = "live"}

\* Mutant of Migrated: every entry of a leaving epoch is copied.
MigratedEntries(new, t) ==
    {id \in Ids : /\ ~ExpiredAt(id, t)
                  /\ \E e \in open \ {new} : /\ Leaving(e, t)
                                             /\ doc[e][id] # "absent"}

\* _migrateChunks copies these into the new epoch's store.
Migrated(new, t) ==
    {id \in Ids : /\ ~ExpiredAt(id, t)
                  /\ \E e \in open \ {new} : /\ Leaving(e, t)
                                             /\ doc[e][id] = "live"}

\* The store is open: it joins the Map, the leaving epochs are migrated, the
\* current epoch changes, and dropExpiredEpochs lists the epochs to visit.
\* Nothing in here awaits I/O.
RotateFinish(r) ==
    LET new   == EpochOf(now[r])
        moved == Migrated(new, now[r])
    IN
    /\ Turn(r)
    /\ pc[r] = "opening"
    /\ open' = open \cup {new}
    /\ doc' = [doc EXCEPT ![new] =
                 [id \in Ids |-> IF id \in moved THEN "live"
                                 ELSE file[new][id]]]
    /\ savePending' = [savePending EXCEPT ![new] = (moved # {})]
    /\ currentEpochId' = new
    /\ migrationInProgress' = FALSE
    /\ pc' = [pc EXCEPT ![r] = "dropping"]
    /\ todo' = [todo EXCEPT ![r] = open']
    /\ overtaken' = \E s \in Runs \ {r} : pc[s] = "dropping"
    /\ UNCHANGED <<clock, up, file, now, closing, ttl, written, forgotten, known,
                   exits>>

\* The next epoch dropExpiredEpochs(now) does not skip.
MustDrop(r, e) ==
    /\ pc[r] = "dropping"
    /\ closing[r] = NoEpoch
    /\ e \in todo[r]
    /\ e # currentEpochId
    /\ Leaving(e, now[r])

\* store.close() of a store with a save pending awaits the write.
DropFlush(r, e) ==
    /\ Turn(r)
    /\ MustDrop(r, e)
    /\ e \in open
    /\ savePending[e]
    /\ file' = [file EXCEPT ![e] = doc[e]]
    /\ savePending' = [savePending EXCEPT ![e] = FALSE]
    /\ closing' = [closing EXCEPT ![r] = e]
    /\ UNCHANGED <<clock, up, currentEpochId, open, doc,
                   migrationInProgress, pc, now, todo, ghostVars, exits>>

\* The store is closed, its document freed and its epoch out of the Map;
\* without a pending save close() does not wait.
DropClose(r, e) ==
    /\ Turn(r)
    /\ \/ MustDrop(r, e) /\ e \in open /\ ~savePending[e]
       \/ pc[r] = "dropping" /\ closing[r] = e /\ e \in todo[r]
    /\ open' = open \ {e}
    /\ doc' = [doc EXCEPT ![e] = EmptyDoc]
    /\ savePending' = [savePending EXCEPT ![e] = FALSE]
    /\ todo' = [todo EXCEPT ![r] = @ \ {e}]
    /\ closing' = [closing EXCEPT ![r] = e]
    /\ UNCHANGED <<clock, up, currentEpochId, file, migrationInProgress, pc,
                   now, ghostVars, exits>>

\* stat and rm of the snapshot file.
DropRemove(r) ==
    /\ Turn(r)
    /\ pc[r] = "dropping"
    /\ closing[r] # NoEpoch
    /\ closing[r] \notin todo[r]
    /\ file' = [file EXCEPT ![closing[r]] = EmptyDoc]
    /\ closing' = [closing EXCEPT ![r] = NoEpoch]
    /\ UNCHANGED <<clock, up, storeVars, migrationInProgress, pc, now, todo,
                   ghostVars, exits>>

\* Nothing is left to drop; or another invocation deleted the epoch first,
\* and the TypeError of epochs.get(e)! ends this one in runAll's catch.
DropEnd(r) ==
    /\ Turn(r)
    /\ pc[r] = "dropping"
    /\ closing[r] = NoEpoch
    /\ \/ \A e \in todo[r] : ~MustDrop(r, e)
       \/ \E e \in todo[r] \ open : MustDrop(r, e)
    /\ pc' = [pc EXCEPT ![r] = "idle"]
    /\ todo' = [todo EXCEPT ![r] = {}]
    /\ UNCHANGED <<clock, up, storeVars, file, migrationInProgress, now,
                   closing, ghostVars, exits>>

-----------------------------------------------------------------------------
(***************************************************************************)
(* The process.                                                            *)
(***************************************************************************)

\* The manager's memory is gone, and with it every runAll() in flight.
Down ==
    /\ up' = FALSE
    /\ open' = {}
    /\ doc' = [e \in Epoch |-> EmptyDoc]
    /\ savePending' = [e \in Epoch |-> FALSE]
    /\ migrationInProgress' = FALSE
    /\ pc' = [r \in Runs |-> "idle"]
    /\ todo' = [r \in Runs |-> {}]
    /\ closing' = [r \in Runs |-> NoEpoch]
    /\ known' = {}
    /\ overtaken' = FALSE
    /\ UNCHANGED <<clock, currentEpochId, now, ttl, written>>

\* What the daemon still owes of its tombstones once its memory is gone: the
\* ones that are in a snapshot file.
Saved == {id \in forgotten : \A e \in open :
            doc[e][id] = "dead" => file'[e][id] = "dead"}

\* Shutdown: close() flushes every store with a save pending; a write that
\* rejects is swallowed.
Stop ==
    /\ up
    /\ Yielded
    /\ exits < MaxExits
    /\ Down
    /\ \E flushed \in SUBSET {e \in open : savePending[e]} :
         /\ SaveMayFail \/ flushed = {e \in open : savePending[e]}
         /\ file' = [e \in Epoch |-> IF e \in flushed THEN doc[e]
                                     ELSE file[e]]
    /\ forgotten' = IF SaveMayFail THEN Saved ELSE forgotten
    /\ exits' = exits + 1

\* A crash loses what no save has written.
Crash ==
    /\ up
    /\ exits < MaxExits
    /\ Down
    /\ file' = file
    /\ forgotten' = Saved
    /\ exits' = exits + 1

\* LoroEpochManager.create: only the current epoch and Retain past ones are
\* opened, whatever other files the directory holds.
Create ==
    LET current == EpochOf(clock) IN
    /\ ~up
    /\ up' = TRUE
    /\ currentEpochId' = current
    /\ open' = Window(current)
    /\ doc' = [e \in Epoch |-> IF e \in Window(current) THEN file[e]
                               ELSE EmptyDoc]
    /\ known' = {id \in Ids : \E e \in Window(current) : file[e][id] = "live"}
    /\ UNCHANGED <<clock, savePending, file, runVars, ttl, written,
                   forgotten, overtaken, exits>>

Tick ==
    /\ Yielded
    /\ clock < LastTick
    /\ clock' = clock + 1
    /\ UNCHANGED <<up, storeVars, file, runVars, ghostVars, exits>>

RunStep(r) ==
    \/ RunStart(r)
    \/ NoRotation(r)
    \/ RotateBegin(r)
    \/ RotateFinish(r)
    \/ \E e \in Epoch : DropFlush(r, e) \/ DropClose(r, e)
    \/ DropRemove(r)
    \/ DropEnd(r)

Next ==
    \/ \E id \in Ids : Put(id) \/ Forget(id)
    \/ \E e \in Epoch : Save(e) \/ SaveFails(e)
    \/ \E r \in Runs : RunStep(r)
    \/ Stop
    \/ Crash
    \/ Create
    \/ Tick

Spec == Init /\ [][Next]_vars

\* setInterval keeps calling runAll, its awaits settle, and time passes.
Fairness ==
    /\ SF_vars(Tick)
    /\ \A r \in Runs : SF_vars(RunStep(r))

FairSpec == Spec /\ Fairness

-----------------------------------------------------------------------------
(***************************************************************************)
(* Properties.                                                             *)
(***************************************************************************)

\* What a reader may still ask for: acknowledged, not forgotten, not expired.
Owed(id) == id \notin forgotten /\ ~ExpiredAt(id, clock)

\* currentStore() finds the current epoch in the Map: no drop ever removes
\* the epoch that writes go to, whatever overlaps it.
CurrentIsOpen == up => currentEpochId \in open

\* A running daemon never loses a chunk: from its put, or from the moment
\* the daemon started and could read it, get() returns the chunk until it
\* is forgotten or expires, across every rotation, migration and drop.
NothingLostWhileRunning ==
    up => \A id \in known : Owed(id) => Visible(id)

\* Once get() of a running manager has stopped returning a forgotten chunk, no
\* rotation, migration or drop makes it readable again.
ForgottenStaysAway ==
    [][up => \A id \in forgotten : Visible(id)' => Visible(id)]_vars

\* While no run drops epochs the manager holds no more than the retained ones,
\* plus the one that left the window at that very tick; unless the last rotation
\* came while another run was dropping, which may end the later run before it is
\* through with what it has to drop.
WindowBounded ==
    up /\ ~overtaken /\ (\A r \in Runs : pc[r] # "dropping") =>
        \A e \in open : /\ e <= currentEpochId
                        /\ currentEpochId - Retain - 1 <= e

\* A chunk leaves the snapshot file of an epoch, when the file is rewritten
\* or deleted, only if nobody is owed the chunk or it is readable without it.
FilesRemovedAreMigrated ==
    [][\A e \in Epoch, id \in Ids :
         /\ file[e][id] = "live" /\ file'[e][id] # "live"
         /\ Owed(id)
         => Visible(id)]_vars

\* The documentation of persistent storage: what was written is still
\* readable after the daemon restarts.
SurvivesRestart ==
    up => \A id \in written : Owed(id) => Visible(id)

\* When the file of a dropped epoch goes, what it held is on disk elsewhere.
DroppedIsOnDisk ==
    [][\A e \in Epoch, id \in Ids :
         /\ file[e][id] = "live" /\ file'[e][id] = "absent"
         /\ Owed(id)
         => \E f \in Epoch : file'[f][id] = "live"]_vars

\* An expired chunk eventually stops being readable.
TtlEnforced ==
    \A id \in Ids : ExpiredAt(id, clock) ~> ~Visible(id)

\* The scheduler eventually brings the manager to the epoch of the clock.
RotationHappens == []<>(up => currentEpochId = EpochOf(clock))

\* The scheduler keeps up with the clock, with both of its tasks.
SchedulerKeepsUp == TtlEnforced /\ RotationHappens

=============================================================================
