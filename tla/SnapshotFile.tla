---------------------------- MODULE SnapshotFile ----------------------------
(***************************************************************************)
(* The snapshot file of one LoroMemoryStore                                *)
(* (packages/core/src/loro-store.ts), and the writes a save is made of.    *)
(*                                                                         *)
(* A commit schedules a setImmediate callback that exports the document    *)
(* and calls writeFile, whose promise nobody keeps.  writeFile opens the   *)
(* path, which truncates the file, and then writes the bytes; each of      *)
(* these is a job of the thread pool, so that two calls for the same path  *)
(* interleave.  close() starts such a write itself if one is scheduled     *)
(* and waits for that write only.                                          *)
(***************************************************************************)
EXTENDS Integers, FiniteSets

CONSTANTS
    MaxCommits,     \* bound on commits
    Blocks,         \* jobs that write one snapshot
    Slots,          \* writes that can be under way at once
    LateCommits,    \* whether a request may write while close() waits
    MayFail,        \* whether a write may fail half-way (disk full)
    MaxCrashes,     \* bound on crashes
    MaxOpens        \* bound on opening the store again

ASSUME SnapshotAssumption ==
    /\ MaxCommits \in Nat
    /\ Blocks \in Nat \ {0}
    /\ MaxCrashes \in Nat
    /\ MaxOpens \in Nat
    /\ LateCommits \in BOOLEAN
    /\ MayFail \in BOOLEAN

VARIABLES
    made,           \* history: how many commits there have been
    doc,            \* the document of the open store
    savePending,
    immediates,     \* setImmediate callbacks that are queued
    phase,          \* of the store
    writes,         \* writes[s]: a writeFile under way
    flush,          \* the write that close() waits for
    exists,         \* there is a file at the path
    file,           \* file[b]: the snapshot block b was written for
    promised,       \* history: what a close() that returned had in the document
    removed,        \* the epoch was dropped
    calm,           \* history: no write failed or was met half-way, by another
                    \* write, an rm, a load, an exit or a crash, and no request
                    \* came while close() waited
    opens, crashes

storeVars == <<doc, savePending, immediates, phase, flush>>
diskVars  == <<writes, exists, file>>
histVars  == <<made, promised, removed, opens, crashes>>
vars == <<storeVars, diskVars, histVars, calm>>

Commits  == 1 .. MaxCommits
Snapshot == SUBSET Commits
Gap      == {0}                 \* nothing was written there
Empty    == [b \in 1 .. Blocks |-> Gap]

\* pos counts the jobs done: 0 before the open, b after block b is written.
\* A file that is removed lives on, without a name, for who had opened it.
Write == [version : Snapshot, pos : 0 .. Blocks, linked : BOOLEAN]
NoWrite == [version |-> {}, pos |-> -1, linked |-> FALSE]

UnderWay == {s \in Slots : writes[s] # NoWrite}

\* A step that finds a write under way ends the calm.
NothingMet == calm' = (calm /\ UnderWay = {})

\* createPersistent: a file that is not one whole snapshot does not load, and
\* the store starts fresh.
Loaded(f) == IF \E v \in Snapshot : \A b \in 1 .. Blocks : f[b] = v
             THEN f[1] ELSE {}

TypeOK ==
    /\ made \in 0 .. MaxCommits
    /\ doc \in Snapshot
    /\ savePending \in BOOLEAN
    /\ immediates \in Nat
    /\ phase \in {"open", "flushing", "closed", "down"}
    /\ writes \in [Slots -> Write \cup {NoWrite}]
    /\ phase = "flushing" => flush \in UnderWay
    /\ exists \in BOOLEAN
    /\ file \in [1 .. Blocks -> Snapshot \cup {Gap}]
    /\ promised \in Snapshot
    /\ removed \in BOOLEAN
    /\ calm \in BOOLEAN
    /\ opens \in 0 .. MaxOpens
    /\ crashes \in 0 .. MaxCrashes

Init ==
    /\ made = 0
    /\ doc = {}
    /\ savePending = FALSE
    /\ immediates = 0
    /\ phase = "open"
    /\ writes = [s \in Slots |-> NoWrite]
    /\ flush \in Slots
    /\ exists = FALSE
    /\ file = Empty
    /\ promised = {}
    /\ removed = FALSE
    /\ calm = TRUE
    /\ opens = 0
    /\ crashes = 0

-----------------------------------------------------------------------------
(***************************************************************************)
(* The store.                                                              *)
(***************************************************************************)

\* Mutant of Commit: what a peer sent is imported without scheduleSave.
CommitUnscheduled ==
    /\ phase = "open" \/ (LateCommits /\ phase = "flushing")
    /\ made < MaxCommits
    /\ made' = made + 1
    /\ doc' = doc \cup {made + 1}
    /\ calm' = (calm /\ phase = "open")
    /\ UNCHANGED <<savePending, immediates, phase, flush, diskVars, promised,
                   removed, opens, crashes>>

\* put, forget or importDelta, with scheduleSave.
Commit ==
    /\ phase = "open" \/ (LateCommits /\ phase = "flushing")
    /\ made < MaxCommits
    /\ made' = made + 1
    /\ doc' = doc \cup {made + 1}
    /\ savePending' = TRUE
    /\ immediates' = IF savePending THEN immediates ELSE immediates + 1
    /\ calm' = (calm /\ phase = "open")
    /\ UNCHANGED <<phase, flush, diskVars, promised, removed, opens, crashes>>

\* _saveSnapshot exports the document and calls writeFile.
StartWrite(s) ==
    /\ NothingMet
    /\ s \notin UnderWay
    /\ writes' = [writes EXCEPT ![s] =
                    [version |-> doc, pos |-> 0, linked |-> TRUE]]

\* The deferred save.  The document of a closed store is freed: the export
\* throws, and a warning is logged.
Immediate ==
    /\ immediates > 0
    /\ immediates' = immediates - 1
    /\ savePending' = FALSE
    /\ \/ phase \in {"open", "flushing"} /\ \E s \in Slots : StartWrite(s)
       \/ phase = "closed" /\ UNCHANGED <<writes, calm>>
    /\ UNCHANGED <<doc, phase, flush, exists, file, histVars>>

\* Mutant of Close: a save that is scheduled is left to its callback.
CloseUnflushed ==
    /\ phase = "open"
    /\ phase' = "closed"
    /\ promised' = doc
    /\ NothingMet
    /\ UNCHANGED <<doc, savePending, immediates, flush, diskVars, made,
                   removed, opens, crashes>>

\* close(): flush what is scheduled, or be done.
Close ==
    /\ phase = "open"
    /\ \/ /\ savePending
          /\ savePending' = FALSE
          /\ \E s \in Slots : StartWrite(s) /\ flush' = s
          /\ phase' = "flushing"
          /\ UNCHANGED promised
       \/ /\ ~savePending
          /\ NothingMet
          /\ phase' = "closed"
          /\ promised' = doc
          /\ UNCHANGED <<savePending, flush, writes>>
    /\ UNCHANGED <<doc, immediates, exists, file, made, removed, opens,
                   crashes>>

\* The document is freed when the write close() waits for has settled.
Settle(s) ==
    /\ writes' = [writes EXCEPT ![s] = NoWrite]
    /\ IF phase = "flushing" /\ s = flush
       THEN phase' = "closed" /\ promised' = doc
       ELSE UNCHANGED <<phase, promised>>

-----------------------------------------------------------------------------
(***************************************************************************)
(* The thread pool.                                                        *)
(***************************************************************************)

\* open(path, 'w'): the file is there, and empty.
OpenFile(s) ==
    /\ s \in UnderWay
    /\ writes[s].pos = 0 /\ writes[s].linked
    /\ exists' = TRUE
    /\ file' = Empty
    /\ writes' = [writes EXCEPT ![s].pos = 1]
    /\ UNCHANGED <<storeVars, histVars, calm>>

\* A block is written at its place, and the last one settles the promise.
WriteBlock(s) ==
    /\ s \in UnderWay
    /\ writes[s].pos > 0
    /\ file' = IF writes[s].linked
               THEN [file EXCEPT ![writes[s].pos] = writes[s].version]
               ELSE file
    /\ IF writes[s].pos < Blocks
       THEN /\ writes' = [writes EXCEPT ![s].pos = @ + 1]
            /\ UNCHANGED <<phase, promised>>
       ELSE Settle(s)
    /\ UNCHANGED <<doc, savePending, immediates, flush, exists, made, removed,
                   opens, crashes, calm>>

\* Mutant of WriteFails: close() does not catch the error of its flush.
WriteFailsUncaught(s) ==
    /\ MayFail
    /\ s \in UnderWay
    /\ writes' = [writes EXCEPT ![s] = NoWrite]
    /\ calm' = FALSE
    /\ UNCHANGED <<storeVars, exists, file, histVars>>

\* A write that fails is logged, or swallowed by close(); it keeps what it
\* has written.
WriteFails(s) ==
    /\ MayFail
    /\ s \in UnderWay
    /\ Settle(s)
    /\ calm' = FALSE
    /\ UNCHANGED <<doc, savePending, immediates, flush, exists, file, made,
                   removed, opens, crashes>>

-----------------------------------------------------------------------------
(***************************************************************************)
(* The owner of the store, and the process.                                *)
(***************************************************************************)

\* dropExpiredEpochs removes the file of a store it has closed.
Remove ==
    /\ phase = "closed"
    /\ NothingMet
    /\ removed' = TRUE
    /\ exists' = FALSE
    /\ file' = Empty
    /\ writes' = [s \in Slots |->
                    IF s \in UnderWay
                    THEN [writes[s] EXCEPT !.linked = (writes[s].pos = 0)]
                    ELSE NoWrite]
    /\ promised' = {}
    /\ UNCHANGED <<storeVars, made, opens, crashes>>

\* The process goes, and its writes with it.
Gone ==
    /\ phase' = "down"
    /\ writes' = [s \in Slots |-> NoWrite]
    /\ immediates' = 0
    /\ savePending' = FALSE
    /\ UNCHANGED <<doc, flush, exists, file, made, promised, removed, opens>>

\* process.exit at the end of shutdown, after close().
Exit ==
    /\ phase = "closed"
    /\ NothingMet
    /\ Gone
    /\ UNCHANGED crashes

Crash ==
    /\ phase # "down"
    /\ crashes < MaxCrashes
    /\ Gone
    /\ calm' = FALSE
    /\ crashes' = crashes + 1

\* createPersistent: in a new process, or after leaving a network and joining
\* it again in the same one.
Open ==
    /\ phase \in {"closed", "down"}
    /\ ~removed
    /\ NothingMet
    /\ opens < MaxOpens
    /\ opens' = opens + 1
    /\ phase' = "open"
    /\ doc' = Loaded(file)
    /\ savePending' = FALSE
    /\ immediates' = 0
    /\ UNCHANGED <<flush, diskVars, made, promised, removed, crashes>>

Next ==
    \/ Commit
    \/ Immediate
    \/ Close
    \/ \E s \in Slots : OpenFile(s) \/ WriteBlock(s) \/ WriteFails(s)
    \/ Remove
    \/ Exit
    \/ Crash
    \/ Open

Spec == Init /\ [][Next]_vars

\* Callbacks run and the thread pool does its jobs.
Fairness ==
    /\ WF_vars(Immediate)
    /\ \A s \in Slots : WF_vars(OpenFile(s)) /\ WF_vars(WriteBlock(s))

FairSpec == Spec /\ Fairness

-----------------------------------------------------------------------------
(***************************************************************************)
(* Properties.                                                             *)
(***************************************************************************)

\* The persistence tests: what was in a store whose close() returned is there
\* when it is opened again.
SurvivesClose == phase = "open" => promised \subseteq doc

\* It is, as long as every write ends before anything else comes to the file.
CalmSurvivesClose == calm => SurvivesClose

\* In the same calm, the file of a dropped epoch does not come back.
RemovedStaysAway == calm /\ removed => ~exists

\* What holds of a file whose writes do not overlap: close() keeps what the
\* store has, and drop() is for good.
CalmFileIsSound == TypeOK /\ CalmSurvivesClose /\ RemovedStaysAway

\* What an open store was given gets to its file, although only one callback
\* is ever scheduled for any number of commits.
EverySaved ==
    \A c \in Commits :
        phase = "open" /\ c \in doc ~> c \in Loaded(file) \/ removed \/ ~calm

\* close() returns, whatever fails and whatever else is written meanwhile.
CloseReturns == phase = "flushing" ~> phase # "flushing"

\* Both the deferred save and the one that close() waits for come to an end.
SavesEnd == EverySaved /\ CloseReturns

\* What is on disk, counting a write as done when it starts.
Disk ==
    IF UnderWay = {} THEN Loaded(file)
    ELSE writes[CHOOSE s \in UnderWay : TRUE].version

Store == INSTANCE DurableDoc WITH
            doc <- IF calm THEN doc ELSE {},
            disk <- IF calm THEN Disk ELSE {},
            isOpen <- calm /\ phase \in {"open", "flushing"},
            broken <- ~calm

\* Until the calm ends, the deferred and truncating writes are the saves of
\* one step that EpochStore takes for granted.
ImplementsDurableDoc == Store!Spec

=============================================================================
