--------------------------- MODULE StorageProofs ---------------------------
(***************************************************************************)
(* What a node keeps, for every value of the constants: the snapshot file  *)
(* (SnapshotFile), the versions of its memories (Versions) and the weeks   *)
(* of its epochs (WeekEpochs).  The three components share no state, and   *)
(* each has an invariant of its own here.                                  *)
(***************************************************************************)
EXTENDS SnapshotFile, Versions, WeekEpochs, WellFoundedInduction, TLAPS

-----------------------------------------------------------------------------
(***************************************************************************)
(* The snapshot file, for any number of commits, blocks, writes and        *)
(* restarts: what it holds until a write meets something, and that until   *)
(* then its saves are those of a DurableDoc.                               *)
(***************************************************************************)

Running == phase \in {"open", "flushing"}

\* While it is calm, a write that is under way is the only one, and it has put
\* its version into the blocks before its position.
BlocksWritten ==
    \A s \in UnderWay :
        /\ writes[s].linked
        /\ \A t \in UnderWay : t = s
        /\ \A b \in 1 .. Blocks : b < writes[s].pos => file[b] = writes[s].version

\* The strengthening of CalmFileIsSound: what is on disk, or on its way there,
\* is the whole document unless a save is scheduled.
CalmInv ==
    calm =>
        /\ BlocksWritten
        /\ Running => promised \subseteq doc /\ doc \subseteq 1 .. made
        /\ phase = "flushing" => ~savePending
        /\ Running /\ ~savePending => Disk = doc
        /\ ~Running => UnderWay = {} /\ Loaded(file) = promised
        /\ ~Running => promised \subseteq 1 .. made
        /\ removed => ~Running /\ ~exists

-----------------------------------------------------------------------------
(***************************************************************************)
(* What a file holds.                                                      *)
(***************************************************************************)

\* Where nothing was written is no snapshot of the store.
LEMMA GapIsNoSnapshot == Gap \notin Snapshot
BY SnapshotAssumption DEF Gap, Snapshot, Commits

LEMMA LoadedTyped ==
    ASSUME NEW f \in [1 .. Blocks -> Snapshot \cup {Gap}]
    PROVE  Loaded(f) \in Snapshot
<1>1. 1 \in 1 .. Blocks
  BY SnapshotAssumption
<1>2. {} \in Snapshot
  BY DEF Snapshot
<1> QED
  BY <1>1, <1>2 DEF Loaded

LEMMA LoadedEmpty == Loaded(Empty) = {}
<1>1. 1 \in 1 .. Blocks
  BY SnapshotAssumption
<1> QED
  BY <1>1, GapIsNoSnapshot DEF Loaded, Empty

\* A file with one version in every block is that version.
LEMMA LoadedWhole ==
    ASSUME NEW f, NEW v \in Snapshot, \A b \in 1 .. Blocks : f[b] = v
    PROVE  Loaded(f) = v
<1>1. 1 \in 1 .. Blocks
  BY SnapshotAssumption
<1> QED
  BY <1>1 DEF Loaded

LEMMA WritesAre ==
    ASSUME TypeOK, NEW s \in Slots
    PROVE  /\ s \in UnderWay <=> writes[s] \in Write
           /\ s \in UnderWay => /\ writes[s].version \in Snapshot
                                /\ writes[s].pos \in 0 .. Blocks
                                /\ writes[s].linked \in BOOLEAN
<1>1. NoWrite \notin Write
  BY SnapshotAssumption DEF NoWrite, Write
<1> QED
  BY <1>1 DEF TypeOK, UnderWay, Write

-----------------------------------------------------------------------------
(***************************************************************************)
(* Types.                                                                  *)
(***************************************************************************)

LEMMA StartTyped ==
    ASSUME TypeOK, NEW s \in Slots, StartWrite(s)
    PROVE  /\ writes' \in [Slots -> Write \cup {NoWrite}]
           /\ UnderWay' = UnderWay \cup {s} /\ s \notin UnderWay
           /\ calm' \in BOOLEAN
<1>1. [version |-> doc, pos |-> 0, linked |-> TRUE] \in Write
  BY SnapshotAssumption DEF TypeOK, Write
<1>2. [version |-> doc, pos |-> 0, linked |-> TRUE] # NoWrite
  BY DEF NoWrite
<1> QED
  BY <1>1, <1>2 DEF StartWrite, NothingMet, TypeOK, UnderWay

LEMMA SettleTyped ==
    ASSUME TypeOK, NEW s \in Slots, Settle(s), UNCHANGED <<doc, flush>>
    PROVE  /\ writes' \in [Slots -> Write \cup {NoWrite}]
           /\ UnderWay' = UnderWay \ {s}
           /\ phase' \in {"open", "flushing", "closed", "down"}
           /\ phase' = "flushing" => flush' \in UnderWay'
           /\ promised' \in Snapshot
BY DEF Settle, TypeOK, UnderWay

LEMMA FileTyped == TypeOK /\ [Next]_vars => TypeOK'
<1> SUFFICES ASSUME TypeOK, [Next]_vars PROVE TypeOK'
  OBVIOUS
<1>1. CASE Commit
  <2>1. made' \in 0 .. MaxCommits /\ made + 1 \in Commits
    BY <1>1, SnapshotAssumption DEF Commit, TypeOK, Commits
  <2>2. doc' \in Snapshot /\ immediates' \in Nat /\ savePending' \in BOOLEAN /\ calm' \in BOOLEAN
    BY <1>1, <2>1 DEF Commit, TypeOK, Snapshot
  <2> QED
    BY <1>1, <2>1, <2>2 DEF Commit, TypeOK, diskVars, UnderWay
<1>2. CASE Immediate
  <2>1. immediates' \in Nat /\ savePending' \in BOOLEAN
    <3>1. immediates \in Nat /\ immediates > 0 /\ immediates' = immediates - 1
      BY <1>2 DEF Immediate, TypeOK
    <3>2. savePending' \in BOOLEAN
      BY <1>2 DEF Immediate
    <3> QED
      BY <3>1, <3>2
  <2>2. writes' \in [Slots -> Write \cup {NoWrite}] /\ UnderWay \subseteq UnderWay' /\ calm' \in BOOLEAN
    BY <1>2, StartTyped DEF Immediate, UnderWay, TypeOK
  <2> QED
    BY <1>2, <2>1, <2>2 DEF Immediate, TypeOK, histVars
<1>3. CASE Close
  <2>1. ASSUME NEW s \in Slots, StartWrite(s), flush' = s, phase' = "flushing",
               UNCHANGED promised, savePending' = FALSE
        PROVE  TypeOK'
    <3>1. writes' \in [Slots -> Write \cup {NoWrite}] /\ flush' \in UnderWay' /\ calm' \in BOOLEAN
      BY <2>1, StartTyped
    <3> QED
      BY <1>3, <2>1, <3>1 DEF Close, TypeOK
  <2>2. CASE ~savePending /\ NothingMet /\ phase' = "closed" /\ promised' = doc
             /\ UNCHANGED <<savePending, flush, writes>>
    BY <1>3, <2>2 DEF Close, TypeOK, NothingMet
  <2> QED
    BY <1>3, <2>1, <2>2 DEF Close
<1>4. ASSUME NEW s \in Slots, OpenFile(s) PROVE TypeOK'
  <2>1. [writes[s] EXCEPT !.pos = 1] \in Write /\ [writes[s] EXCEPT !.pos = 1] # NoWrite
    BY <1>4, WritesAre, SnapshotAssumption DEF OpenFile, Write, NoWrite
  <2>2. writes' \in [Slots -> Write \cup {NoWrite}] /\ UnderWay' = UnderWay
    BY <1>4, <2>1 DEF OpenFile, TypeOK, UnderWay
  <2>3. file' \in [1 .. Blocks -> Snapshot \cup {Gap}]
    BY <1>4 DEF OpenFile, Empty
  <2> QED
    BY <1>4, <2>2, <2>3 DEF OpenFile, TypeOK, storeVars, histVars
<1>5. ASSUME NEW s \in Slots, WriteBlock(s) PROVE TypeOK'
  <2>1. file' \in [1 .. Blocks -> Snapshot \cup {Gap}]
    BY <1>5, WritesAre DEF WriteBlock, TypeOK
  <2>2. CASE writes[s].pos < Blocks
    <3>1. /\ [writes[s] EXCEPT !.pos = writes[s].pos + 1] \in Write
          /\ [writes[s] EXCEPT !.pos = writes[s].pos + 1] # NoWrite
      BY <1>5, <2>2, WritesAre, SnapshotAssumption DEF WriteBlock, Write, NoWrite
    <3>2. writes' \in [Slots -> Write \cup {NoWrite}] /\ UnderWay' = UnderWay
      BY <1>5, <2>2, <3>1 DEF WriteBlock, TypeOK, UnderWay
    <3> QED
      BY <1>5, <2>1, <2>2, <3>2 DEF WriteBlock, TypeOK
  <2>3. CASE ~(writes[s].pos < Blocks)
    BY <1>5, <2>1, <2>3, SettleTyped DEF WriteBlock, TypeOK
  <2> QED
    BY <2>2, <2>3
<1>6. ASSUME NEW s \in Slots, WriteFails(s) PROVE TypeOK'
  BY <1>6, SettleTyped DEF WriteFails, TypeOK
<1>7. CASE Remove
  <2>1. \A s \in UnderWay : [writes[s] EXCEPT !.linked = (writes[s].pos = 0)] \in Write
    BY WritesAre DEF Write, UnderWay
  <2>2. writes' \in [Slots -> Write \cup {NoWrite}]
    BY <1>7, <2>1 DEF Remove
  <2>3. file' \in [1 .. Blocks -> Snapshot \cup {Gap}] /\ promised' \in Snapshot
    BY <1>7 DEF Remove, Empty, Snapshot
  <2> QED
    BY <1>7, <2>2, <2>3 DEF Remove, TypeOK, NothingMet, storeVars
<1>8. CASE Exit \/ Crash
  <2>1. crashes' \in 0 .. MaxCrashes
    BY <1>8, SnapshotAssumption DEF Exit, Crash, TypeOK
  <2>2. Gone /\ calm' \in BOOLEAN
    BY <1>8 DEF Exit, Crash, NothingMet, TypeOK
  <2> QED
    BY <2>1, <2>2 DEF Gone, TypeOK
<1>9. CASE Open
  <2>1. opens' \in 0 .. MaxOpens
    BY <1>9, SnapshotAssumption DEF Open, TypeOK
  <2>2. doc' \in Snapshot
    BY <1>9, LoadedTyped DEF Open, TypeOK
  <2> QED
    BY <1>9, <2>1, <2>2 DEF Open, NothingMet, TypeOK, diskVars
<1>10. CASE UNCHANGED vars
  BY <1>10 DEF vars, storeVars, diskVars, histVars, TypeOK, UnderWay
<1> QED
  BY <1>1, <1>2, <1>3, <1>4, <1>5, <1>6, <1>7, <1>8, <1>9, <1>10 DEF Next

LEMMA FileInit == Init => TypeOK
<1>1. 0 \in 0 .. MaxCommits /\ 0 \in 0 .. MaxOpens /\ 0 \in 0 .. MaxCrashes
  BY SnapshotAssumption
<1>2. {} \in Snapshot /\ Empty \in [1 .. Blocks -> Snapshot \cup {Gap}]
  BY DEF Snapshot, Empty
<1>3. Init => savePending \in BOOLEAN /\ exists \in BOOLEAN /\ removed \in BOOLEAN
                 /\ calm \in BOOLEAN
  BY DEF Init
<1> QED
  BY <1>1, <1>2, <1>3 DEF Init, TypeOK

-----------------------------------------------------------------------------
(***************************************************************************)
(* The calm, which once ended does not come back.                          *)
(***************************************************************************)

LEMMA DiskIs ==
    /\ UnderWay = {} => Disk = Loaded(file)
    /\ \A s \in UnderWay : UnderWay = {s} => Disk = writes[s].version
BY DEF Disk

LEMMA CalmEnds == ASSUME [Next]_vars, calm' PROVE calm
BY DEF Next, vars, Commit, Immediate, StartWrite, NothingMet, Close, OpenFile,
       WriteBlock, WriteFails, Remove, Exit, Crash, Open

\* A save starts in the calm: what is on its way to the disk is the document.
LEMMA CalmStart ==
    ASSUME TypeOK, NEW s \in Slots, StartWrite(s), calm', file' = file
    PROVE  calm /\ UnderWay = {} /\ UnderWay' = {s} /\ BlocksWritten' /\ Disk' = doc
<1>1. calm /\ UnderWay = {} /\ UnderWay' = {s}
  BY StartTyped DEF StartWrite, NothingMet
<1>2. writes'[s] = [version |-> doc, pos |-> 0, linked |-> TRUE]
  BY DEF StartWrite, TypeOK
<1> QED
  BY <1>1, <1>2 DEF BlocksWritten, Disk

\* The last block makes the file what was being written.
LEMMA CalmLast ==
    ASSUME TypeOK, CalmInv, calm, NEW s \in Slots, WriteBlock(s), ~(writes[s].pos < Blocks)
    PROVE  /\ Settle(s) /\ UnderWay = {s} /\ UnderWay' = {} /\ Running
           /\ Loaded(file') = Disk
<1>1. UnderWay = {s} /\ Running /\ writes[s].linked /\ writes[s].pos = Blocks
  BY WritesAre, SnapshotAssumption DEF WriteBlock, CalmInv, BlocksWritten
<1>2. Settle(s) /\ UnderWay' = {}
  BY <1>1, SettleTyped DEF WriteBlock, Settle, TypeOK, UnderWay
<1>3. file' = [file EXCEPT ![Blocks] = writes[s].version]
  BY <1>1 DEF WriteBlock
<1>4. \A b \in 1 .. Blocks : file'[b] = writes[s].version
  <2> TAKE b \in 1 .. Blocks
  <2>1. b # Blocks => b < writes[s].pos
    BY <1>1, SnapshotAssumption
  <2>2. file[b] = writes[s].version \/ b = Blocks
    BY <1>1, <2>1 DEF CalmInv, BlocksWritten
  <2> QED
    BY <1>3, <2>2 DEF TypeOK
<1>5. Loaded(file') = writes[s].version
  BY <1>1, <1>4, LoadedWhole, WritesAre
<1> QED
  BY <1>1, <1>2, <1>5, DiskIs

\* Any other job of the thread pool leaves what is on its way as it is.
LEMMA CalmJob ==
    ASSUME TypeOK, CalmInv, calm, NEW s \in Slots,
           OpenFile(s) \/ (WriteBlock(s) /\ writes[s].pos < Blocks)
    PROVE  /\ UnderWay = {s} /\ UnderWay' = {s} /\ Running
           /\ BlocksWritten' /\ Disk' = Disk
<1>1. UnderWay = {s} /\ Running
  BY DEF CalmInv, BlocksWritten, OpenFile, WriteBlock
<1>2. CASE OpenFile(s)
  <2>1. /\ writes' = [writes EXCEPT ![s].pos = 1] /\ writes[s] \in Write
        /\ writes'[s] = [writes[s] EXCEPT !.pos = 1]
    BY <1>2, WritesAre DEF OpenFile, TypeOK
  <2>2. /\ writes'[s].version = writes[s].version /\ writes'[s].pos = 1
        /\ writes'[s].linked = writes[s].linked /\ writes'[s] # NoWrite
    BY <2>1 DEF Write, NoWrite
  <2>3. UnderWay' = {s}
    BY <1>1, <2>1, <2>2 DEF UnderWay, TypeOK
  <2>4. BlocksWritten'
    BY <1>1, <2>2, <2>3 DEF BlocksWritten, CalmInv
  <2> QED
    BY <1>1, <2>2, <2>3, <2>4, DiskIs DEF Disk
<1>3. CASE WriteBlock(s) /\ writes[s].pos < Blocks
  <2>1. /\ writes' = [writes EXCEPT ![s].pos = writes[s].pos + 1] /\ writes[s] \in Write
        /\ writes'[s] = [writes[s] EXCEPT !.pos = writes[s].pos + 1]
        /\ writes[s].linked
        /\ writes[s].pos \in 1 .. Blocks
    BY <1>1, <1>3, WritesAre DEF WriteBlock, TypeOK, CalmInv, BlocksWritten
  <2>2. /\ writes'[s].version = writes[s].version /\ writes'[s].pos = writes[s].pos + 1
        /\ writes'[s].linked = writes[s].linked /\ writes'[s] # NoWrite
    <3>1. /\ writes'[s].version = writes[s].version /\ writes'[s].pos = writes[s].pos + 1
          /\ writes'[s].linked = writes[s].linked
      BY <2>1 DEF Write
    <3>2. writes'[s].pos # NoWrite.pos
      BY <2>1, <3>1, SnapshotAssumption DEF NoWrite
    <3> QED
      BY <3>1, <3>2
  <2>3. UnderWay' = {s}
    BY <1>1, <2>1, <2>2 DEF UnderWay, TypeOK
  <2>4. file' = [file EXCEPT ![writes[s].pos] = writes[s].version]
    BY <1>3, <2>1 DEF WriteBlock
  <2>5. ASSUME NEW b \in 1 .. Blocks, b < writes'[s].pos PROVE file'[b] = writes[s].version
    <3>1. b < writes[s].pos \/ b = writes[s].pos
      BY <2>1, <2>2, <2>5, SnapshotAssumption
    <3>2. b < writes[s].pos => file[b] = writes[s].version
      BY <1>1 DEF CalmInv, BlocksWritten
    <3> QED
      BY <2>4, <3>1, <3>2 DEF TypeOK
  <2>6. BlocksWritten'
    BY <2>1, <2>2, <2>3, <2>5 DEF BlocksWritten
  <2> QED
    BY <1>1, <2>2, <2>3, <2>6, DiskIs DEF Disk
<1> QED
  BY <1>2, <1>3

LEMMA CalmStep == TypeOK /\ CalmInv /\ [Next]_vars => CalmInv'
<1> SUFFICES ASSUME TypeOK, CalmInv, [Next]_vars, calm' PROVE CalmInv'
  BY DEF CalmInv
<1>c. calm
  BY CalmEnds
<1>1. CASE Commit
  <2>1. /\ phase = "open" /\ phase' = "open" /\ made' = made + 1
        /\ doc' = doc \cup {made + 1} /\ savePending' = TRUE
        /\ UNCHANGED <<writes, file, exists, promised, removed>>
    BY <1>1, <1>c DEF Commit, diskVars
  <2>2. doc' \subseteq 1 .. made' /\ promised' \subseteq doc'
    BY <1>c, <2>1 DEF CalmInv, Running, TypeOK
  <2> QED
    BY <1>c, <2>1, <2>2 DEF CalmInv, BlocksWritten, UnderWay, Running, Disk
<1>2. CASE Immediate
  <2>1. CASE phase \in {"open", "flushing"} /\ \E s \in Slots : StartWrite(s)
    <3>1. PICK s \in Slots : StartWrite(s)
      BY <2>1
    <3>2. UnderWay = {} /\ UnderWay' = {s} /\ BlocksWritten' /\ Disk' = doc
      BY <1>2, <3>1, CalmStart DEF Immediate
    <3>3. phase = "open" /\ savePending' = FALSE
      BY <1>2, <2>1, <3>2 DEF Immediate, TypeOK
    <3> QED
      BY <1>2, <1>c, <3>2, <3>3 DEF Immediate, CalmInv, Running, histVars
  <2>2. CASE phase = "closed" /\ UNCHANGED <<writes, calm>>
    BY <1>2, <1>c, <2>2 DEF Immediate, CalmInv, BlocksWritten, UnderWay, Running, histVars
  <2> QED
    BY <1>2, <2>1, <2>2 DEF Immediate
<1>3. CASE Close
  <2>1. ASSUME NEW s \in Slots, StartWrite(s), flush' = s, phase' = "flushing",
               savePending' = FALSE, UNCHANGED promised
        PROVE  CalmInv'
    <3>1. UnderWay' = {s} /\ BlocksWritten' /\ Disk' = doc
      BY <1>3, <2>1, CalmStart DEF Close
    <3> QED
      BY <1>3, <1>c, <2>1, <3>1 DEF Close, CalmInv, Running
  <2>2. CASE ~savePending /\ NothingMet /\ phase' = "closed" /\ promised' = doc
             /\ UNCHANGED <<savePending, flush, writes>>
    <3>1. UnderWay = {} /\ UnderWay' = {} /\ Disk = doc /\ Disk = Loaded(file)
      BY <1>3, <1>c, <2>2, DiskIs DEF Close, NothingMet, UnderWay, CalmInv, Running
    <3> QED
      BY <1>3, <1>c, <2>2, <3>1 DEF Close, CalmInv, Running, BlocksWritten
  <2> QED
    BY <1>3, <2>1, <2>2 DEF Close
<1>4. ASSUME NEW s \in Slots, OpenFile(s) PROVE CalmInv'
  <2>1. UnderWay' = {s} /\ Running /\ BlocksWritten' /\ Disk' = Disk
    BY <1>4, <1>c, CalmJob
  <2> QED
    BY <1>4, <1>c, <2>1 DEF OpenFile, CalmInv, Running, storeVars, histVars
<1>5. ASSUME NEW s \in Slots, WriteBlock(s) PROVE CalmInv'
  <2>1. CASE writes[s].pos < Blocks
    <3>1. UnderWay' = {s} /\ Running /\ BlocksWritten' /\ Disk' = Disk
      BY <1>5, <1>c, <2>1, CalmJob
    <3> QED
      BY <1>5, <1>c, <2>1, <3>1 DEF WriteBlock, CalmInv, Running
  <2>2. CASE ~(writes[s].pos < Blocks)
    <3>1. /\ Settle(s) /\ UnderWay = {s} /\ UnderWay' = {} /\ Running
          /\ Loaded(file') = Disk
      BY <1>5, <1>c, <2>2, CalmLast
    <3>2. Disk' = Disk /\ UNCHANGED <<doc, savePending, made, removed, exists>>
      BY <1>5, <3>1, DiskIs DEF WriteBlock, Disk
    <3>3. CASE phase = "flushing" /\ s = flush
      <4>1. phase' = "closed" /\ promised' = doc /\ Disk = doc
        BY <1>c, <3>1, <3>3 DEF Settle, CalmInv, Running
      <4> QED
        BY <1>c, <3>1, <3>2, <4>1 DEF CalmInv, Running, BlocksWritten
    <3>4. CASE ~(phase = "flushing" /\ s = flush)
      <4>1. phase' = "open" /\ phase = "open" /\ promised' = promised
        BY <3>1, <3>4 DEF Settle, Running, TypeOK
      <4> QED
        BY <1>c, <3>1, <3>2, <4>1 DEF CalmInv, Running, BlocksWritten
    <3> QED
      BY <3>3, <3>4
  <2> QED
    BY <2>1, <2>2
<1>6. ASSUME NEW s \in Slots, WriteFails(s) PROVE CalmInv'
  BY <1>6 DEF WriteFails
<1>7. CASE Remove
  <2>1. /\ UnderWay = {} /\ phase' = "closed" /\ exists' = FALSE
        /\ file' = Empty /\ promised' = {} /\ made' = made
        /\ writes' = [s \in Slots |-> NoWrite]
    BY <1>7 DEF Remove, NothingMet, storeVars
  <2>2. UnderWay' = {}
    BY <2>1 DEF UnderWay
  <2> QED
    BY <1>c, <2>1, <2>2, LoadedEmpty DEF CalmInv, Running, BlocksWritten
<1>8. CASE Exit
  <2>1. /\ phase = "closed" /\ phase' = "down" /\ writes' = [s \in Slots |-> NoWrite]
        /\ UNCHANGED <<file, made, exists, promised, removed>>
    BY <1>8 DEF Exit, Gone
  <2>2. UnderWay' = {}
    BY <2>1 DEF UnderWay
  <2> QED
    BY <1>c, <2>1, <2>2 DEF CalmInv, Running, BlocksWritten
<1>9. CASE Crash
  BY <1>9 DEF Crash
<1>10. CASE Open
  <2>1. /\ UnderWay = {} /\ phase \in {"closed", "down"} /\ phase' = "open" /\ ~removed
        /\ doc' = Loaded(file) /\ UNCHANGED <<writes, file, made, exists, promised, removed>>
    BY <1>10 DEF Open, NothingMet, diskVars
  <2>2. UnderWay' = {} /\ Disk' = Loaded(file)
    BY <2>1 DEF UnderWay, Disk
  <2> QED
    BY <1>c, <2>1, <2>2 DEF CalmInv, Running, BlocksWritten
<1>11. CASE UNCHANGED vars
  BY <1>11, <1>c DEF vars, storeVars, diskVars, histVars, CalmInv, Running, BlocksWritten,
                     UnderWay, Disk
<1> QED
  BY <1>1, <1>2, <1>3, <1>4, <1>5, <1>6, <1>7, <1>8, <1>9, <1>10, <1>11 DEF Next

LEMMA FileHolds == Spec => [](TypeOK /\ CalmInv)
<1>1. Init => CalmInv
  <2> SUFFICES ASSUME Init PROVE CalmInv
    OBVIOUS
  <2>1. UnderWay = {} /\ Disk = {} /\ Running
    BY LoadedEmpty DEF Init, UnderWay, Disk, Running
  <2> QED
    BY <2>1 DEF Init, CalmInv, BlocksWritten
<1> QED
  BY <1>1, FileInit, FileTyped, CalmStep, PTL DEF Spec

\* However many writes, blocks and restarts there are: as long as every write
\* ends before anything else comes to the file, a close() that returned kept the
\* document, and the file of a dropped epoch does not come back.
THEOREM CalmFileHolds == Spec => []CalmFileIsSound
<1>1. TypeOK /\ CalmInv => CalmFileIsSound
  BY DEF CalmInv, Running, CalmFileIsSound, CalmSurvivesClose, SurvivesClose, RemovedStaysAway
<1> QED
  BY <1>1, FileHolds, PTL

-----------------------------------------------------------------------------
(***************************************************************************)
(* The refinement.                                                         *)
(***************************************************************************)

\* The end of the calm is where the store of the abstract specification breaks,
\* and nothing that comes after it shows there.
LEMMA BreakStep ==
    ASSUME [Next]_vars, TypeOK, TypeOK', ~calm'
    PROVE  Store!Break \/ UNCHANGED Store!vars
BY CalmEnds DEF Store!Break, Store!vars, TypeOK

\* A step in the calm is one of the abstract store, or none.
LEMMA StoreStep ==
    ASSUME TypeOK, CalmInv, [Next]_vars, calm'
    PROVE  Store!Next \/ UNCHANGED Store!vars
<1> DEFINE Same == UNCHANGED <<doc, Disk, Running>>
<1>c. calm
  BY CalmEnds
<1>s. Same => UNCHANGED Store!vars
  BY <1>c DEF Store!vars, Running
<1>1. CASE Commit
  <2>1. /\ phase = "open" /\ phase' = "open" /\ made + 1 \in Commits
        /\ doc' = doc \cup {made + 1} /\ UNCHANGED <<writes, file>>
    <3>1. made + 1 \in Commits
      BY <1>1, SnapshotAssumption DEF Commit, Commits, TypeOK
    <3> QED
      BY <1>1, <1>c, <3>1 DEF Commit, diskVars
  <2>2. made + 1 \notin doc
    BY <1>c, <2>1 DEF CalmInv, Running, TypeOK
  <2>3. Disk' = Disk
    BY <2>1 DEF Disk, UnderWay
  <2>4. Store!Commit
    BY <1>c, <2>1, <2>2, <2>3 DEF Store!Commit
  <2> QED
    BY <2>4 DEF Store!Next
<1>2. CASE Immediate
  <2>1. CASE phase \in {"open", "flushing"} /\ \E s \in Slots : StartWrite(s)
    <3>1. Disk' = doc /\ UNCHANGED <<doc, phase>>
      BY <1>2, <2>1, CalmStart DEF Immediate
    <3>2. Store!Save
      BY <1>c, <2>1, <3>1 DEF Store!Save
    <3> QED
      BY <3>2 DEF Store!Next
  <2>2. CASE phase = "closed" /\ UNCHANGED <<writes, calm>>
    BY <1>2, <1>s, <2>2 DEF Immediate, Disk, UnderWay, Running
  <2> QED
    BY <1>2, <2>1, <2>2 DEF Immediate
<1>3. CASE Close
  <2>1. CASE \E s \in Slots : StartWrite(s) /\ phase' = "flushing"
    <3>1. Disk' = doc /\ phase = "open" /\ UNCHANGED doc
      BY <1>3, <2>1, CalmStart DEF Close
    <3>2. Store!Save
      BY <1>c, <2>1, <3>1 DEF Store!Save
    <3> QED
      BY <3>2 DEF Store!Next
  <2>2. CASE ~savePending /\ phase' = "closed" /\ UNCHANGED writes
    <3>1. Disk = doc /\ Disk' = Disk /\ phase = "open" /\ UNCHANGED doc
      BY <1>3, <1>c, <2>2 DEF Close, CalmInv, Running, Disk, UnderWay
    <3>2. Store!Close
      BY <1>c, <2>2, <3>1 DEF Store!Close
    <3> QED
      BY <3>2 DEF Store!Next
  <2> QED
    BY <1>3, <2>1, <2>2 DEF Close
<1>4. ASSUME NEW s \in Slots, OpenFile(s) PROVE Same
  BY <1>4, <1>c, CalmJob DEF OpenFile, storeVars, Running
<1>5. ASSUME NEW s \in Slots, WriteBlock(s) PROVE Store!Next \/ UNCHANGED Store!vars
  <2>1. CASE writes[s].pos < Blocks
    BY <1>5, <1>c, <1>s, <2>1, CalmJob DEF WriteBlock, Running
  <2>2. CASE ~(writes[s].pos < Blocks)
    <3>1. /\ Settle(s) /\ Running /\ Disk' = Disk /\ UNCHANGED doc
      BY <1>5, <1>c, <2>2, CalmLast, DiskIs DEF WriteBlock, Disk
    <3>2. CASE phase = "flushing" /\ s = flush
      <4>1. phase' = "closed" /\ Disk = doc
        BY <1>c, <3>1, <3>2 DEF Settle, CalmInv, Running
      <4>2. Store!Close
        BY <1>c, <3>1, <3>2, <4>1 DEF Store!Close, Running
      <4> QED
        BY <4>2 DEF Store!Next
    <3>3. CASE ~(phase = "flushing" /\ s = flush)
      BY <1>s, <3>1, <3>3 DEF Settle, Running
    <3> QED
      BY <3>2, <3>3
  <2> QED
    BY <2>1, <2>2
<1>6. ASSUME NEW s \in Slots, WriteFails(s) PROVE FALSE
  BY <1>6 DEF WriteFails
<1>7. CASE Remove
  <2>1. /\ phase = "closed" /\ UNCHANGED <<doc, phase>> /\ file' = Empty
        /\ UnderWay = {} /\ writes' = [s \in Slots |-> NoWrite]
    BY <1>7 DEF Remove, NothingMet, storeVars
  <2>2. Disk' = {}
    BY <2>1, LoadedEmpty DEF Disk, UnderWay
  <2>3. Store!Remove
    BY <1>c, <2>1, <2>2 DEF Store!Remove
  <2> QED
    BY <2>3 DEF Store!Next
<1>8. CASE Exit
  <2>1. /\ phase = "closed" /\ phase' = "down" /\ UNCHANGED <<doc, file>>
        /\ UnderWay = {} /\ writes' = [s \in Slots |-> NoWrite]
    BY <1>8 DEF Exit, Gone, NothingMet
  <2>2. Disk' = Disk
    BY <2>1 DEF Disk, UnderWay
  <2> QED
    BY <1>s, <2>1, <2>2 DEF Running
<1>9. CASE Crash
  BY <1>9 DEF Crash
<1>10. CASE Open
  <2>1. /\ phase \in {"closed", "down"} /\ phase' = "open"
        /\ UnderWay = {} /\ doc' = Loaded(file) /\ UNCHANGED <<writes, file>>
    BY <1>10 DEF Open, NothingMet, diskVars
  <2>2. Disk = Loaded(file) /\ Disk' = Disk
    BY <2>1 DEF Disk, UnderWay
  <2>3. Store!Open
    BY <1>c, <2>1, <2>2 DEF Store!Open
  <2> QED
    BY <2>3 DEF Store!Next
<1>11. CASE UNCHANGED vars
  BY <1>11, <1>s DEF vars, storeVars, diskVars, Running, Disk, UnderWay
<1> QED
  BY <1>s, <1>1, <1>2, <1>3, <1>4, <1>5, <1>6, <1>7, <1>8, <1>9, <1>10, <1>11 DEF Next

\* The deferred and truncating writes of a snapshot are, until the calm ends,
\* the saves in one step of DurableDoc: what EpochStore takes for granted.
THEOREM FileIsDurable == Spec => ImplementsDurableDoc
<1>1. Init => Store!Init
  <2> SUFFICES ASSUME Init PROVE Store!Init
    OBVIOUS
  <2>1. Disk = {}
    BY LoadedEmpty DEF Init, UnderWay, Disk
  <2> QED
    BY <2>1 DEF Init, Store!Init
<1>2. TypeOK /\ CalmInv /\ TypeOK' /\ [Next]_vars => [Store!Next]_(Store!vars)
  <2> SUFFICES ASSUME TypeOK, CalmInv, TypeOK', [Next]_vars
               PROVE  Store!Next \/ UNCHANGED Store!vars
    OBVIOUS
  <2>1. CASE calm'
    BY <2>1, StoreStep
  <2>2. CASE ~calm'
    BY <2>2, BreakStep DEF Store!Next
  <2> QED
    BY <2>1, <2>2
<1> QED
  BY <1>1, <1>2, FileHolds, PTL DEF Spec, ImplementsDurableDoc, Store!Spec

-----------------------------------------------------------------------------
(***************************************************************************)
(* Numbers.                                                                *)
(***************************************************************************)

LEMMA Least ==
    ASSUME NEW T \in SUBSET Nat, T # {}
    PROVE  \E x \in T : \A y \in T : x <= y
<1>1. PICK x \in T : \A y \in T : ~ (<<y, x>> \in OpToRel(<, Nat))
  BY NatLessThanWellFounded, WFMin
<1>2. ASSUME NEW y \in T PROVE x <= y
  <2>1. ~(y < x)
    BY <1>1 DEF OpToRel
  <2> QED
    BY <2>1
<1> QED
  BY <1>2

LEMMA Largest ==
    ASSUME NEW T \in SUBSET Nat, T # {}, NEW b \in Nat, \A x \in T : x <= b
    PROVE  \E x \in T : \A y \in T : y <= x
<1> DEFINE U == {b - x : x \in T}
<1>0. \A x \in T : b - x \in Nat
  OBVIOUS
<1>1. U \in SUBSET Nat /\ U # {}
  BY <1>0
<1> HIDE DEF U
<1>2. PICK u \in U : \A v \in U : u <= v
  BY <1>1, Least
<1>3. PICK x \in T : u = b - x
  BY DEF U
<1>4. ASSUME NEW y \in T PROVE y <= x
  <2>1. b - y \in U
    BY DEF U
  <2> QED
    BY <1>2, <1>3, <2>1
<1> QED
  BY <1>4

-----------------------------------------------------------------------------
(***************************************************************************)
(* Heads.                                                                  *)
(***************************************************************************)

\* A chunk supersedes an older one of the same memory, and so does what a PATCH
\* is signing.
ChainInv ==
    /\ VersionsTypeOK
    /\ \A c \in Written :
          /\ chunk[c].supersedes < c
          /\ chunk[c].memory \in Written
          /\ chunk[c].supersedes # None => chunk[c].memory = chunk[chunk[c].supersedes].memory
    /\ \A n \in Nodes : \A u \in edit[n] :
          u.supersedes \in Written /\ u.memory = chunk[u.supersedes].memory

LEMMA ChunkFacts ==
    ASSUME ChainInv, NEW c \in Written
    PROVE  /\ c \in Nat \ {0} /\ Len(chunk) \in Nat /\ c <= Len(chunk)
           /\ chunk[c] \in Chunk
           /\ chunk[c].supersedes \in Nat /\ chunk[c].supersedes < c
           /\ chunk[c].stamp \in Nat /\ chunk[c].stamp <= MaxTime
           /\ chunk[c].memory \in Written
<1>1. chunk \in Seq(Chunk) /\ Len(chunk) \in Nat
  BY DEF ChainInv, VersionsTypeOK
<1>2. c \in 1 .. Len(chunk)
  BY DEF Written
<1>3. chunk[c] \in Chunk
  BY <1>1, <1>2
<1> QED
  BY <1>1, <1>2, <1>3, VersionsAssumption DEF ChainInv, Chunk, Ids, None

LEMMA FoundWritten ==
    ASSUME ChainInv, NEW n \in Nodes
    PROVE  /\ Found(n) \in SUBSET Written
           /\ \A e \in Epochs : live[n][e] \in SUBSET Found(n)
BY DEF ChainInv, VersionsTypeOK, Found

\* Of two versions one goes before the other, and of any some go before all.
LEMMA PrecedesTotal ==
    ASSUME ChainInv, NEW n \in Nodes, NEW c \in Written, NEW d \in Written
    PROVE  c = d \/ Precedes(n, c, d) \/ Precedes(n, d, c)
BY ChunkFacts DEF Precedes

LEMMA FirstExists ==
    ASSUME ChainInv, NEW n \in Nodes, NEW H \in SUBSET Written, H # {}
    PROVE  \E g \in H : \A d \in H : d = g \/ Precedes(n, g, d)
<1> DEFINE stamps == {chunk[c].stamp : c \in H}
<1>1. /\ stamps \in SUBSET Nat /\ stamps # {}
      /\ MaxTime \in Nat /\ \A t \in stamps : t <= MaxTime
  BY ChunkFacts, VersionsAssumption
<1>2. PICK t \in stamps : \A s \in stamps : s <= t
  BY <1>1, Largest
<1> DEFINE newest == {c \in H : chunk[c].stamp = t}
<1>3. newest \in SUBSET Nat /\ newest # {} /\ \A c \in newest : c <= Len(chunk)
  <2>1. \A c \in H : c \in Nat /\ c <= Len(chunk)
    BY ChunkFacts
  <2> QED
    BY <1>2, <2>1
<1>4. \A d \in H : chunk[d].stamp <= t /\ chunk[d].stamp \in Nat /\ d \in Nat
  BY <1>2, ChunkFacts
<1>5. Len(chunk) \in Nat /\ t \in Nat
  BY <1>1, ChunkFacts
<1>6. CASE n \in Reversed
  <2>1. PICK g \in newest : \A d \in newest : d <= g
    BY <1>3, <1>5, Largest
  <2>2. ASSUME NEW d \in H PROVE d = g \/ Precedes(n, g, d)
    BY <1>4, <1>5, <1>6, <2>1 DEF Precedes
  <2> QED
    BY <2>1, <2>2
<1>7. CASE n \notin Reversed
  <2>1. PICK g \in newest : \A d \in newest : g <= d
    BY <1>3, Least
  <2>2. ASSUME NEW d \in H PROVE d = g \/ Precedes(n, g, d)
    BY <1>4, <1>5, <1>7, <2>1 DEF Precedes
  <2> QED
    BY <2>1, <2>2
<1> QED
  BY <1>6, <1>7

\* Who is in the group of a head is the head itself or another successor of what
\* it supersedes.
LEMMA GroupIsSiblings ==
    ASSUME ChainInv, NEW S \in SUBSET Written, NEW c \in S \ Superseded(S),
           NEW d \in S \ Superseded(S), GroupOf(d) = GroupOf(c)
    PROVE  \/ d = c
           \/ chunk[c].supersedes # None /\ chunk[d].supersedes = chunk[c].supersedes
<1>1. chunk[c].supersedes \in Superseded(S) /\ chunk[d].supersedes \in Superseded(S)
  BY DEF Superseded
<1> QED
  BY <1>1 DEF GroupOf

LEMMA HeadOrSibling ==
    ASSUME ChainInv, NEW n \in Nodes, NEW S \in SUBSET Written, NEW c \in S \ Superseded(S)
    PROVE  \/ c \in Resolve(n, S)
           \/ /\ chunk[c].supersedes # None
              /\ \E d \in S : chunk[d].supersedes = chunk[c].supersedes /\ Precedes(n, d, c)
<1> SUFFICES ASSUME c \notin Resolve(n, S)
             PROVE  /\ chunk[c].supersedes # None
                    /\ \E d \in S : chunk[d].supersedes = chunk[c].supersedes /\ Precedes(n, d, c)
  OBVIOUS
<1>1. PICK d \in S \ Superseded(S) : GroupOf(d) = GroupOf(c) /\ d # c /\ ~Precedes(n, c, d)
  BY DEF Resolve
<1>2. Precedes(n, d, c)
  BY <1>1, PrecedesTotal
<1> QED
  BY <1>1, <1>2, GroupIsSiblings

\* resolveHeads keeps a version of every memory.
LEMMA ResolveKeepsMemories ==
    ASSUME ChainInv, NEW n \in Nodes, NEW S \in SUBSET Written
    PROVE  MemoriesOf(Resolve(n, S)) = MemoriesOf(S)
<1>1. Resolve(n, S) \in SUBSET S
  BY DEF Resolve
<1>2. MemoriesOf(Resolve(n, S)) \subseteq MemoriesOf(S)
  BY <1>1 DEF MemoriesOf
<1>3. ASSUME NEW m \in MemoriesOf(S) PROVE m \in MemoriesOf(Resolve(n, S))
  <2> DEFINE T == {c \in S : chunk[c].memory = m}
  <2>1. T \in SUBSET Nat /\ T # {} /\ Len(chunk) \in Nat /\ \A c \in T : c <= Len(chunk)
    <3>1. \A c \in S : c \in Nat /\ c <= Len(chunk) /\ Len(chunk) \in Nat
      BY ChunkFacts
    <3>2. T # {}
      BY <1>3 DEF MemoriesOf
    <3> QED
      BY <3>1, <3>2
  <2>2. PICK c \in T : \A d \in T : d <= c
    BY <2>1, Largest
  <2>3. c \notin Superseded(S)
    <3> SUFFICES ASSUME c \in Superseded(S) PROVE FALSE
      OBVIOUS
    <3>1. PICK d \in S : chunk[d].supersedes = c
      BY DEF Superseded
    <3>2. chunk[d].memory = chunk[c].memory /\ c < d /\ c \in Nat /\ d \in Nat
      BY <3>1, ChunkFacts DEF ChainInv, None
    <3>3. d \in T
      BY <3>2
    <3> QED
      BY <2>2, <3>2, <3>3
  <2> DEFINE H == {d \in S \ Superseded(S) : GroupOf(d) = GroupOf(c)}
  <2>4. c \in H /\ H \in SUBSET Written
    BY <2>3
  <2>5. PICK g \in H : \A d \in H : d = g \/ Precedes(n, g, d)
    BY <2>4, FirstExists
  <2>6. g \in Resolve(n, S)
    BY <2>5 DEF Resolve
  <2>7. chunk[g].memory = m
    <3>1. \/ g = c
          \/ chunk[c].supersedes # None /\ chunk[g].supersedes = chunk[c].supersedes
      BY <2>3, <2>5, GroupIsSiblings
    <3> QED
      BY <3>1 DEF ChainInv
  <2> QED
    BY <2>6, <2>7 DEF MemoriesOf
<1> QED
  BY <1>2, <1>3

\* What was resolved stays as it is.
LEMMA ResolveTwice ==
    ASSUME NEW n, NEW S
    PROVE  Resolve(n, Resolve(n, S)) = Resolve(n, S)
<1> DEFINE R == Resolve(n, S)
<1>1. R \subseteq S \ Superseded(S)
  BY DEF Resolve
<1>2. Superseded(R) \subseteq Superseded(S)
  BY <1>1 DEF Superseded
<1>3. R \ Superseded(R) = R
  BY <1>1, <1>2
<1>4. \A c, d \in R : GroupOf(d) = GroupOf(c) => d = c \/ Precedes(n, c, d)
  BY <1>1 DEF Resolve
<1> HIDE DEF R
<1>5. Resolve(n, R) = R
  BY <1>3, <1>4 DEF Resolve
<1> QED
  BY <1>5 DEF R

LEMMA ResolveNone == \A n : Resolve(n, {}) = {}
BY DEF Resolve

-----------------------------------------------------------------------------
(***************************************************************************)
(* Answers.                                                                *)
(***************************************************************************)

\* What a query resolves at last: what the epochs answered.
Answered(n, F) == UNION {StoreQuery(n, e, F) : e \in Epochs}

LEMMA AnsweredFacts ==
    ASSUME ChainInv, NEW n \in Nodes, NEW F \in SUBSET Found(n)
    PROVE  /\ F \in SUBSET Written
           /\ \A e \in Epochs : Admitted(n, e, F) \in SUBSET F
           /\ F = UNION {Admitted(n, e, F) : e \in Epochs}
           /\ \A e \in Epochs : StoreQuery(n, e, F) \in SUBSET Admitted(n, e, F)
           /\ Answered(n, F) \in SUBSET F
           /\ Query(n, F) = Resolve(n, Answered(n, F))
<1>1. F \in SUBSET Written
  BY FoundWritten
<1>2. \A e \in Epochs : Admitted(n, e, F) \in SUBSET F
  BY DEF Admitted
<1>3. F = UNION {Admitted(n, e, F) : e \in Epochs}
  BY DEF Admitted, Found
<1>4. \A e \in Epochs : StoreQuery(n, e, F) \in SUBSET Admitted(n, e, F)
  BY DEF StoreQuery, Resolve
<1>5. Answered(n, F) \in SUBSET F
  BY <1>2, <1>4 DEF Answered
<1>6. Query(n, F) = Resolve(n, Answered(n, F))
  BY DEF Query, Answered
<1> QED
  BY <1>1, <1>2, <1>3, <1>4, <1>5, <1>6

LEMMA NewestShown == ChainInv => NewestIsShown
<1> SUFFICES ASSUME ChainInv, NEW n \in Nodes, NEW F \in SUBSET Found(n),
                    NEW c \in F \ Superseded(F), c \notin Query(n, F)
             PROVE  /\ chunk[c].supersedes # None
                    /\ \E d \in F : /\ chunk[d].supersedes = chunk[c].supersedes
                                    /\ Precedes(n, d, c)
  BY DEF NewestIsShown
<1>1. PICK e \in Epochs : c \in Admitted(n, e, F)
  <2>1. F = UNION {Admitted(n, e, F) : e \in Epochs}
    BY AnsweredFacts
  <2> QED
    BY <2>1
<1> DEFINE A == Admitted(n, e, F)
           U == Answered(n, F)
<1>2. A \in SUBSET F /\ U \in SUBSET F /\ A \in SUBSET Written /\ U \in SUBSET Written
  BY AnsweredFacts
<1>3. c \in A \ Superseded(A)
  BY <1>1, <1>2 DEF Superseded
<1>4. CASE c \in U
  <2>1. c \in U \ Superseded(U)
    BY <1>2, <1>4 DEF Superseded
  <2>2. c \notin Resolve(n, U)
    BY AnsweredFacts
  <2> HIDE DEF U, A
  <2> QED
    BY <1>2, <2>1, <2>2, HeadOrSibling
<1>5. CASE c \notin U
  <2>1. c \notin Resolve(n, A)
    BY <1>5 DEF Answered, StoreQuery
  <2> HIDE DEF U, A
  <2> QED
    BY <1>2, <1>3, <2>1, HeadOrSibling
<1> QED
  BY <1>4, <1>5

LEMMA MemoriesAnswered == ChainInv => MemoriesAreAnswered
<1> SUFFICES ASSUME ChainInv, NEW n \in Nodes, NEW F \in SUBSET Found(n)
             PROVE  /\ MemoriesOf(Query(n, F)) = MemoriesOf(F)
                    /\ (\E e \in Epochs : live[n][e] = {}) =>
                           /\ Query(n, F) = Resolve(n, F)
                           /\ F = Found(n) => Query(n, F) = Search(n, F)
  BY DEF MemoriesAreAnswered
<1> DEFINE U == Answered(n, F)
<1>1. U \in SUBSET F /\ F \in SUBSET Written
  BY AnsweredFacts
<1>2. MemoriesOf(Query(n, F)) = MemoriesOf(F)
  <2>1. MemoriesOf(Query(n, F)) = MemoriesOf(U)
    <3>1. Query(n, F) = Resolve(n, U)
      BY AnsweredFacts
    <3> HIDE DEF U
    <3> QED
      BY <1>1, <3>1, ResolveKeepsMemories
  <2>2. MemoriesOf(U) \subseteq MemoriesOf(F)
    BY <1>1 DEF MemoriesOf
  <2>3. ASSUME NEW m \in MemoriesOf(F) PROVE m \in MemoriesOf(U)
    <3>1. PICK c \in F : m = chunk[c].memory
      BY DEF MemoriesOf
    <3>2. PICK e \in Epochs : c \in Admitted(n, e, F)
      <4>1. F = UNION {Admitted(n, e, F) : e \in Epochs}
        BY AnsweredFacts
      <4> QED
        BY <4>1
    <3>3. m \in MemoriesOf(Admitted(n, e, F)) /\ Admitted(n, e, F) \in SUBSET Written
      BY <3>1, <3>2, <1>1, AnsweredFacts DEF MemoriesOf
    <3>4. m \in MemoriesOf(StoreQuery(n, e, F))
      BY <3>3, ResolveKeepsMemories DEF StoreQuery
    <3> QED
      BY <3>4 DEF MemoriesOf, Answered
  <2> QED
    BY <2>1, <2>2, <2>3
<1>3. ASSUME NEW e \in Epochs, live[n][e] = {}
      PROVE  Query(n, F) = Resolve(n, F)
  <2>1. PICK f \in Epochs : Epochs = {e, f}
    BY DEF Epochs
  <2>2. Admitted(n, e, F) = {} /\ Admitted(n, f, F) = F
    BY <1>3, <2>1, AnsweredFacts DEF Admitted
  <2>3. U = Resolve(n, F)
    BY <2>1, <2>2, ResolveNone DEF Answered, StoreQuery
  <2> QED
    BY <2>3, AnsweredFacts, ResolveTwice
<1>4. ASSUME F = Found(n) PROVE Search(n, F) = Resolve(n, F)
  <2>1. Listed(n) \cap F = Resolve(n, F)
    BY <1>4 DEF Listed, Resolve
  <2> QED
    BY <2>1, ResolveTwice DEF Search
<1> QED
  BY <1>2, <1>3, <1>4

-----------------------------------------------------------------------------
(***************************************************************************)
(* Steps.                                                                  *)
(***************************************************************************)

NewId == Len(chunk) + 1

\* A chunk that is written leaves those before it what they were.
LEMMA Appended ==
    ASSUME ChainInv, NEW v \in Chunk, chunk' = Append(chunk, v)
    PROVE  /\ chunk' \in Seq(Chunk) /\ Len(chunk') = NewId /\ NewId \in Nat
           /\ \A c \in Written : chunk'[c] = chunk[c]
           /\ chunk'[NewId] = v
           /\ Written' = Written \cup {NewId} /\ NewId \notin Written
<1>1. chunk \in Seq(Chunk) /\ Len(chunk) \in Nat
  BY DEF ChainInv, VersionsTypeOK
<1>2. /\ chunk' \in Seq(Chunk) /\ Len(chunk') = NewId
      /\ \A c \in 1 .. Len(chunk) : chunk'[c] = chunk[c]
      /\ chunk'[NewId] = v
  BY <1>1 DEF NewId
<1>3. 1 .. NewId = (1 .. Len(chunk)) \cup {NewId} /\ NewId \notin 1 .. Len(chunk)
  BY <1>1 DEF NewId
<1>4. NewId \in Nat
  BY <1>1 DEF NewId
<1> QED
  BY <1>2, <1>3, <1>4 DEF Written

\* What Put writes, given what the request or the PATCH made.
LEMMA PutFacts ==
    ASSUME ChainInv, NEW n \in Nodes, NEW u, Put(n, u),
           u = [supersedes |-> u.supersedes, memory |-> u.memory, stamp |-> u.stamp],
           u.supersedes \in Written \cup {None}, u.stamp \in 1 .. MaxTime,
           u.memory = IF u.supersedes = None THEN None ELSE chunk[u.supersedes].memory
    PROVE  /\ \E v \in Chunk :
                 /\ chunk' = Append(chunk, v)
                 /\ v.supersedes = u.supersedes
                 /\ v.memory = IF u.supersedes = None THEN NewId ELSE chunk[u.supersedes].memory
           /\ NewId \in Ids
           /\ live' = [live EXCEPT ![n][current[n]] = @ \cup {NewId}]
           /\ index' = [index EXCEPT ![n] = @ \cup {NewId}]
<1> DEFINE v == [u EXCEPT !.memory = IF @ = None THEN NewId ELSE @]
<1>1. /\ NewId \in Ids /\ chunk' = Append(chunk, v)
      /\ live' = [live EXCEPT ![n][current[n]] = @ \cup {NewId}]
      /\ index' = [index EXCEPT ![n] = @ \cup {NewId}]
  BY DEF Put, NewId, Indexing
<1>2. u.supersedes # None => u.memory \in Written
  BY ChunkFacts
<1>3. Written \subseteq Ids /\ None \notin Written
  BY VersionsAssumption DEF ChainInv, VersionsTypeOK, Written, Ids, None
<1>4. /\ v.supersedes = u.supersedes /\ v.stamp = u.stamp
      /\ v.memory = IF u.supersedes = None THEN NewId ELSE u.memory
      /\ v = [supersedes |-> v.supersedes, memory |-> v.memory, stamp |-> v.stamp]
  BY <1>2, <1>3
<1> HIDE DEF v
<1>5. v.memory \in Ids /\ v.supersedes \in Ids \cup {None}
  BY <1>1, <1>2, <1>3, <1>4
<1>6. v \in Chunk
  BY <1>4, <1>5 DEF Chunk
<1> QED
  BY <1>1, <1>4, <1>6

\* A new chunk goes to the end of a chain, and nothing else becomes another.
LEMMA PutKeeps ==
    ASSUME ChainInv, NEW n \in Nodes, NEW v \in Chunk, chunk' = Append(chunk, v),
           v.supersedes \in Written \cup {None},
           v.memory = IF v.supersedes = None THEN NewId ELSE chunk[v.supersedes].memory,
           NewId \in Ids,
           live' = [live EXCEPT ![n][current[n]] = @ \cup {NewId}],
           index' = [index EXCEPT ![n] = @ \cup {NewId}],
           edit' \in {edit, [edit EXCEPT ![n] = {}]},
           UNCHANGED <<clock, tomb, current, deletes, restarts>>
    PROVE  ChainInv'
<1>1. /\ chunk' \in Seq(Chunk) /\ Len(chunk') = NewId /\ NewId \in Nat
      /\ \A c \in Written : chunk'[c] = chunk[c]
      /\ chunk'[NewId] = v
      /\ Written' = Written \cup {NewId} /\ NewId \notin Written
  BY Appended
<1>2. /\ VersionsTypeOK
      /\ Written \subseteq Nat \ {0}
      /\ \A c \in Written : c < NewId /\ chunk[c].memory \in Written
  <2>1. \A c \in Written : /\ c \in Nat \ {0} /\ Len(chunk) \in Nat /\ c <= Len(chunk)
                           /\ chunk[c].memory \in Written
    BY ChunkFacts
  <2>2. ASSUME NEW c \in Written PROVE c < NewId
    <3>1. c \in Nat \ {0} /\ Len(chunk) \in Nat /\ c <= Len(chunk)
      BY <2>1
    <3> QED
      BY <3>1 DEF NewId
  <2> QED
    BY <2>1, <2>2 DEF ChainInv
<1>3. Len(chunk') <= MaxChunks
  BY <1>1 DEF Ids
<1>4. live' \in [Nodes -> [Epochs -> SUBSET Written']]
  <2>1. live \in [Nodes -> [Epochs -> SUBSET Written']] /\ current[n] \in Epochs
    BY <1>1, <1>2 DEF VersionsTypeOK
  <2> QED
    BY <1>1, <2>1
<1>5. /\ tomb' \in [Nodes -> [Epochs -> SUBSET Written']]
      /\ index' \in [Nodes -> SUBSET Written']
  BY <1>1, <1>2 DEF VersionsTypeOK
<1>6. /\ edit' \in [Nodes -> {{}} \cup {{u} : u \in Chunk}]
      /\ \A m \in Nodes : edit'[m] \subseteq edit[m]
  BY <1>2 DEF VersionsTypeOK
<1>7. VersionsTypeOK'
  BY <1>1, <1>2, <1>3, <1>4, <1>5, <1>6 DEF VersionsTypeOK
<1>8. ASSUME NEW c \in Written'
      PROVE  /\ chunk'[c].supersedes < c
             /\ chunk'[c].memory \in Written'
             /\ chunk'[c].supersedes # None =>
                    chunk'[c].memory = chunk'[chunk'[c].supersedes].memory
  <2>1. CASE c \in Written
    <3>1. /\ chunk[c].supersedes < c /\ chunk[c].memory \in Written
          /\ chunk[c].supersedes \in Nat /\ c <= Len(chunk) /\ c \in Nat /\ Len(chunk) \in Nat
          /\ chunk[c].supersedes # None => chunk[c].memory = chunk[chunk[c].supersedes].memory
      BY <2>1, ChunkFacts DEF ChainInv
    <3>2. chunk[c].supersedes # None => chunk[c].supersedes \in Written
      BY <3>1 DEF Written, None
    <3> QED
      BY <1>1, <2>1, <3>1, <3>2
  <2>2. CASE c = NewId
    <3>1. v.supersedes < NewId
      BY <1>1, <1>2 DEF None, NewId
    <3>2. v.memory \in Written'
      BY <1>1, <1>2
    <3> QED
      BY <1>1, <2>2, <3>1, <3>2
  <2> QED
    BY <1>1, <2>1, <2>2
<1>9. ASSUME NEW m \in Nodes, NEW u \in edit'[m]
      PROVE  u.supersedes \in Written' /\ u.memory = chunk'[u.supersedes].memory
  BY <1>1, <1>6 DEF ChainInv
<1> QED
  BY <1>7, <1>8, <1>9 DEF ChainInv

\* Steps that write no chunk.
LEMMA ChainsLeftAlone ==
    ASSUME ChainInv, chunk' = chunk, VersionsTypeOK',
           \A m \in Nodes : \A u \in edit'[m] :
              u \in edit[m] \/ (u.supersedes \in Written /\ u.memory = chunk[u.supersedes].memory)
    PROVE  ChainInv'
<1>1. Written' = Written
  BY DEF Written
<1> QED
  BY <1>1 DEF ChainInv

\* A POST is a Put of what its body says.
LEMMA PostFacts ==
    ASSUME ChainInv, NEW n \in Nodes, NEW s, NEW stamp \in 1 .. MaxTime, Post(n, s, stamp)
    PROVE  /\ s \in Written \cup {None}
           /\ \E v \in Chunk :
                 /\ chunk' = Append(chunk, v)
                 /\ v.supersedes = s
                 /\ v.memory = IF s = None THEN NewId ELSE chunk[s].memory
           /\ NewId \in Ids
           /\ live' = [live EXCEPT ![n][current[n]] = @ \cup {NewId}]
           /\ index' = [index EXCEPT ![n] = @ \cup {NewId}]
           /\ UNCHANGED <<clock, tomb, current, edit, deletes, restarts>>
<1> DEFINE u == [supersedes |-> s, memory |-> IF s = None THEN None ELSE chunk[s].memory,
                 stamp |-> stamp]
<1>1. s \in Written \cup {None} /\ Put(n, u)
      /\ UNCHANGED <<clock, tomb, current, edit, deletes, restarts>>
  BY DEF Post
<1>2. /\ u.supersedes = s /\ u.stamp = stamp
      /\ u.memory = IF s = None THEN None ELSE chunk[s].memory
      /\ u = [supersedes |-> u.supersedes, memory |-> u.memory, stamp |-> u.stamp]
  OBVIOUS
<1> HIDE DEF u
<1> QED
  BY <1>1, <1>2, PutFacts

\* And so is the second half of a PATCH.
LEMMA PatchFacts ==
    ASSUME ChainInv, NEW n \in Nodes, PatchWrite(n)
    PROVE  \E u \in edit[n], v \in Chunk :
                 /\ u.supersedes \in Written
                 /\ chunk' = Append(chunk, v)
                 /\ v.supersedes = u.supersedes
                 /\ v.memory = u.memory /\ u.memory = chunk[u.supersedes].memory
                 /\ NewId \in Ids
                 /\ live' = [live EXCEPT ![n][current[n]] = @ \cup {NewId}]
                 /\ index' = [index EXCEPT ![n] = @ \cup {NewId}]
                 /\ edit' = [edit EXCEPT ![n] = {}]
                 /\ UNCHANGED <<clock, tomb, current, deletes, restarts>>
<1>1. PICK u \in edit[n] : Put(n, u)
  BY DEF PatchWrite
<1>2. u \in Chunk /\ u.supersedes \in Written /\ u.memory = chunk[u.supersedes].memory
  <2>1. edit[n] \in {{}} \cup {{w} : w \in Chunk}
    BY DEF ChainInv, VersionsTypeOK
  <2>2. u \in Chunk
    BY <2>1
  <2>3. /\ u.supersedes \in Written
        /\ u.memory = chunk[u.supersedes].memory
    BY DEF ChainInv
  <2> QED
    BY <2>2, <2>3
<1>3. /\ u = [supersedes |-> u.supersedes, memory |-> u.memory, stamp |-> u.stamp]
      /\ u.stamp \in 1 .. MaxTime
  BY <1>2 DEF Chunk
<1>4. None \notin Written
  BY DEF Written, None
<1>5. PICK v \in Chunk :
        /\ chunk' = Append(chunk, v)
        /\ v.supersedes = u.supersedes
        /\ v.memory = chunk[u.supersedes].memory
  BY <1>1, <1>2, <1>3, <1>4, PutFacts
<1>6. /\ NewId \in Ids
      /\ live' = [live EXCEPT ![n][current[n]] = @ \cup {NewId}]
      /\ index' = [index EXCEPT ![n] = @ \cup {NewId}]
  BY <1>1, <1>2, <1>3, <1>4, PutFacts
<1> QED
  BY <1>2, <1>5, <1>6 DEF PatchWrite

\* What a delta changes at the one that it reaches.
LEMMA ReceiveFacts ==
    ASSUME ChainInv, NEW n \in Nodes, NEW m \in Nodes \ {n}, Receive(n, m)
    PROVE  /\ live' \in [Nodes -> [Epochs -> SUBSET Written]]
           /\ tomb' \in [Nodes -> [Epochs -> SUBSET Written]]
           /\ \A k \in Nodes \ {n} : live'[k] = live[k]
           /\ Found(n)' \subseteq Found(n) \cup Found(m)
           /\ index' = [index EXCEPT ![n] = @ \cup Listed(n)']
           /\ UNCHANGED <<chunk, clock, current, edit, deletes, restarts>>
<1> DEFINE f == current[m]
           e == current[n]
           t == tomb[n][e] \cup tomb[m][f]
           l == (live[n][e] \cup live[m][f]) \ t
<1>1. /\ live' = [live EXCEPT ![n][e] = l]
      /\ tomb' = [tomb EXCEPT ![n][e] = t]
      /\ index' = [index EXCEPT ![n] = @ \cup Listed(n)']
      /\ UNCHANGED <<chunk, clock, current, edit, deletes, restarts>>
  BY DEF Receive, Indexing
<1>2. /\ live \in [Nodes -> [Epochs -> SUBSET Written]]
      /\ tomb \in [Nodes -> [Epochs -> SUBSET Written]]
      /\ e \in Epochs /\ f \in Epochs
  BY DEF ChainInv, VersionsTypeOK
<1>3. /\ t \in SUBSET Written /\ l \in SUBSET Written
      /\ l \subseteq Found(n) \cup Found(m)
  BY <1>2 DEF Found
<1> HIDE DEF e, f, t, l
<1>4. /\ live' \in [Nodes -> [Epochs -> SUBSET Written]]
      /\ tomb' \in [Nodes -> [Epochs -> SUBSET Written]]
      /\ \A k \in Nodes \ {n} : live'[k] = live[k]
      /\ \A d \in Epochs : live'[n][d] \in {l, live[n][d]}
  BY <1>1, <1>2, <1>3
<1>5. Found(n)' \subseteq Found(n) \cup Found(m)
  BY <1>3, <1>4 DEF Found
<1> QED
  BY <1>1, <1>4, <1>5

LEMMA DeleteFacts ==
    ASSUME ChainInv, NEW n \in Nodes, NEW c, Delete(n, c)
    PROVE  /\ live' \in [Nodes -> [Epochs -> SUBSET Written]]
           /\ tomb' \in [Nodes -> [Epochs -> SUBSET Written]]
           /\ \A k \in Nodes \ {n} : live'[k] = live[k]
           /\ Found(n)' \subseteq Found(n)
           /\ index' = [index EXCEPT ![n] = @ \ {c}]
           /\ UNCHANGED <<chunk, clock, current, edit, restarts>>
           /\ deletes < MaxDeletes /\ deletes' = deletes + 1
<1> DEFINE e == Holding(n, c)
<1>1. /\ c \in Found(n)
      /\ live' = [live EXCEPT ![n][e] = @ \ {c}]
      /\ tomb' = [tomb EXCEPT ![n][e] = @ \cup {c}]
      /\ index' = [index EXCEPT ![n] = @ \ {c}]
      /\ UNCHANGED <<chunk, clock, current, edit, restarts>>
      /\ deletes < MaxDeletes /\ deletes' = deletes + 1
  BY DEF Delete, Unindexing
<1>2. /\ live \in [Nodes -> [Epochs -> SUBSET Written]]
      /\ tomb \in [Nodes -> [Epochs -> SUBSET Written]]
      /\ e \in Epochs
  BY DEF ChainInv, VersionsTypeOK, Holding, Epochs
<1>3. c \in Written
  BY <1>1, FoundWritten
<1> HIDE DEF e
<1>4. /\ live' \in [Nodes -> [Epochs -> SUBSET Written]]
      /\ tomb' \in [Nodes -> [Epochs -> SUBSET Written]]
      /\ \A k \in Nodes \ {n} : live'[k] = live[k]
      /\ \A d \in Epochs : live'[n][d] \subseteq live[n][d]
  BY <1>1, <1>2, <1>3
<1>5. Found(n)' \subseteq Found(n)
  BY <1>4 DEF Found
<1> QED
  BY <1>1, <1>4, <1>5

LEMMA ListedWritten ==
    ASSUME ChainInv, NEW n \in Nodes
    PROVE  Listed(n) \in SUBSET Written /\ Listed(n) \subseteq Heads(n)
BY FoundWritten DEF Listed, Resolve, Heads

\* PATCH reads what is there.
LEMMA PatchReadFacts ==
    ASSUME ChainInv, NEW n \in Nodes, NEW s, PatchRead(n, s)
    PROVE  \E u \in Chunk :
              /\ edit' = [edit EXCEPT ![n] = {u}]
              /\ s \in Found(n) /\ s \in Written /\ u.supersedes = s /\ u.memory = chunk[s].memory
              /\ UNCHANGED <<chunk, clock, live, tomb, current, index, deletes, restarts>>
<1> DEFINE u == [supersedes |-> s, memory |-> chunk[s].memory, stamp |-> clock]
<1>1. /\ s \in Found(n) /\ edit' = [edit EXCEPT ![n] = {u}]
      /\ UNCHANGED <<chunk, clock, live, tomb, current, index, deletes, restarts>>
  BY DEF PatchRead
<1>2. s \in Written /\ chunk[s].memory \in Written /\ clock \in 1 .. MaxTime
  BY <1>1, FoundWritten, ChunkFacts DEF ChainInv, VersionsTypeOK
<1>3. Written \subseteq Ids
  BY VersionsAssumption DEF ChainInv, VersionsTypeOK, Written, Ids
<1>4. u \in Chunk
  BY <1>2, <1>3 DEF Chunk
<1> QED
  BY <1>1, <1>2, <1>4

LEMMA ChainStep == ChainInv /\ [VersionsNext]_versionsVars => ChainInv'
<1> SUFFICES ASSUME ChainInv, [VersionsNext]_versionsVars PROVE ChainInv'
  OBVIOUS
<1>0. VersionsTypeOK
  BY DEF ChainInv
<1>1. ASSUME NEW n \in Nodes, NEW s \in Ids \cup {None}, NEW stamp \in 1 .. MaxTime,
             Post(n, s, stamp)
      PROVE  ChainInv'
  <2>1. PICK v \in Chunk :
          /\ chunk' = Append(chunk, v)
          /\ v.supersedes = s
          /\ v.memory = IF s = None THEN NewId ELSE chunk[s].memory
    BY <1>1, PostFacts
  <2>2. /\ s \in Written \cup {None} /\ NewId \in Ids
        /\ live' = [live EXCEPT ![n][current[n]] = @ \cup {NewId}]
        /\ index' = [index EXCEPT ![n] = @ \cup {NewId}]
        /\ UNCHANGED <<clock, tomb, current, edit, deletes, restarts>>
    BY <1>1, PostFacts
  <2> QED
    BY <2>1, <2>2, PutKeeps
<1>2. ASSUME NEW n \in Nodes, NEW s \in Ids, PatchRead(n, s) PROVE ChainInv'
  <2>1. PICK u \in Chunk :
          /\ edit' = [edit EXCEPT ![n] = {u}]
          /\ s \in Written /\ u.supersedes = s /\ u.memory = chunk[s].memory
          /\ UNCHANGED <<chunk, clock, live, tomb, current, index, deletes, restarts>>
    BY <1>2, PatchReadFacts
  <2>2. VersionsTypeOK'
    BY <1>0, <2>1 DEF VersionsTypeOK, Written
  <2>3. \A m \in Nodes : \A w \in edit'[m] : w \in edit[m] \/ w = u
    BY <1>0, <2>1 DEF VersionsTypeOK
  <2> QED
    BY <2>1, <2>2, <2>3, ChainsLeftAlone
<1>3. ASSUME NEW n \in Nodes, PatchWrite(n) PROVE ChainInv'
  <2>1. PICK u \in edit[n], v \in Chunk :
                 /\ u.supersedes \in Written
                 /\ chunk' = Append(chunk, v)
                 /\ v.supersedes = u.supersedes
                 /\ v.memory = u.memory /\ u.memory = chunk[u.supersedes].memory
                 /\ NewId \in Ids
                 /\ live' = [live EXCEPT ![n][current[n]] = @ \cup {NewId}]
                 /\ index' = [index EXCEPT ![n] = @ \cup {NewId}]
                 /\ edit' = [edit EXCEPT ![n] = {}]
                 /\ UNCHANGED <<clock, tomb, current, deletes, restarts>>
    BY <1>3, PatchFacts
  <2>2. v.supersedes # None
    BY <2>1 DEF Written, None
  <2> QED
    BY <2>1, <2>2, PutKeeps
<1>4. ASSUME NEW n \in Nodes, NEW c \in Ids, Delete(n, c) PROVE ChainInv'
  <2>1. deletes' \in 0 .. MaxDeletes
    BY <1>0, <1>4, DeleteFacts, VersionsAssumption DEF VersionsTypeOK
  <2>2. index' \in [Nodes -> SUBSET Written]
    BY <1>0, <1>4, DeleteFacts DEF VersionsTypeOK
  <2>3. Written' = Written
    BY <1>4, DeleteFacts DEF Written
  <2>4. VersionsTypeOK'
    BY <1>0, <1>4, <2>1, <2>2, <2>3, DeleteFacts DEF VersionsTypeOK
  <2> QED
    BY <1>4, <2>4, DeleteFacts, ChainsLeftAlone
<1>5. ASSUME NEW n \in Nodes, NEW m \in Nodes \ {n}, Receive(n, m) PROVE ChainInv'
  <2>1. Written' = Written
    BY <1>5, ReceiveFacts DEF Written
  <2>2. Listed(n)' \subseteq Written
    BY <1>5, ReceiveFacts, FoundWritten DEF Listed, Resolve
  <2>3. index' \in [Nodes -> SUBSET Written]
    <3>1. PICK new \in SUBSET Written : index' = [index EXCEPT ![n] = @ \cup new]
      BY <1>5, <2>2, ReceiveFacts
    <3> QED
      BY <1>0, <3>1 DEF VersionsTypeOK
  <2>4. VersionsTypeOK'
    BY <1>0, <1>5, <2>1, <2>3, ReceiveFacts DEF VersionsTypeOK
  <2> QED
    BY <1>5, <2>4, ReceiveFacts, ChainsLeftAlone
<1>6. ASSUME NEW n \in Nodes, Rotate(n) PROVE ChainInv'
  <2>1. VersionsTypeOK'
    BY <1>0, <1>6 DEF VersionsTypeOK, Rotate, Epochs, Written
  <2> QED
    BY <1>6, <2>1, ChainsLeftAlone DEF Rotate
<1>7. ASSUME NEW n \in Nodes, Restart(n) PROVE ChainInv'
  <2>1. restarts' \in 0 .. MaxRestarts
    BY <1>0, <1>7, VersionsAssumption DEF VersionsTypeOK, Restart
  <2>2. /\ edit' \in [Nodes -> {{}} \cup {{u} : u \in Chunk}]
        /\ \A m \in Nodes : edit'[m] \subseteq edit[m]
    BY <1>0, <1>7 DEF VersionsTypeOK, Restart
  <2>3. index' \in [Nodes -> SUBSET Written]
    BY <1>0, <1>7, ListedWritten DEF VersionsTypeOK, Restart
  <2>4. Written' = Written
    BY <1>7 DEF Restart, Written
  <2>5. VersionsTypeOK'
    BY <1>0, <1>7, <2>1, <2>2, <2>3, <2>4 DEF VersionsTypeOK, Restart
  <2> QED
    BY <1>7, <2>2, <2>5, ChainsLeftAlone DEF Restart
<1>8. CASE Tick
  <2>1. clock' \in 1 .. MaxTime
    BY <1>0, <1>8, VersionsAssumption DEF VersionsTypeOK, Tick
  <2>2. VersionsTypeOK'
    BY <1>0, <1>8, <2>1 DEF VersionsTypeOK, Tick, Written
  <2> QED
    BY <1>8, <2>2, ChainsLeftAlone DEF Tick
<1>9. CASE UNCHANGED versionsVars
  BY <1>9 DEF versionsVars, ChainInv, VersionsTypeOK, Written
<1> QED
  BY <1>1, <1>2, <1>3, <1>4, <1>5, <1>6, <1>7, <1>8, <1>9 DEF VersionsNext

LEMMA ChainInit == VersionsInit => ChainInv
<1> SUFFICES ASSUME VersionsInit PROVE ChainInv
  OBVIOUS
<1>1. /\ chunk = <<>> /\ clock = 1
      /\ live = [n \in Nodes |-> [e \in Epochs |-> {}]]
      /\ tomb = [n \in Nodes |-> [e \in Epochs |-> {}]]
      /\ current = [n \in Nodes |-> 1]
      /\ edit = [n \in Nodes |-> {}]
      /\ index = [n \in Nodes |-> {}]
      /\ deletes = 0 /\ restarts = 0
  BY DEF VersionsInit
<1>2. chunk \in Seq(Chunk) /\ Len(chunk) = 0
  BY <1>1
<1>3. Written = {}
  BY <1>2 DEF Written
<1>4. /\ 1 \in 1 .. MaxTime /\ 0 \in 0 .. MaxDeletes /\ 0 \in 0 .. MaxRestarts
      /\ 0 <= MaxChunks /\ 1 \in Epochs
  BY VersionsAssumption DEF Epochs
<1>5. VersionsTypeOK
  BY <1>1, <1>2, <1>4 DEF VersionsTypeOK
<1> QED
  BY <1>1, <1>3, <1>5 DEF ChainInv

\* However chains fork, epochs split them, filters take parts of them away and
\* deltas mix them: the newest version of each line that a query lets through is
\* answered, and no memory is left out.
THEOREM EveryMemoryAnswered == VersionsSpec => []AnswersAreComplete
<1>1. ChainInv => AnswersAreComplete
  BY NewestShown, MemoriesAnswered DEF AnswersAreComplete, ChainInv
<1> QED
  BY <1>1, ChainInit, ChainStep, PTL DEF VersionsSpec

-----------------------------------------------------------------------------
(***************************************************************************)
(* What becomes a head, and what is gone.                                  *)
(***************************************************************************)

\* Without new chunks, documents that stay as they are list what they did.
LEMMA ListedStays ==
    ASSUME ChainInv, NEW n \in Nodes, live'[n] = live[n],
           \A c \in Written : chunk'[c] = chunk[c]
    PROVE  Listed(n)' \subseteq Heads(n)
<1>1. Found(n)' = Found(n) /\ Found(n) \in SUBSET Written
  BY FoundWritten DEF Found
<1>2. Superseded(Found(n))' = Superseded(Found(n))
  BY <1>1 DEF Superseded
<1> QED
  BY <1>1, <1>2 DEF Listed, Resolve, Heads

\* What a Put makes a head is the chunk that it puts.
LEMMA PutIndexes ==
    ASSUME ChainInv, NEW n \in Nodes, NEW k \in Nodes, NEW v \in Chunk, chunk' = Append(chunk, v),
           live' = [live EXCEPT ![n][current[n]] = @ \cup {NewId}],
           index' = [index EXCEPT ![n] = @ \cup {NewId}]
    PROVE  Listed(k)' \ Heads(k) \subseteq index'[k]
<1>1. \A c \in Written : chunk'[c] = chunk[c]
  BY Appended
<1>2. /\ live \in [Nodes -> [Epochs -> SUBSET Written]] /\ current[n] \in Epochs
      /\ index \in [Nodes -> SUBSET Written]
  BY DEF ChainInv, VersionsTypeOK
<1>3. CASE k # n
  <2>1. live'[k] = live[k]
    BY <1>2, <1>3
  <2> QED
    BY <1>1, <2>1, ListedStays
<1>4. CASE k = n
  <2>1. Found(n)' = Found(n) \cup {NewId} /\ Found(n) \in SUBSET Written
    <3>1. \A e \in Epochs : live'[n][e] = IF e = current[n] THEN live[n][e] \cup {NewId} ELSE live[n][e]
      BY <1>2
    <3> QED
      BY <1>2, <3>1, FoundWritten DEF Found
  <2>2. Superseded(Found(n)) \subseteq Superseded(Found(n))'
    BY <1>1, <2>1 DEF Superseded
  <2>3. Listed(n)' \subseteq Heads(n) \cup {NewId}
    BY <2>1, <2>2 DEF Listed, Resolve, Heads
  <2>4. NewId \in index'[n]
    BY <1>2
  <2> QED
    BY <1>4, <2>3, <2>4
<1> QED
  BY <1>3, <1>4

\* Whatever of a write, a delta or a restart makes a chunk a head that is listed,
\* the index has its links.
THEOREM NewHeadsAreIndexed == VersionsSpec => NewlyListedIsIndexed
<1>1. ChainInv /\ [VersionsNext]_versionsVars =>
        [\A n \in Nodes :
            \/ Listed(n)' \ Heads(n) \subseteq index'[n]
            \/ \E c \in Ids : Delete(n, c)]_versionsVars
  <2> SUFFICES ASSUME ChainInv, VersionsNext, NEW k \in Nodes, ~\E c \in Ids : Delete(k, c)
               PROVE  Listed(k)' \ Heads(k) \subseteq index'[k]
    BY DEF versionsVars
  <2>0. VersionsTypeOK
    BY DEF ChainInv
  <2>1. ASSUME live'[k] = live[k], chunk' = chunk
        PROVE  Listed(k)' \ Heads(k) \subseteq index'[k]
    BY <2>1, ListedStays
  <2>2. ASSUME NEW n \in Nodes, NEW s \in Ids \cup {None}, NEW stamp \in 1 .. MaxTime,
               Post(n, s, stamp)
        PROVE  Listed(k)' \ Heads(k) \subseteq index'[k]
    BY <2>2, PostFacts, PutIndexes
  <2>3. ASSUME NEW n \in Nodes, PatchWrite(n)
        PROVE  Listed(k)' \ Heads(k) \subseteq index'[k]
    BY <2>3, PatchFacts, PutIndexes
  <2>4. ASSUME NEW n \in Nodes, NEW s \in Ids, PatchRead(n, s)
        PROVE  Listed(k)' \ Heads(k) \subseteq index'[k]
    BY <2>1, <2>4 DEF PatchRead
  <2>5. ASSUME NEW n \in Nodes, NEW c \in Ids, Delete(n, c)
        PROVE  Listed(k)' \ Heads(k) \subseteq index'[k]
    <3>1. k # n
      BY <2>5
    <3> QED
      BY <2>1, <2>5, <3>1, DeleteFacts
  <2>6. ASSUME NEW n \in Nodes, NEW m \in Nodes \ {n}, Receive(n, m)
        PROVE  Listed(k)' \ Heads(k) \subseteq index'[k]
    <3>1. CASE k = n
      BY <2>0, <2>6, <3>1, ReceiveFacts DEF VersionsTypeOK
    <3>2. CASE k # n
      BY <2>1, <2>6, <3>2, ReceiveFacts
    <3> QED
      BY <3>1, <3>2
  <2>7. ASSUME NEW n \in Nodes, Rotate(n) \/ Restart(n)
        PROVE  Listed(k)' \ Heads(k) \subseteq index'[k]
    BY <2>1, <2>7 DEF Rotate, Restart
  <2>8. CASE Tick
    BY <2>1, <2>8 DEF Tick
  <2> QED
    BY <2>2, <2>3, <2>4, <2>5, <2>6, <2>7, <2>8 DEF VersionsNext
<1> QED
  BY <1>1, ChainInit, ChainStep, PTL DEF VersionsSpec, NewlyListedIsIndexed

\* A memory stays extinct unless something brings a version of it.
LEMMA ExtinctStays ==
    ASSUME ChainInv, NEW m, Extinct(m),
           \A n \in Nodes : \A c \in Found(n)' :
              \/ c \in Written /\ chunk'[c] = chunk[c] /\ \E k \in Nodes : c \in Found(k)
              \/ chunk'[c].memory # m,
           \A n \in Nodes : \A u \in edit'[n] : u \in edit[n] \/ u.memory # m
    PROVE  Extinct(m)'
BY DEF Extinct, MemoriesOf

LEMMA PutLeavesExtinct ==
    ASSUME ChainInv, NEW m \in Written, Extinct(m), NEW n \in Nodes, NEW v \in Chunk,
           chunk' = Append(chunk, v), v.memory # m,
           live' = [live EXCEPT ![n][current[n]] = @ \cup {NewId}],
           edit' \in {edit, [edit EXCEPT ![n] = {}]}
    PROVE  Extinct(m)'
<1>1. (\A c \in Written : chunk'[c] = chunk[c]) /\ chunk'[NewId] = v
  BY Appended
<1>2. /\ live \in [Nodes -> [Epochs -> SUBSET Written]] /\ current[n] \in Epochs
      /\ edit \in [Nodes -> {{}} \cup {{u} : u \in Chunk}]
  BY DEF ChainInv, VersionsTypeOK
<1>3. ASSUME NEW k \in Nodes PROVE Found(k)' \subseteq Found(k) \cup {NewId}
  <2>1. \A e \in Epochs : live'[k][e] \subseteq live[k][e] \cup {NewId}
    BY <1>2
  <2> QED
    BY <2>1 DEF Found
<1>4. \A k \in Nodes : \A c \in Found(k)' :
        \/ c \in Written /\ chunk'[c] = chunk[c] /\ \E j \in Nodes : c \in Found(j)
        \/ chunk'[c].memory # m
  BY <1>1, <1>3, FoundWritten
<1>5. \A k \in Nodes : \A u \in edit'[k] : u \in edit[k]
  BY <1>2
<1> QED
  BY <1>4, <1>5, ExtinctStays

\* Steps that find only what somebody found before.
LEMMA FindsNothingNew ==
    ASSUME ChainInv, NEW m, Extinct(m), chunk' = chunk,
           \A n \in Nodes : \A c \in Found(n)' : \E k \in Nodes : c \in Found(k),
           \A n \in Nodes : \A u \in edit'[n] : u \in edit[n] \/ u.memory # m
    PROVE  Extinct(m)'
BY ExtinctStays, FoundWritten

\* A memory of which nobody has a version, and of which no PATCH is under way, does
\* not come back, by whatever deltas, restarts or epochs; only a POST that names one
\* of its chunks brings it.
THEOREM ExtinctIsForGood == VersionsSpec => GoneForGood
<1>1. ChainInv /\ [VersionsNext]_versionsVars =>
        [\A c \in Written :
            Extinct(chunk[c].memory) =>
                \/ Extinct(chunk[c].memory)'
                \/ \E n \in Nodes, s \in Written, stamp \in 1 .. MaxTime :
                        chunk[s].memory = chunk[c].memory /\ Post(n, s, stamp)]_versionsVars
  <2> SUFFICES ASSUME ChainInv, VersionsNext, NEW c \in Written, Extinct(chunk[c].memory),
                      ~\E n \in Nodes, s \in Written, stamp \in 1 .. MaxTime :
                           chunk[s].memory = chunk[c].memory /\ Post(n, s, stamp)
               PROVE  Extinct(chunk[c].memory)'
    BY DEF versionsVars
  <2> DEFINE m == chunk[c].memory
  <2>0. /\ VersionsTypeOK /\ m \in Written
        /\ \A n \in Nodes : /\ \A d \in Found(n) : d \in Written /\ chunk[d].memory # m
                            /\ \A u \in edit[n] : u.memory # m
    BY ChunkFacts, FoundWritten DEF ChainInv, Extinct, MemoriesOf
  <2>1. chunk'[c] = chunk[c]
    <3>1. ASSUME NEW v \in Chunk, chunk' = Append(chunk, v) PROVE chunk'[c] = chunk[c]
      BY <3>1, Appended
    <3>2. chunk' = chunk \/ \E v \in Chunk : chunk' = Append(chunk, v)
      BY PostFacts, PatchFacts
         DEF VersionsNext, PatchRead, Delete, Receive, Rotate, Restart, Tick
    <3> QED
      BY <3>1, <3>2
  <2>2. SUFFICES \A w : w = m => Extinct(w)'
    BY <2>1 DEF Extinct
  <2> SUFFICES ASSUME NEW w, w = m PROVE Extinct(w)'
    OBVIOUS
  <2>3. Extinct(w) /\ w \in Written
    BY <2>0
  <2>4. ASSUME NEW n \in Nodes, NEW s \in Ids \cup {None}, NEW stamp \in 1 .. MaxTime,
               Post(n, s, stamp)
        PROVE  Extinct(w)'
    <3>1. PICK v \in Chunk :
            /\ chunk' = Append(chunk, v)
            /\ v.memory = IF s = None THEN NewId ELSE chunk[s].memory
      BY <2>4, PostFacts
    <3>2. /\ s \in Written \cup {None}
          /\ live' = [live EXCEPT ![n][current[n]] = @ \cup {NewId}]
          /\ edit' = edit
      BY <2>4, PostFacts
    <3>3. v.memory # w
      <4>1. NewId \notin Written
        BY <3>1, Appended
      <4>2. s \in Written => chunk[s].memory # m
        BY <2>4
      <4> QED
        BY <2>3, <3>1, <3>2, <4>1, <4>2
    <3> QED
      BY <2>3, <3>1, <3>2, <3>3, PutLeavesExtinct
  <2>5. ASSUME NEW n \in Nodes, PatchWrite(n) PROVE Extinct(w)'
    <3>1. PICK u \in edit[n], v \in Chunk :
                 /\ chunk' = Append(chunk, v)
                 /\ v.memory = u.memory
                 /\ live' = [live EXCEPT ![n][current[n]] = @ \cup {NewId}]
                 /\ edit' = [edit EXCEPT ![n] = {}]
      BY <2>5, PatchFacts
    <3>2. v.memory # w
      BY <2>0, <3>1
    <3> QED
      BY <2>3, <3>1, <3>2, PutLeavesExtinct
  <2>6. ASSUME NEW n \in Nodes, NEW s \in Ids, PatchRead(n, s) PROVE Extinct(w)'
    <3>1. PICK u \in Chunk :
              /\ edit' = [edit EXCEPT ![n] = {u}]
              /\ s \in Found(n) /\ u.memory = chunk[s].memory
              /\ UNCHANGED <<chunk, live>>
      BY <2>6, PatchReadFacts
    <3>2. \A k \in Nodes : \A x \in edit'[k] : x \in edit[k] \/ x.memory # w
      BY <2>0, <3>1 DEF VersionsTypeOK
    <3>3. \A k \in Nodes : Found(k)' = Found(k)
      BY <3>1 DEF Found
    <3> QED
      BY <2>3, <3>1, <3>2, <3>3, FindsNothingNew
  <2>7. ASSUME NEW n \in Nodes, NEW d \in Ids, Delete(n, d) PROVE Extinct(w)'
    <3>1. ASSUME NEW k \in Nodes PROVE Found(k)' \subseteq Found(k)
      <4>1. CASE k = n
        BY <2>7, <4>1, DeleteFacts
      <4>2. CASE k # n
        <5>1. live'[k] = live[k]
          BY <2>7, <4>2, DeleteFacts
        <5> QED
          BY <5>1 DEF Found
      <4> QED
        BY <4>1, <4>2
    <3> QED
      BY <2>3, <2>7, <3>1, DeleteFacts, FindsNothingNew
  <2>8. ASSUME NEW n \in Nodes, NEW k \in Nodes \ {n}, Receive(n, k) PROVE Extinct(w)'
    <3>1. ASSUME NEW j \in Nodes PROVE Found(j)' \subseteq Found(j) \cup Found(k)
      <4>1. CASE j = n
        BY <2>8, <4>1, ReceiveFacts
      <4>2. CASE j # n
        <5>1. live'[j] = live[j]
          BY <2>8, <4>2, ReceiveFacts
        <5> QED
          BY <5>1 DEF Found
      <4> QED
        BY <4>1, <4>2
    <3> QED
      BY <2>3, <2>8, <3>1, ReceiveFacts, FindsNothingNew
  <2>9. ASSUME NEW n \in Nodes, Rotate(n) \/ Restart(n) PROVE Extinct(w)'
    <3>1. \A k \in Nodes : edit'[k] \subseteq edit[k]
      BY <2>0, <2>9 DEF VersionsTypeOK, Rotate, Restart
    <3>2. chunk' = chunk /\ \A k \in Nodes : Found(k)' = Found(k)
      BY <2>9 DEF Rotate, Restart, Found
    <3> QED
      BY <2>3, <3>1, <3>2, FindsNothingNew
  <2>10. CASE Tick
    <3>1. chunk' = chunk /\ edit' = edit /\ \A k \in Nodes : Found(k)' = Found(k)
      BY <2>10 DEF Tick, Found
    <3> QED
      BY <2>3, <3>1, FindsNothingNew
  <2> QED
    BY <2>4, <2>5, <2>6, <2>7, <2>8, <2>9, <2>10 DEF VersionsNext
<1> QED
  BY <1>1, ChainInit, ChainStep, PTL DEF VersionsSpec, GoneForGood

-----------------------------------------------------------------------------
(***************************************************************************)
(* The calendar.                                                           *)
(***************************************************************************)

YearEnds  == FirstYear .. LastYear + 1
LeapsTo(y) == ((y - 1) \div 4) - ((y - 1) \div 100) + ((y - 1) \div 400)
LengthOf(y) == IF Leap(y) THEN 366 ELSE 365

LEMMA YearsAreNumbers ==
    /\ FirstYear \in Nat /\ LastYear \in Nat /\ FirstYear <= LastYear
    /\ FirstYear # 0
    /\ YearEnds \subseteq Nat
BY YearsAssumption DEF YearEnds

\* How the years up to x that k divides grow in number.
LEMMA Divided ==
    ASSUME NEW x \in Nat \ {0}
    PROVE  /\ x \div 4 = ((x - 1) \div 4) + (IF x % 4 = 0 THEN 1 ELSE 0)
           /\ x \div 100 = ((x - 1) \div 100) + (IF x % 100 = 0 THEN 1 ELSE 0)
           /\ x \div 400 = ((x - 1) \div 400) + (IF x % 400 = 0 THEN 1 ELSE 0)
           /\ x % 400 = 0 => x % 100 = 0
           /\ x % 100 = 0 => x % 4 = 0
<1>1. x \div 4 = ((x - 1) \div 4) + (IF x % 4 = 0 THEN 1 ELSE 0)
  OBVIOUS
<1>2. x \div 100 = ((x - 1) \div 100) + (IF x % 100 = 0 THEN 1 ELSE 0)
  OBVIOUS
<1>3. x \div 400 = ((x - 1) \div 400) + (IF x % 400 = 0 THEN 1 ELSE 0)
  OBVIOUS
<1>4. x % 400 = 0 => x % 100 = 0
  OBVIOUS
<1>5. x % 100 = 0 => x % 4 = 0
  OBVIOUS
<1> QED
  BY <1>1, <1>2, <1>3, <1>4, <1>5

LEMMA LeapsCount ==
    ASSUME NEW y \in Nat \ {0}
    PROVE  LeapsTo(y + 1) = LeapsTo(y) + (IF Leap(y) THEN 1 ELSE 0)
<1>1. (y + 1) - 1 = y
  OBVIOUS
<1> DEFINE a == y \div 4
           b == y \div 100
           c == y \div 400
           p == (y - 1) \div 4
           q == (y - 1) \div 100
           r == (y - 1) \div 400
<1>2. /\ a = p + (IF y % 4 = 0 THEN 1 ELSE 0)
      /\ b = q + (IF y % 100 = 0 THEN 1 ELSE 0)
      /\ c = r + (IF y % 400 = 0 THEN 1 ELSE 0)
      /\ y % 400 = 0 => y % 100 = 0
      /\ y % 100 = 0 => y % 4 = 0
  BY Divided
<1>3. p \in Int /\ q \in Int /\ r \in Int
  OBVIOUS
<1>4. LeapsTo(y + 1) = a - b + c /\ LeapsTo(y) = p - q + r
  BY <1>1 DEF LeapsTo
<1> HIDE DEF a, b, c, p, q, r
<1> QED
  BY <1>2, <1>3, <1>4 DEF Leap

\* Every year begins on some day, the first one on day 0.
LEMMA YearsStart ==
    /\ YearStart[FirstYear] = 0
    /\ \A y \in YearEnds : YearStart[y] \in Int
<1> DEFINE f == [y \in YearEnds |-> 365 * (y - FirstYear) + LeapsTo(y) - LeapsTo(FirstYear)]
           Step(g) == [y \in YearEnds |->
                         IF y = FirstYear THEN 0 ELSE g[y - 1] + LengthOf(y - 1)]
<1>1. \A y \in Nat : LeapsTo(y) \in Int
  BY DEF LeapsTo
<1>2. ASSUME NEW y \in YearEnds, y # FirstYear
      PROVE  f[y] = f[y - 1] + LengthOf(y - 1)
  <2>1. /\ y \in Nat /\ y - 1 \in Nat \ {0} /\ y - 1 \in YearEnds /\ FirstYear \in Nat
        /\ (y - 1) + 1 = y
    BY <1>2, YearsAreNumbers DEF YearEnds
  <2>2. LeapsTo(y) = LeapsTo(y - 1) + (IF Leap(y - 1) THEN 1 ELSE 0)
    BY <2>1, LeapsCount
  <2>3. /\ LeapsTo(y) \in Int /\ LeapsTo(y - 1) \in Int /\ LeapsTo(FirstYear) \in Int
        /\ 365 * (y - FirstYear) = 365 * (y - 1 - FirstYear) + 365
    BY <1>1, <2>1
  <2>4. /\ f[y] = 365 * (y - FirstYear) + LeapsTo(y) - LeapsTo(FirstYear)
        /\ f[y - 1] = 365 * (y - 1 - FirstYear) + LeapsTo(y - 1) - LeapsTo(FirstYear)
    BY <2>1
  <2> HIDE DEF f
  <2> QED
    BY <2>1, <2>2, <2>3, <2>4 DEF LengthOf
<1>3. f[FirstYear] = 0
  BY <1>1, YearsAreNumbers DEF YearEnds
<1>4. f = Step(f)
  <2>1. ASSUME NEW y \in YearEnds PROVE f[y] = Step(f)[y]
    BY <1>2, <1>3
  <2> QED
    BY <2>1
<1> HIDE DEF f
<1>5. YearStart = CHOOSE g : g = Step(g)
  BY DEF YearStart, YearEnds, LengthOf
<1>6. YearStart = Step(YearStart)
  BY <1>4, <1>5
<1>7. FirstYear \in YearEnds
  BY YearsAreNumbers DEF YearEnds
<1>8. YearStart[FirstYear] = 0
  BY <1>6, <1>7
<1>9. \A y \in YearEnds : y # FirstYear => YearStart[y] = YearStart[y - 1] + LengthOf(y - 1)
  BY <1>6
<1> DEFINE T == {y \in YearEnds : YearStart[y] \notin Int}
<1>10. T = {}
  <2> SUFFICES ASSUME T # {} PROVE FALSE
    OBVIOUS
  <2>1. T \in SUBSET Nat
    BY YearsAreNumbers
  <2>2. PICK y \in T : \A z \in T : y <= z
    BY <2>1, Least
  <2>3. y # FirstYear /\ y \in YearEnds
    BY <1>8, <2>2
  <2>4. y - 1 \in YearEnds /\ ~(y <= y - 1)
    BY <2>3, YearsAreNumbers DEF YearEnds
  <2>5. YearStart[y - 1] \in Int
    BY <2>2, <2>4
  <2> QED
    BY <1>9, <2>2, <2>3, <2>5 DEF LengthOf
<1> QED
  BY <1>8, <1>10

\* Every day of the years is in one of them.
LEMMA YearFound ==
    ASSUME NEW d \in Nat, d < YearStart[LastYear + 1]
    PROVE  YearOf(d) \in Years /\ YearStart[YearOf(d)] <= d
<1> DEFINE T == {y \in YearEnds : d < YearStart[y]}
<1>1. T \in SUBSET Nat /\ T # {}
  BY YearsAreNumbers DEF YearEnds
<1>2. PICK y \in T : \A z \in T : y <= z
  BY <1>1, Least
<1>3. y # FirstYear /\ y \in YearEnds /\ d < YearStart[y]
  BY <1>2, YearsStart
<1>4. y - 1 \in Years /\ y - 1 \in YearEnds /\ ~(y <= y - 1) /\ (y - 1) + 1 = y
  BY <1>3, YearsAreNumbers DEF YearEnds, Years
<1>5. y - 1 \notin T
  BY <1>2, <1>4
<1>6. YearStart[y - 1] \in Int
  BY <1>4, YearsStart
<1>7. YearStart[y - 1] <= d
  BY <1>4, <1>5, <1>6
<1>8. \E z \in Years : YearStart[z] <= d /\ d < YearStart[z + 1]
  BY <1>3, <1>4, <1>7
<1> QED
  BY <1>8 DEF YearOf

-----------------------------------------------------------------------------
(***************************************************************************)
(* Moments and their weeks.                                                *)
(***************************************************************************)

LEMMA MomentsAreNumbers ==
    ASSUME NEW t \in Moments
    PROVE  /\ t \in Nat /\ t \div 2 \in Nat
           /\ FirstDay <= t \div 2 /\ t \div 2 <= LastDay
           /\ t % 2 \in Halves
<1>1. PICK d \in Days, h \in Halves : t = 2 * d + h
  BY DEF Moments, Moment
<1>2. d \in Nat /\ h \in 0 .. 1 /\ FirstDay <= d /\ d <= LastDay
  BY YearsAssumption DEF Days
<1>3. t \div 2 = d /\ t % 2 = h
  BY <1>1, <1>2
<1> QED
  BY <1>1, <1>2, <1>3

\* The Monday of the week of moment t, in days.
WeekOf(t) == Monday(t \div 2)

LEMMA WeekFacts ==
    ASSUME NEW t \in Int
    PROVE  /\ WeekOf(t) = 7 * (t \div 14)
           /\ WeekOf(t) \in Int
           /\ 2 * WeekOf(t) <= t /\ t < 2 * WeekOf(t) + 14
<1>1. WeekOf(t) = (t \div 2) - ((t \div 2) % 7)
  BY DEF WeekOf, Monday
<1>2. (t \div 2) - ((t \div 2) % 7) = 7 * (t \div 14)
  OBVIOUS
<1>3. 14 * (t \div 14) <= t /\ t < 14 * (t \div 14) + 14 /\ t \div 14 \in Int
  OBVIOUS
<1> QED
  BY <1>1, <1>2, <1>3

LEMMA MondayFacts ==
    ASSUME NEW d \in Int
    PROVE  /\ Monday(d) = 7 * (d \div 7) /\ Monday(d) \in Int
           /\ Monday(d) <= d /\ d < Monday(d) + 7
BY DEF Monday

\* The epoch of a moment depends on its week and on its half of the day.
LEMMA SameWeek ==
    ASSUME NEW t \in Int, NEW u \in Int, t % 2 = u % 2, WeekOf(t) = WeekOf(u)
    PROVE  EpochId(t) = EpochId(u)
BY DEF EpochId, WeekOf

\* The Thursday of a moment's week is a day of the years.
LEMMA ThursdayIsADay ==
    ASSUME NEW t \in Moments
    PROVE  /\ WeekOf(t) + 3 \in Nat
           /\ WeekOf(t) + 3 < YearStart[LastYear + 1]
<1>1. t \in Nat /\ t \in Int /\ t \div 2 \in Nat /\ t \div 2 <= LastDay
  BY MomentsAreNumbers
<1>2. LastDay \in Nat /\ LastDay \in Int
  BY YearsAssumption
<1>3. WeekOf(t) = 7 * (t \div 14)
  BY <1>1, WeekFacts
<1>4. Monday(LastDay) = 7 * (LastDay \div 7)
  BY <1>2, MondayFacts
<1>5. t \div 14 \in Nat /\ t \div 14 <= LastDay \div 7 /\ LastDay \div 7 \in Nat
  BY <1>1, <1>2
<1>6. LastYear + 1 \in YearEnds
  BY YearsAreNumbers DEF YearEnds
<1>7. YearStart[LastYear + 1] \in Int
  BY <1>6, YearsStart
<1>8. PICK p \in Nat, q \in Nat : p = t \div 14 /\ q = LastDay \div 7
  BY <1>5
<1>9. WeekOf(t) = 7 * p /\ Monday(LastDay) = 7 * q /\ p <= q
  BY <1>3, <1>4, <1>5, <1>8
<1>10. PICK e \in Int : e = YearStart[LastYear + 1]
  BY <1>7
<1>11. 7 * q + 3 < e
  BY <1>9, <1>10, DaysAssumption
<1>12. 7 * p + 3 \in Nat /\ 7 * p + 3 < e
  BY <1>8, <1>9, <1>10, <1>11
<1> QED
  BY <1>9, <1>10, <1>12

\* An epoch begins no earlier than the week of the moments named by it.
LEMMA StartsLate ==
    ASSUME NEW t \in Moments
    PROVE  /\ StartOf(EpochId(t)) \in Int
           /\ StartOf(EpochId(t)) >= 2 * WeekOf(t)
<1>1. t \in Int /\ t \div 14 \in Int
  BY MomentsAreNumbers
<1>2. PICK p \in Int : p = t \div 14 /\ WeekOf(t) = 7 * p
  BY <1>1, WeekFacts
<1>3. PICK h \in 0 .. 1 : h = t % 2
  BY <1>1
<1>4. PICK year : year = YearOf(WeekOf(t) + 3)
  OBVIOUS
<1>5. year \in Years
  BY <1>4, ThursdayIsADay, YearFound
<1>6. year \in YearEnds
  BY <1>5, YearsAreNumbers DEF Years, YearEnds
<1>7. PICK ys \in Int : ys = YearStart[year]
  BY <1>6, YearsStart
<1>8. PICK since \in Int : since = 2 * (7 * p + 3 - ys) + h
  BY <1>2, <1>3, <1>7
<1>9. EpochId(t) = <<year, Ceiling(since + 2, 14)>>
  <2>1. EpochId(t) = <<year, Ceiling(Moment((WeekOf(t) + 3) - YearStart[year]) + (t % 2) + Moment(1), Week)>>
    <3>1. EpochId(t) = <<YearOf(WeekOf(t) + 3),
                         Ceiling(Moment((WeekOf(t) + 3) - YearStart[YearOf(WeekOf(t) + 3)])
                                   + (t % 2) + Moment(1), Week)>>
      BY Zenon DEF EpochId, WeekOf
    <3> QED
      BY <1>4, <3>1
  <2>a. Week = 14 /\ Moment(1) = 2
    BY DEF Week, Moment
  <2>b. Moment((WeekOf(t) + 3) - YearStart[year]) = 2 * ((WeekOf(t) + 3) - YearStart[year])
    BY DEF Moment
  <2>2. 2 * ((WeekOf(t) + 3) - YearStart[year]) + (t % 2) = since
    BY <1>2, <1>3, <1>7, <1>8
  <2> QED
    BY <2>1, <2>a, <2>b, <2>2
<1>10. PICK m \in Int : m = Ceiling(since + 2, 14) /\ 14 * m >= since + 2
  BY <1>8 DEF Ceiling
<1>11. PICK q \in Int : Monday(ys + 3) = 7 * q /\ 7 * q >= ys - 3
  <2>1. PICK d \in Int : d = ys + 3
    BY <1>7
  <2>2. Monday(d) = 7 * (d \div 7) /\ d < Monday(d) + 7
    BY MondayFacts
  <2>3. d \div 7 \in Int
    OBVIOUS
  <2> QED
    BY <1>7, <2>1, <2>2, <2>3
<1>12. StartOf(EpochId(t)) = 2 * (7 * q + 7 * (m - 1))
  BY <1>7, <1>9, <1>10, <1>11 DEF StartOf, Moment
<1>13. 14 * m >= 2 * (7 * p + 3 - ys) + 2
  BY <1>3, <1>8, <1>10
<1>14. 14 * q + 14 * m > 14 * p
  BY <1>2, <1>7, <1>10, <1>11, <1>13
<1>15. q + m >= p + 1
  BY <1>2, <1>10, <1>11, <1>14
<1> QED
  BY <1>2, <1>10, <1>11, <1>12, <1>15

-----------------------------------------------------------------------------
(***************************************************************************)
(* The epochs of the weeks a manager keeps.                                *)
(***************************************************************************)

\* The manager's epoch is the one of its last run, open, and a chunk is in the
\* epoch of the moment it was written at.
WeekInv ==
    /\ now \in Moments
    /\ currentEpochId = EpochId(now) /\ currentEpochId \in open
    /\ \A c \in chunks : c.at \in Moments /\ c.at <= now /\ c.epoch = EpochId(c.at)
    /\ RetainedStaysOpen

\* A manager made at t opens the epochs of the moments it retains.
LEMMA WindowReaches ==
    ASSUME NEW t \in Int, NEW u \in Int, t % 2 = u % 2,
           u <= t, t - u <= Retain * Week
    PROVE  EpochId(u) \in Window(t)
<1> DEFINE p == t \div 14
           q == u \div 14
<1>1. Retain \in Nat /\ Week = 14
  BY YearsAssumption DEF Week, Moment
<1>2. PICK r \in Nat : r = Retain * 14 /\ r \div 14 = Retain /\ r % 14 = 0
  BY <1>1
<1>3. p - q \in 0 .. Retain
  <2>1. /\ p \in Int /\ q \in Int
        /\ 14 * p <= t /\ t < 14 * p + 14
        /\ 14 * q <= u /\ u < 14 * q + 14
    OBVIOUS
  <2>2. t - u <= 14 * Retain
    BY <1>1
  <2> HIDE DEF p, q
  <2>3. q <= p
    BY <2>1
  <2>4. 14 * p < 14 * q + 14 + 14 * Retain
    BY <1>1, <2>1, <2>2
  <2>5. p < q + 1 + Retain
    BY <1>1, <2>1, <2>4
  <2> QED
    BY <1>1, <2>1, <2>3, <2>5
<1> DEFINE i == p - q
           s == t - 14 * i
<1>4. p \in Int /\ q \in Int /\ i \in Int /\ s \in Int
  OBVIOUS
<1>5. s \div 14 = q
  <2>1. 14 * p <= t /\ t < 14 * p + 14
    OBVIOUS
  <2> HIDE DEF p, q
  <2>2. 14 * q <= s /\ s < 14 * q + 14
    BY <1>4, <2>1
  <2> HIDE DEF s
  <2> QED
    BY <1>4, <2>2
<1>6. s % 2 = t % 2
  <2>1. s = t - 2 * (7 * i) /\ 7 * i \in Int
    BY <1>4
  <2> QED
    BY <2>1
<1>7. WeekOf(s) = WeekOf(u)
  BY <1>4, <1>5, WeekFacts
<1>8. EpochId(s) = EpochId(u)
  BY <1>4, <1>6, <1>7, SameWeek
<1>9. s = t - i * Week /\ i \in 0 .. Retain
  BY <1>1, <1>3, <1>4
<1> QED
  BY <1>8, <1>9 DEF Window

\* The scheduler runs in one half of the day.
OneHalf == \A h, k \in Halves : h = k

LEMMA OneHalfAgrees ==
    ASSUME OneHalf, NEW t \in Moments, NEW u \in Moments
    PROVE  t % 2 = u % 2
BY MomentsAreNumbers DEF OneHalf

LEMMA WindowNow ==
    ASSUME NEW t \in Moments
    PROVE  EpochId(t) \in Window(t)
<1>1. t \in Int /\ Retain * Week >= 0
  BY MomentsAreNumbers, YearsAssumption DEF Week, Moment
<1> QED
  BY <1>1, WindowReaches

LEMMA WeekStarts ==
    WeekInit => WeekInv
<1> SUFFICES ASSUME WeekInit PROVE WeekInv
  OBVIOUS
<1>1. now \in Moments
  BY YearsAssumption, DaysAssumption DEF WeekInit, Moments, Days
<1> QED
  BY <1>1, WindowNow DEF WeekInit, WeekInv, RetainedStaysOpen

\* What the steps that move the clock to t have in common.
LEMMA LaterKeeps ==
    ASSUME WeekInv, NEW t \in Moments, Later(t), Lapse(t),
           NEW c \in chunks'
    PROVE  /\ c \in chunks /\ c.at \in Moments /\ c.at <= t
           /\ c.epoch = EpochId(c.at)
           /\ t - c.at <= Retain * Week => c.epoch \in open
<1>1. c \in chunks
  BY DEF Lapse
<1>2. /\ c.at \in Int /\ now \in Int /\ t \in Int /\ now < t
      /\ Retain * Week \in Int
  BY <1>1, MomentsAreNumbers, YearsAssumption DEF WeekInv, Later, Week, Moment
<1> QED
  BY <1>1, <1>2 DEF WeekInv, RetainedStaysOpen

LEMMA RunKeeps ==
    ASSUME WeekInv, RunAll
    PROVE  WeekInv'
<1>1. PICK t \in now + 1 .. now + MaxPause :
        /\ Later(t) /\ now' = t /\ Lapse(t)
        /\ currentEpochId' = EpochId(t)
        /\ open' = IF EpochId(t) = currentEpochId THEN open
                   ELSE {EpochId(t)} \cup {e \in open : StartOf(e) >= Cutoff(t)}
  BY DEF RunAll
<1>2. t \in Moments
  BY <1>1 DEF Later
<1>3. EpochId(t) \in open'
  BY <1>1 DEF WeekInv
<1>4. ASSUME NEW c \in chunks', t - c.at <= Retain * Week
      PROVE  c.epoch \in open'
  <2>1. /\ c.at \in Moments /\ c.at <= t /\ c.epoch = EpochId(c.at)
        /\ c.epoch \in open
    BY <1>1, <1>2, <1>4, LaterKeeps
  <2>2. StartOf(c.epoch) \in Int /\ StartOf(c.epoch) >= 2 * WeekOf(c.at)
    BY <2>1, StartsLate
  <2>3. PICK u \in Moments : u = c.at
    BY <2>1
  <2>a. u \in Int
    BY MomentsAreNumbers
  <2>b. WeekOf(u) \in Int /\ u < 2 * WeekOf(u) + 14
    BY <2>a, WeekFacts
  <2>4. t \in Int /\ Retain \in Nat /\ Week = 14
    BY <1>2, MomentsAreNumbers, YearsAssumption DEF Week, Moment
  <2>5. Cutoff(t) = t - (Retain * 14 + 14) /\ t - c.at <= Retain * 14
    BY <1>4, <2>4 DEF Cutoff
  <2>6. StartOf(c.epoch) >= Cutoff(t)
    BY <2>2, <2>3, <2>a, <2>b, <2>4, <2>5
  <2> QED
    BY <1>1, <2>1, <2>6
<1>5. \A c \in chunks' : c.at \in Moments /\ c.at <= t /\ c.epoch = EpochId(c.at)
  BY <1>1, <1>2, LaterKeeps
<1>6. RetainedStaysOpen'
  BY <1>1, <1>4 DEF RetainedStaysOpen
<1> QED
  BY <1>1, <1>2, <1>3, <1>5, <1>6 DEF WeekInv

LEMMA CreateKeeps ==
    ASSUME OneHalf, WeekInv, Create
    PROVE  WeekInv'
<1>1. PICK t \in now + 1 .. now + MaxPause :
        /\ Later(t) /\ now' = t /\ Lapse(t)
        /\ currentEpochId' = EpochId(t)
        /\ open' = Window(t)
  BY DEF Create
<1>2. t \in Moments
  BY <1>1 DEF Later
<1>3. EpochId(t) \in open'
  BY <1>1, <1>2, WindowNow
<1>4. ASSUME NEW c \in chunks', t - c.at <= Retain * Week
      PROVE  c.epoch \in open'
  <2>1. c.at \in Moments /\ c.at <= t /\ c.epoch = EpochId(c.at)
    BY <1>1, <1>2, LaterKeeps
  <2>2. PICK u \in Moments : u = c.at
    BY <2>1
  <2>3. t % 2 = u % 2
    BY <1>2, OneHalfAgrees
  <2>4. t \in Int /\ u \in Int
    BY <1>2, MomentsAreNumbers
  <2>5. EpochId(u) \in Window(t)
    BY <1>4, <2>1, <2>2, <2>3, <2>4, WindowReaches
  <2> QED
    BY <1>1, <2>1, <2>2, <2>5
<1>5. \A c \in chunks' : c.at \in Moments /\ c.at <= t /\ c.epoch = EpochId(c.at)
  BY <1>1, <1>2, LaterKeeps
<1>6. RetainedStaysOpen'
  BY <1>1, <1>4 DEF RetainedStaysOpen
<1> QED
  BY <1>1, <1>2, <1>3, <1>5, <1>6 DEF WeekInv

LEMMA WeekStep ==
    ASSUME OneHalf, WeekInv, [WeekNext]_weekVars
    PROVE  WeekInv'
<1>1. CASE PutChunk
  <2>1. /\ chunks' = {[at |-> now, epoch |-> currentEpochId]}
        /\ now' = now /\ currentEpochId' = currentEpochId /\ open' = open
    BY <1>1 DEF PutChunk
  <2>2. now \in Int
    BY MomentsAreNumbers DEF WeekInv
  <2> QED
    BY <2>1, <2>2 DEF WeekInv, RetainedStaysOpen
<1>2. CASE RunAll
  BY <1>2, RunKeeps
<1>3. CASE Create
  BY <1>3, CreateKeeps
<1>4. CASE UNCHANGED weekVars
  BY <1>4 DEF weekVars, WeekInv, RetainedStaysOpen
<1> QED
  BY <1>1, <1>2, <1>3, <1>4 DEF WeekNext

\* The epoch of a chunk stays open for the retention it was promised, through
\* rotations, restarts and the ends of years, for every calendar and retention
\* (dropExpiredEpochs and create, packages/core/src/loro-epoch-manager.ts), if
\* the scheduler keeps to one half of the day.
THEOREM RetainedChunksStay ==
    ASSUME OneHalf
    PROVE  WeekSpec => []RetainedStaysOpen
<1>1. WeekInit => WeekInv
  BY WeekStarts
<1>2. WeekInv /\ [WeekNext]_weekVars => WeekInv'
  BY WeekStep
<1>3. WeekInv => RetainedStaysOpen
  BY DEF WeekInv
<1> QED
  BY <1>1, <1>2, <1>3, PTL DEF WeekSpec

=============================================================================
