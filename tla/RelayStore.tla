----------------------------- MODULE RelayStore -----------------------------
(***************************************************************************)
(* The store in which a relay keeps letters for peers that are off-line:   *)
(* MemoryRelayStore and FileRelayStore of packages/core/src/mail-store.ts. *)
(* The daemon loads one when it starts (packages/daemon/src/index.ts); who *)
(* deposits, checks and acknowledges are the users of the library.         *)
(*                                                                         *)
(* The Map of envelopes is a set, because no answer depends on its order.  *)
(* The order of the ids in the Sets of the index does matter: check stops  *)
(* at its limit.  Every change schedules a save two seconds later;         *)
(* deposits go on while the save is written.                               *)
(***************************************************************************)
EXTENDS Integers, SequencesExt

CONSTANTS
    Envelopes,      \* envelopes: [id, to, at, until], the ids all different
    MaxPerRecipient, MaxTotal,
    MaxHour,        \* bound on the time
    MaxFlushes,     \* bound on the saves that are written at a time
    MaxReloads      \* bound on the restarts

Nobody == ""        \* no recipient

ASSUME RelayAssumption ==
    /\ \A e, f \in Envelopes : e.id = f.id => e = f
    /\ \A e \in Envelopes : e.to # Nobody /\ e.at \in Nat \ {0} /\ e.until \in Nat
    /\ MaxPerRecipient \in Nat /\ MaxTotal \in Nat
    /\ MaxHour \in Nat /\ MaxFlushes \in Nat /\ MaxReloads \in Nat

VARIABLES
    hour,
    envelopes,      \* the Map
    byRecipient,    \* byRecipient[r]: the Set of the ids of the letters to r
    before,         \* the pairs of ids of which the first came into its Set first
    dirty, saveTimer,
    flushes,        \* the texts that are being written
    relayFile,      \* {}, or the text of the file
    reloads

relayVars == <<hour, envelopes, byRecipient, before, dirty, saveTimer, flushes, relayFile, reloads>>

Ids        == {e.id : e \in Envelopes}
Recipients == {e.to : e \in Envelopes}
IsExpired(e) == hour > e.until

RelayTypeOK ==
    /\ hour \in 0 .. MaxHour
    /\ envelopes \subseteq Envelopes
    /\ byRecipient \in [Recipients -> SUBSET Ids]
    /\ before \subseteq Ids \X Ids
    /\ dirty \in BOOLEAN /\ saveTimer \in BOOLEAN
    /\ flushes \in Seq(Seq(Envelopes)) /\ Len(flushes) <= MaxFlushes
    /\ relayFile \in SUBSET Seq(Envelopes)
    /\ reloads \in 0 .. MaxReloads

RelayInit ==
    /\ hour = 0
    /\ envelopes = {}
    /\ byRecipient = [r \in Recipients |-> {}]
    /\ before = {}
    /\ dirty = FALSE /\ saveTimer = FALSE
    /\ flushes = <<>>
    /\ relayFile = {}
    /\ reloads = 0

-----------------------------------------------------------------------------
(***************************************************************************)
(* MemoryRelayStore.                                                       *)
(***************************************************************************)

Held == [envelopes |-> envelopes, index |-> byRecipient, before |-> before]

\* What deposit returns false for.
Refuses(store, e) ==
    \/ IsExpired(e)
    \/ Cardinality(store.envelopes) >= MaxTotal
    \/ Cardinality(store.index[e.to]) >= MaxPerRecipient

\* deposit.  An id that a Set has keeps its place.
Deposited(store, e) ==
    IF Refuses(store, e) THEN store
    ELSE LET others == IF e.id \in store.index[e.to] THEN {} ELSE store.index[e.to]
         IN  [envelopes |-> store.envelopes \cup {e},
              index     |-> [store.index EXCEPT ![e.to] = @ \cup {e.id}],
              before    |-> store.before \cup (others \X {e.id})]

\* check, but for the order of its answer: the first letters of the Set that can
\* still be delivered.
Check(r, since, limit) ==
    LET ids     == IF r \in Recipients THEN byRecipient[r] ELSE {}
        pending == {e \in envelopes : e.id \in ids /\ ~IsExpired(e) /\ e.at > since}
    IN  {e \in pending : Cardinality({f \in pending : <<f.id, e.id>> \in before}) < limit}

\* What ack and evict leave.
Remaining(ids) ==
    [envelopes |-> {e \in envelopes : e.id \notin ids},
     index     |-> [r \in Recipients |-> byRecipient[r] \ ids],
     before    |-> {p \in before : p[1] \notin ids /\ p[2] \notin ids}]

-----------------------------------------------------------------------------
(***************************************************************************)
(* FileRelayStore.                                                         *)
(***************************************************************************)

\* A change is saved later.
Becomes(store) ==
    /\ envelopes' = store.envelopes
    /\ byRecipient' = store.index
    /\ before' = store.before
    /\ dirty' = TRUE /\ saveTimer' = TRUE
    /\ UNCHANGED <<hour, flushes, relayFile, reloads>>

\* deposit, ack and evict, where they do something.
Deposit(e) == ~Refuses(Held, e) /\ Becomes(Deposited(Held, e))

\* Mutant of Ack: the index keeps the ids.
AckUnindexed(ids) ==
    /\ \E e \in envelopes : e.id \in ids
    /\ Becomes([Remaining(ids) EXCEPT !.index = byRecipient])

Ack(ids) ==
    /\ \E e \in envelopes : e.id \in ids
    /\ Becomes(Remaining(ids))

Lapsed == {e.id : e \in {f \in envelopes : IsExpired(f)}}
Evict  == Lapsed # {} /\ Becomes(Remaining(Lapsed))

\* The letters that a flush lists, in the order of their times: those to ''.
FlushText ==
    LET page == Check(Nobody, 0, Cardinality(envelopes))
        comesFirst(e, f) == e.at < f.at \/ (e.at = f.at /\ <<e.id, f.id>> \in before)
    IN  CHOOSE text \in [1 .. Cardinality(page) -> page] :
            \A i, j \in DOMAIN text : i < j => comesFirst(text[i], text[j])

\* The timer: flush up to writeFile.
FlushBegin ==
    /\ saveTimer
    /\ Len(flushes) < MaxFlushes
    /\ saveTimer' = FALSE
    /\ flushes' = IF dirty THEN Append(flushes, FlushText) ELSE flushes
    /\ UNCHANGED <<hour, envelopes, byRecipient, before, dirty, relayFile, reloads>>

\* The rest of flush, or the error that it logs.
FlushEnd(i) ==
    /\ flushes' = RemoveAt(flushes, i)
    /\ \/ relayFile' = {flushes[i]} /\ dirty' = FALSE
       \/ relayFile' \in {{}, relayFile} /\ UNCHANGED dirty
    /\ UNCHANGED <<hour, envelopes, byRecipient, before, saveTimer, reloads>>

\* What load deposits.
Refilled(text) ==
    LET empty == [envelopes |-> {}, index |-> [r \in Recipients |-> {}], before |-> {}]
        store[n \in 0 .. Len(text)] ==
            IF n = 0 THEN empty ELSE Deposited(store[n - 1], text[n])
    IN  store[Len(text)]

\* The daemon ends and starts again.  A file that was being written has no text.
Reload ==
    /\ reloads < MaxReloads
    /\ reloads' = reloads + 1
    /\ LET text  == IF flushes # <<>> THEN {} ELSE relayFile
           store == Refilled(IF text = {} THEN <<>> ELSE CHOOSE t \in text : TRUE)
       IN  /\ relayFile' = text
           /\ envelopes' = store.envelopes
           /\ byRecipient' = store.index
           /\ before' = store.before
    /\ dirty' = FALSE /\ saveTimer' = FALSE
    /\ flushes' = <<>>
    /\ UNCHANGED hour

HourPasses ==
    /\ hour < MaxHour
    /\ hour' = hour + 1
    /\ UNCHANGED <<envelopes, byRecipient, before, dirty, saveTimer, flushes, relayFile, reloads>>

RelayNext ==
    \/ \E e \in Envelopes : Deposit(e)
    \/ \E ids \in SUBSET Ids : Ack(ids)
    \/ Evict
    \/ FlushBegin
    \/ \E i \in DOMAIN flushes : FlushEnd(i)
    \/ Reload
    \/ HourPasses

RelaySpec == RelayInit /\ [][RelayNext]_relayVars

-----------------------------------------------------------------------------
(***************************************************************************)
(* Properties.                                                             *)
(***************************************************************************)

\* The index has the letters that the Map has, and both keep the quotas,
\* through deposits, acknowledgements, evictions and restarts
\* (MemoryRelayStore).
IndexAgrees ==
    /\ \A r \in Recipients :
          /\ byRecipient[r] = {e.id : e \in {f \in envelopes : f.to = r}}
          /\ Cardinality(byRecipient[r]) <= MaxPerRecipient
    /\ Cardinality(envelopes) <= MaxTotal

\* Who polls and acknowledges gets every letter in the end: as long as one can
\* still be delivered, check answers with some, and with no other's (check).
PollsAreServed ==
    \A r \in Recipients : \A limit \in 1 .. MaxPerRecipient :
        LET page == Check(r, 0, limit)
            due  == {e \in envelopes : e.to = r /\ ~IsExpired(e)}
        IN  page \subseteq due /\ Cardinality(page) = Min({limit, Cardinality(due)})

RelayHolds == RelayTypeOK /\ IndexAgrees /\ PollsAreServed

\* The comment on FileRelayStore: it persists envelopes as a JSON file.  With
\* nothing left to save, the file has the letters that the Map has.
RelayIsPersisted ==
    ~dirty /\ ~saveTimer /\ flushes = <<>> =>
        \A e \in envelopes : \E text \in relayFile : Contains(text, e)
=============================================================================
