------------------------------ MODULE Versions ------------------------------
(***************************************************************************)
(* Versions of a memory and what the daemon answers about them: POST,      *)
(* PATCH and DELETE /memory, the query with its heads                      *)
(* (packages/core/src/query.ts), the list of heads that search, site and   *)
(* graph start from, and the index of back links                           *)
(* (packages/core/src/backlink-index.ts), on daemons that share a network. *)
(*                                                                         *)
(* A chunk is never overwritten: a PATCH writes a new chunk that           *)
(* supersedes the one it read, a DELETE leaves a tombstone.  A manager     *)
(* keeps one CRDT document per epoch, and writes to, exports from and      *)
(* imports into the current one only.                                      *)
(***************************************************************************)
EXTENDS Integers, Sequences, FiniteSets

CONSTANTS
    Nodes,          \* daemons of one network
    Writers,        \* those whose agent writes
    Reversed,       \* those whose documents list later chunks first
    MaxChunks,      \* bound on the chunks written
    MaxTime,        \* bound on the clock
    MaxDeletes,     \* bound on DELETE requests
    MaxRotations,   \* bound on epochs that end
    MaxRestarts     \* bound on restarts

ASSUME VersionsAssumption ==
    /\ Writers \subseteq Nodes
    /\ Reversed \subseteq Nodes
    /\ MaxChunks \in Nat
    /\ MaxTime \in Nat \ {0}
    /\ MaxDeletes \in Nat
    /\ MaxRotations \in Nat
    /\ MaxRestarts \in Nat

Ids     == 1 .. MaxChunks
None    == 0                    \* no chunk
Epochs  == 1 .. 2
Chunk   == [supersedes : Ids \cup {None}, memory : Ids,
            stamp : 1 .. MaxTime]

VARIABLES
    chunk,          \* chunk[c]: the chunk written as the c-th of all
    clock,
    live, tomb,     \* live[n][e], tomb[n][e]: the document of an epoch
    current,        \* current[n]: the epoch that n writes to
    edit,           \* edit[n]: the chunk that a PATCH on n is signing
    index,          \* index[n]: chunks whose links are in the index
    deletes, restarts

versionsVars == <<chunk, clock, live, tomb, current, edit, index, deletes, restarts>>

Written == 1 .. Len(chunk)

VersionsTypeOK ==
    /\ chunk \in Seq(Chunk) /\ Len(chunk) <= MaxChunks
    /\ clock \in 1 .. MaxTime
    /\ live \in [Nodes -> [Epochs -> SUBSET Written]]
    /\ tomb \in [Nodes -> [Epochs -> SUBSET Written]]
    /\ current \in [Nodes -> Epochs]
    /\ edit \in [Nodes -> {{}} \cup {{u} : u \in Chunk}]
    /\ index \in [Nodes -> SUBSET Written]
    /\ deletes \in 0 .. MaxDeletes
    /\ restarts \in 0 .. MaxRestarts

VersionsInit ==
    /\ chunk = <<>>
    /\ clock = 1
    /\ live = [n \in Nodes |-> [e \in Epochs |-> {}]]
    /\ tomb = [n \in Nodes |-> [e \in Epochs |-> {}]]
    /\ current = [n \in Nodes |-> 1]
    /\ edit = [n \in Nodes |-> {}]
    /\ index = [n \in Nodes |-> {}]
    /\ deletes = 0
    /\ restarts = 0

-----------------------------------------------------------------------------
(***************************************************************************)
(* Heads.                                                                  *)
(***************************************************************************)

Superseded(S) == {chunk[c].supersedes : c \in S}

\* The heads that count as versions of the same chunk.
GroupOf(c) == IF chunk[c].supersedes = None THEN c ELSE chunk[c].supersedes

\* reduce() keeps the first of those with the highest timestamp.
Precedes(n, c, d) ==
    \/ chunk[c].stamp > chunk[d].stamp
    \/ /\ chunk[c].stamp = chunk[d].stamp
       /\ IF n \in Reversed THEN c > d ELSE c < d

\* Mutant of Resolve: the oldest wins.
ResolveOldest(n, S) ==
    LET heads == S \ Superseded(S)
    IN  {c \in heads : \A d \in heads :
            GroupOf(d) = GroupOf(c) => d = c \/ Precedes(n, d, c)}

\* resolveHeads.
Resolve(n, S) ==
    LET heads == S \ Superseded(S)
    IN  {c \in heads : \A d \in heads :
            GroupOf(d) = GroupOf(c) => d = c \/ Precedes(n, c, d)}

\* The chunks of a store that buildOrbitFilter lets through.  F stands for all
\* that the predicates of the query admit.
Admitted(n, e, F) == live[n][e] \cap F

\* applyQuery on one epoch.
StoreQuery(n, e, F) == Resolve(n, Admitted(n, e, F))

\* LoroEpochManager.query, the answer of POST /memory/query.
Query(n, F) == Resolve(n, UNION {StoreQuery(n, e, F) : e \in Epochs})

\* LoroEpochManager.get finds it.
Found(n) == UNION {live[n][e] : e \in Epochs}

\* LoroEpochManager.list.
Listed(n) == Resolve(n, Found(n))

\* POST /memory/search.  A session of this version never has peers to ask.
Search(n, F) == Resolve(n, Listed(n) \cap F)

-----------------------------------------------------------------------------
(***************************************************************************)
(* Requests.                                                               *)
(***************************************************************************)

\* indexChunk and removeChunk take all links of a chunk at once.
Indexing(n, S)   == index' = [index EXCEPT ![n] = @ \cup S]
Unindexing(n, c) == index' = [index EXCEPT ![n] = @ \ {c}]

\* A new chunk in the current document, and its links in the index.
Put(n, u) ==
    LET c == Len(chunk) + 1
    IN  /\ c \in Ids
        /\ chunk' = Append(chunk, [u EXCEPT !.memory = IF @ = None THEN c ELSE @])
        /\ live' = [live EXCEPT ![n][current[n]] = @ \cup {c}]
        /\ Indexing(n, {c})

\* POST /memory.  The body may name a chunk that it supersedes; nothing looks
\* whether that is still there.  The timestamp is the one of the body, or of the
\* request, which then waited for a stamp and a signature.
Post(n, s, stamp) ==
    /\ n \in Writers
    /\ s \in Written \cup {None}
    /\ stamp <= clock
    /\ Put(n, [supersedes |-> s, memory |-> IF s = None THEN None ELSE chunk[s].memory,
               stamp |-> stamp])
    /\ UNCHANGED <<clock, tomb, current, edit, deletes, restarts>>

\* Mutant of PatchRead: it starts from a chunk that was deleted.
PatchReadDeleted(n, s) ==
    /\ n \in Writers
    /\ edit[n] = {}
    /\ s \in Found(n) \cup UNION {tomb[n][e] : e \in Epochs}
    /\ edit' = [edit EXCEPT ![n] =
            {[supersedes |-> s, memory |-> chunk[s].memory,
              stamp |-> clock]}]
    /\ UNCHANGED <<chunk, clock, live, tomb, current, index, deletes, restarts>>

\* PATCH /memory/:id builds the new version from the old one and has it signed.
PatchRead(n, s) ==
    /\ n \in Writers
    /\ edit[n] = {}
    /\ s \in Found(n)
    /\ edit' = [edit EXCEPT ![n] =
            {[supersedes |-> s, memory |-> chunk[s].memory,
              stamp |-> clock]}]
    /\ UNCHANGED <<chunk, clock, live, tomb, current, index, deletes, restarts>>

\* The signature is there.
PatchWrite(n) ==
    /\ \E u \in edit[n] : Put(n, u)
    /\ edit' = [edit EXCEPT ![n] = {}]
    /\ UNCHANGED <<clock, tomb, current, deletes, restarts>>

\* forget() looks in the newest epoch first.
Holding(n, c) == IF c \in live[n][2] THEN 2 ELSE 1

\* DELETE /memory/:id.
Delete(n, c) ==
    /\ deletes < MaxDeletes
    /\ c \in Found(n)
    /\ LET e == Holding(n, c)
       IN  /\ live' = [live EXCEPT ![n][e] = @ \ {c}]
           /\ tomb' = [tomb EXCEPT ![n][e] = @ \cup {c}]
    /\ Unindexing(n, c)
    /\ deletes' = deletes + 1
    /\ UNCHANGED <<chunk, clock, current, edit, restarts>>

-----------------------------------------------------------------------------
(***************************************************************************)
(* Replication, epochs, restarts.                                          *)
(***************************************************************************)

\* Mutant of Receive: nothing listens to 'replicated'.
ReceiveUnindexed(n, m) ==
    /\ UNCHANGED <<chunk, clock, current, edit, deletes, restarts>>
    /\ LET f == current[m]
           e == current[n]
           t == tomb[n][e] \cup tomb[m][f]
       IN  /\ live' = [live EXCEPT ![n][e] = (@ \cup live[m][f]) \ t]
           /\ tomb' = [tomb EXCEPT ![n][e] = t]
    /\ UNCHANGED index

\* A delta of m arrives at n.  The handler of 'replicated' indexes what list()
\* answers then.
Receive(n, m) ==
    /\ UNCHANGED <<chunk, clock, current, edit, deletes, restarts>>
    /\ LET f == current[m]
           e == current[n]
           t == tomb[n][e] \cup tomb[m][f]
       IN  /\ live' = [live EXCEPT ![n][e] = (@ \cup live[m][f]) \ t]
           /\ tomb' = [tomb EXCEPT ![n][e] = t]
    /\ Indexing(n, Listed(n)')

\* The epoch ends, and the one before it stays open.
Rotate(n) ==
    /\ current[n] = 1
    /\ Cardinality({m \in Nodes : current[m] = 2}) < MaxRotations
    /\ current' = [current EXCEPT ![n] = 2]
    /\ UNCHANGED <<chunk, clock, live, tomb, edit, index, deletes, restarts>>

\* The daemon comes back and builds its index.
Restart(n) ==
    /\ restarts < MaxRestarts
    /\ restarts' = restarts + 1
    /\ edit' = [edit EXCEPT ![n] = {}]
    /\ index' = [index EXCEPT ![n] = Listed(n)]
    /\ UNCHANGED <<chunk, clock, live, tomb, current, deletes>>

Tick ==
    /\ clock < MaxTime
    /\ clock' = clock + 1
    /\ UNCHANGED <<chunk, live, tomb, current, edit, index, deletes, restarts>>

VersionsNext ==
    \/ \E n \in Nodes :
        \/ \E s \in Ids \cup {None}, stamp \in 1 .. MaxTime : Post(n, s, stamp)
        \/ \E s \in Ids : PatchRead(n, s)
        \/ PatchWrite(n)
        \/ \E c \in Ids : Delete(n, c)
        \/ \E m \in Nodes \ {n} : Receive(n, m)
        \/ Rotate(n)
        \/ Restart(n)
    \/ Tick

VersionsSpec == VersionsInit /\ [][VersionsNext]_versionsVars

-----------------------------------------------------------------------------
(***************************************************************************)
(* What the answers promise.                                               *)
(***************************************************************************)

\* resolveHeads over stores that were resolved before: whatever a query lets
\* through, a version that nothing it lets through supersedes is answered,
\* unless a sibling (a version of the same chunk) goes before it.  So a PATCH
\* that was answered is seen until it is superseded, deleted or outrun.
NewestIsShown ==
    \A n \in Nodes : \A F \in SUBSET Found(n) :
        LET answer == Query(n, F)
        IN  \A c \in F \ Superseded(F) :
                \/ c \in answer
                \/ /\ chunk[c].supersedes # None
                   /\ \E d \in F : /\ chunk[d].supersedes = chunk[c].supersedes
                                   /\ Precedes(n, d, c)

MemoriesOf(S) == {chunk[c].memory : c \in S}

\* No memory vanishes from a query behind its own forks, tombstones or the
\* border of an epoch: each that has a version to offer is answered; and while
\* only one epoch holds anything, the heads are answered, by a search as well.
MemoriesAreAnswered ==
    \A n \in Nodes : \A F \in SUBSET Found(n) :
        LET answer == Query(n, F)
        IN  /\ MemoriesOf(answer) = MemoriesOf(F)
            /\ (\E e \in Epochs : live[n][e] = {}) =>
                    /\ answer = Resolve(n, F)
                    /\ F = Found(n) => answer = Search(n, F)

\* Both, of every query there can be.
AnswersAreComplete == VersionsTypeOK /\ NewestIsShown /\ MemoriesAreAnswered

\* What no other chunk of a daemon supersedes.
Heads(n) == Found(n) \ Superseded(Found(n))

\* What becomes a head and is listed, be it written here, replicated, or brought
\* back by the tombstone of another daemon, has its links in the index then. Only
\* a DELETE of this daemon may bring up a chunk that the index does not know, and
\* a new version of its sibling one that was a head before and was not listed.
NewlyListedIsIndexed ==
    [][\A n \in Nodes :
        \/ Listed(n)' \ Heads(n) \subseteq index'[n]
        \/ \E c \in Ids : Delete(n, c)]_versionsVars

\* The back links are "updated incrementally when chunks are put (local or
\* replicated)" (packages/core/src/backlink-index.ts).
ListedIsIndexed == \A n \in Nodes : Listed(n) \subseteq index[n]

Extinct(m) ==
    /\ \A n \in Nodes : m \notin MemoriesOf(Found(n))
    /\ \A n \in Nodes : \A u \in edit[n] : u.memory # m

\* A memory of which no daemon has a version left and which no PATCH is about
\* to write never returns, whatever is replicated late, unless a POST says it
\* supersedes one of its chunks.
GoneForGood ==
    [][\A c \in Written :
        Extinct(chunk[c].memory) =>
            \/ Extinct(chunk[c].memory)'
            \/ \E n \in Nodes, s \in Written, stamp \in 1 .. MaxTime :
                    chunk[s].memory = chunk[c].memory /\ Post(n, s, stamp)]_versionsVars

\* "Returns HEADs only (superseded chunks excluded)" (packages/core/src/store.ts).
HeadsOnly ==
    \A n \in Nodes : Query(n, Written) \cap Superseded(Found(n)) = {}
=============================================================================
