-------------------------- MODULE DiscoveryProofs ---------------------------
(***************************************************************************)
(* What holds of the filters, and of the index of Discovery, for every     *)
(* hash function, every set of daemons and sessions, and every bound; and  *)
(* of the answers of Reads, for every graph, request and sequence of       *)
(* stores.                                                                 *)
(***************************************************************************)
EXTENDS Discovery, Reads, FiniteSetTheorems, WellFoundedInduction, TLAPS

\* BloomFilter.add: what was added is found.
THEOREM AddedIsFound ==
    ASSUME NEW filter, NEW x
    PROVE  Has(Add(filter, x), x)
BY DEF Has, Add, Positions

\* BloomFilter.merge: the union answers yes where one of the two does.
THEOREM MergeKeeps ==
    ASSUME NEW f, NEW g, NEW x, Has(f, x) \/ Has(g, x)
    PROVE  Has(Merge(f, g), x)
BY DEF Has, Merge

\* BloomFilter.from: every item of the array is found.
THEOREM FromFinds ==
    ASSUME NEW items, NEW x \in items
    PROVE  Has(From(items), x)
BY DEF Has, From, Positions

-----------------------------------------------------------------------------
LEMMA FromIsFilter ==
    ASSUME NEW items \in SUBSET Topics
    PROVE  From(items) \in Filter
BY HashAssumption DEF From, Positions, Filter, Topics

LEMMA HostIsNode ==
    ASSUME NEW m \in Managers
    PROVE  Host(m) \in Nodes
BY DiscoveryAssumption DEF Host

LEMMA BuildTypes ==
    ASSUME TypeOK, NEW m \in Managers, Build(m)
    PROVE  built' \in [Managers -> SUBSET Manifest]
<1>1. Held(m) \in SUBSET Topics
  BY HostIsNode DEF Held, TypeOK
<1>2. [peer |-> Host(m), topicBloom |-> From(Held(m)), topics |-> Held(m)] \in Manifest
  BY <1>1, FromIsFilter, HostIsNode DEF Manifest
<1> QED
  BY <1>2 DEF Build, TypeOK

LEMMA TypeStep == TypeOK /\ [Next]_vars => TypeOK'
<1> SUFFICES ASSUME TypeOK, [Next]_vars PROVE TypeOK'
  OBVIOUS
<1> USE DEF timerVars, indexVars
<1>1. ASSUME NEW m \in Managers, Start(m) PROVE TypeOK'
  BY <1>1 DEF TypeOK, Start
<1>2. ASSUME NEW m \in Managers, Joined(m) PROVE TypeOK'
  BY <1>2, HostIsNode DEF TypeOK, Joined
<1>3. ASSUME NEW m \in Managers, Stop(m) PROVE TypeOK'
  BY <1>3 DEF TypeOK, Stop
<1>4. ASSUME NEW m \in Managers, Tick(m) PROVE TypeOK'
  BY <1>4, BuildTypes DEF TypeOK, Tick
<1>5. ASSUME NEW m \in Managers, FirstTick(m) PROVE TypeOK'
  BY <1>5, BuildTypes DEF TypeOK, FirstTick
<1>6. ASSUME NEW m \in Managers, Debounced(m) PROVE TypeOK'
  BY <1>6, BuildTypes DEF TypeOK, Debounced
<1>7. ASSUME NEW m \in Managers, NEW manifest \in built[m], Broadcast(m, manifest)
      PROVE  TypeOK'
  <2>1. manifest \in Manifest
    BY DEF TypeOK
  <2>2. built' \in [Managers -> SUBSET Manifest]
    BY <1>7 DEF TypeOK, Broadcast
  <2>3. /\ entry' \in [Managers -> [Nodes -> SUBSET Filter]]
        /\ heard' \in [Managers -> [Nodes -> SUBSET Topics]]
    BY <1>7, <2>1 DEF TypeOK, Broadcast, Index, Manifest
  <2>4. net' \subseteq Message
    BY <1>7, <2>1 DEF TypeOK, Broadcast, Message
  <2> QED
    BY <1>7, <2>2, <2>3, <2>4 DEF TypeOK, Broadcast
<1>8. ASSUME NEW n \in Nodes, NEW t \in Topics, Write(n, t) PROVE TypeOK'
  <2>1. writes' \in 0 .. MaxWrites
    BY <1>8, DiscoveryAssumption DEF TypeOK, Write
  <2>2. /\ stock' \in [Nodes -> SUBSET Topics]
        /\ debounce' \in [Managers -> BOOLEAN]
    <3>1. CASE t \in stock[n]
      <4>1. /\ stock' = [stock EXCEPT ![n] = stock[n] \ {t}]
            /\ debounce' = debounce
        BY <1>8, <3>1 DEF Write
      <4> QED
        BY <4>1 DEF TypeOK
    <3>2. CASE t \notin stock[n]
      <4>1. /\ stock' = [stock EXCEPT ![n] = stock[n] \cup {t}]
            /\ debounce' = [debounce EXCEPT ![<<n, "psk">>] = TRUE]
        BY <1>8, <3>2 DEF Write
      <4>2. stock[n] \cup {t} \in SUBSET Topics
        BY DEF TypeOK
      <4> QED
        BY <4>1, <4>2 DEF TypeOK
    <3> QED
      BY <3>1, <3>2
  <2> QED
    BY <1>8, <2>1, <2>2 DEF TypeOK, Write
<1>9. ASSUME NEW msg \in net, Deliver(msg) PROVE TypeOK'
  <2>1. msg.manifest \in Manifest
    BY DEF TypeOK, Message
  <2>2. /\ entry' \in [Managers -> [Nodes -> SUBSET Filter]]
        /\ heard' \in [Managers -> [Nodes -> SUBSET Topics]]
    BY <1>9, <2>1 DEF TypeOK, Deliver, Manifest
  <2> QED
    BY <1>9, <2>2 DEF TypeOK, Deliver
<1>10. ASSUME NEW msg \in net, Lose(msg) PROVE TypeOK'
  BY <1>10 DEF TypeOK, Lose
<1>11. ASSUME NEW n \in Nodes, Rebroadcast(n) PROVE TypeOK'
  BY <1>11 DEF TypeOK, Rebroadcast
<1>12. CASE UNCHANGED vars
  BY <1>12 DEF TypeOK, vars
<1> QED
  BY <1>1, <1>2, <1>3, <1>4, <1>5, <1>6, <1>7, <1>8, <1>9, <1>10, <1>11, <1>12
     DEF Next

\* Type correctness of Discovery.
THEOREM TypeCorrect == Spec => []TypeOK
<1>1. Init => TypeOK
  BY DiscoveryAssumption DEF Init, TypeOK
<1> QED
  BY <1>1, TypeStep, PTL DEF Spec

-----------------------------------------------------------------------------
\* Wherever a manifest is - about to be sent, under way, or in an index - its
\* filter is the one of its topics.
Honest(manifest) == manifest.topicBloom = From(manifest.topics)

EntryIsHonest(m, n) ==
    \/ entry[m][n] = {} /\ heard[m][n] = {}
    \/ entry[m][n] = {From(heard[m][n])}

HonestInv ==
    /\ TypeOK
    /\ \A m \in Managers : \A manifest \in built[m] : Honest(manifest)
    /\ \A msg \in net : Honest(msg.manifest)
    /\ \A m \in Managers, n \in Nodes : EntryIsHonest(m, n)

LEMMA BuildHonest ==
    ASSUME HonestInv, NEW m \in Managers, Build(m),
           UNCHANGED <<indexVars, net>>, TypeOK'
    PROVE  HonestInv'
<1>1. \A k \in Managers : \A manifest \in built'[k] : Honest(manifest)
  BY DEF HonestInv, TypeOK, Build, Honest
<1> QED
  BY <1>1 DEF HonestInv, EntryIsHonest, indexVars, Honest

LEMMA HonestStep == HonestInv /\ [Next]_vars => HonestInv'
<1> SUFFICES ASSUME HonestInv, [Next]_vars PROVE HonestInv'
  OBVIOUS
<1>0. TypeOK /\ TypeOK'
  BY TypeStep DEF HonestInv
<1>1. ASSUME UNCHANGED <<built, indexVars, net>> PROVE HonestInv'
  BY <1>0, <1>1 DEF HonestInv, EntryIsHonest, indexVars, Honest
<1>2. ASSUME NEW m \in Managers, Build(m), UNCHANGED <<indexVars, net>> PROVE HonestInv'
  BY <1>0, <1>2, BuildHonest
<1>3. ASSUME NEW m \in Managers, NEW manifest \in built[m], Broadcast(m, manifest)
      PROVE  HonestInv'
  <2>1. Honest(manifest) /\ manifest.peer \in Nodes
    BY <1>0 DEF HonestInv, TypeOK, Manifest
  <2>2. \A k \in Managers : \A x \in built'[k] : Honest(x)
    BY <1>0, <1>3 DEF HonestInv, TypeOK, Broadcast, Honest
  <2>3. \A msg \in net' : Honest(msg.manifest)
    BY <1>3, <2>1 DEF HonestInv, Broadcast, Honest
  <2>4. ASSUME NEW k \in Managers, NEW n \in Nodes PROVE EntryIsHonest(k, n)'
    <3>1. CASE k = m /\ n = manifest.peer
      <4>1. /\ entry'[k][n] = {manifest.topicBloom}
            /\ heard'[k][n] = manifest.topics
        BY <1>0, <1>3, <3>1 DEF TypeOK, Broadcast, Index
      <4> QED
        BY <2>1, <4>1 DEF EntryIsHonest, Honest
    <3>2. CASE ~(k = m /\ n = manifest.peer)
      <4>1. entry'[k][n] = entry[k][n] /\ heard'[k][n] = heard[k][n]
        BY <1>0, <1>3, <3>2 DEF TypeOK, Broadcast, Index
      <4> QED
        BY <4>1 DEF HonestInv, EntryIsHonest
    <3> QED
      BY <3>1, <3>2
  <2> QED
    BY <1>0, <2>2, <2>3, <2>4 DEF HonestInv, Honest
<1>4. ASSUME NEW msg \in net, Deliver(msg) PROVE HonestInv'
  <2>1. Honest(msg.manifest)
    BY DEF HonestInv
  <2>2. ASSUME NEW k \in Managers, NEW n \in Nodes PROVE EntryIsHonest(k, n)'
    <3>1. CASE Host(k) = msg.to /\ listening[k] /\ n = msg.manifest.peer
      <4>1. /\ entry'[k][n] = {msg.manifest.topicBloom}
            /\ heard'[k][n] = msg.manifest.topics
        BY <1>0, <1>4, <3>1 DEF TypeOK, Deliver
      <4> QED
        BY <2>1, <4>1 DEF EntryIsHonest, Honest
    <3>2. CASE ~(Host(k) = msg.to /\ listening[k] /\ n = msg.manifest.peer)
      <4>1. entry'[k][n] = entry[k][n] /\ heard'[k][n] = heard[k][n]
        BY <1>0, <1>4, <3>2 DEF TypeOK, Deliver
      <4> QED
        BY <4>1 DEF HonestInv, EntryIsHonest
    <3> QED
      BY <3>1, <3>2
  <2>3. /\ \A x \in net' : Honest(x.manifest)
        /\ \A k \in Managers : \A x \in built'[k] : Honest(x)
    BY <1>4 DEF HonestInv, Deliver, Honest
  <2> QED
    BY <1>0, <2>2, <2>3 DEF HonestInv, Honest
<1>5. ASSUME NEW msg \in net, Lose(msg) PROVE HonestInv'
  BY <1>0, <1>5 DEF HonestInv, Lose, EntryIsHonest, indexVars, Honest
<1>6. CASE UNCHANGED vars
  BY <1>1, <1>6 DEF vars
<1>7. CASE \E m \in Managers : Start(m) \/ Joined(m) \/ Stop(m)
  BY <1>1, <1>7 DEF Start, Joined, Stop
<1>8. CASE \E m \in Managers : Tick(m) \/ FirstTick(m) \/ Debounced(m)
  BY <1>2, <1>8 DEF Tick, FirstTick, Debounced
<1>9. CASE \/ \E n \in Nodes, t \in Topics : Write(n, t)
           \/ \E n \in Nodes : Rebroadcast(n)
  BY <1>1, <1>9 DEF Write, Rebroadcast
<1> QED
  BY <1>3, <1>4, <1>5, <1>6, <1>7, <1>8, <1>9 DEF Next

\* No filter in an index denies a topic of the manifest it came with, whatever
\* the hash functions, losses and reorderings.
THEOREM NothingDenied == Spec => []NoFalseNegative
<1>1. Init => HonestInv
  <2> SUFFICES ASSUME Init PROVE HonestInv
    OBVIOUS
  <2>1. TypeOK
    BY DiscoveryAssumption DEF Init, TypeOK
  <2> QED
    BY <2>1 DEF Init, HonestInv, EntryIsHonest
<1>2. HonestInv => NoFalseNegative
  <2> SUFFICES ASSUME HonestInv, NEW m \in Managers, NEW n \in Nodes,
                      NEW t \in heard[m][n]
               PROVE  PeerHasTopic(m, n, t)
    BY DEF NoFalseNegative
  <2>1. entry[m][n] = {From(heard[m][n])}
    BY DEF HonestInv, EntryIsHonest
  <2>2. Has(From(heard[m][n]), t)
    BY FromFinds
  <2> QED
    BY <2>1, <2>2 DEF PeerHasTopic
<1> QED
  BY <1>1, <1>2, HonestStep, PTL DEF Spec

-----------------------------------------------------------------------------
(***************************************************************************)
(* The traversal of the content graph.                                     *)
(***************************************************************************)

EntryType == [id : Names, depth : Nat, source : Names \cup {Uri}, link : Nat]

WalkTypeOK ==
    /\ graph \in Graphs /\ request \in Requests
    /\ queue \in Seq(EntryType) /\ Len(queue) >= 1 /\ queue[1] = Entry(request.start, 0, Uri, 0)
    /\ taken \in 0 .. Len(queue)
    /\ nodes \in Seq(Names)
    /\ link \in Nat

\* The entry whose links are followed was not there before.
AtLink ==
    link # 0 =>
        /\ taken >= 1 /\ Here.id \in DOMAIN graph /\ Here.depth < Depth
        /\ link \in DOMAIN graph[Here.id]
        /\ \A a \in 1 .. taken - 1 : queue[a].id # Here.id

\* Depths grow along the queue, and what was not taken is a hop away at most.
Sorted ==
    /\ \A a, b \in 1 .. Len(queue) : a <= b => queue[a].depth <= queue[b].depth
    /\ \A a, b \in 1 .. Len(queue) : a >= taken => queue[b].depth <= queue[a].depth + 1

Seen ==
    /\ visited = {queue[a].id : a \in 1 .. taken}
    /\ Range(nodes) = visited \cap DOMAIN graph
    /\ IsInjective(nodes)

\* Every entry but the first was found at a link of a chunk that was visited.
Led ==
    \A a \in 2 .. Len(queue) :
        /\ queue[a].source \in Range(nodes)
        /\ queue[a].link \in DOMAIN graph[queue[a].source]
        /\ graph[queue[a].source][queue[a].link].target = queue[a].id
        /\ link # 0 /\ queue[a].source = Here.id => queue[a].link < link

LinksOnce ==
    \A a, b \in 2 .. Len(queue) :
        queue[a].source = queue[b].source /\ queue[a].link = queue[b].link => a = b

\* What the queue has is no further than it says.
Sound ==
    \A a \in 1 .. Len(queue) :
        /\ queue[a].depth <= Depth
        /\ queue[a].id \in DOMAIN graph => IsNear(queue[a].id, queue[a].depth + 1)

\* Every link that is to be followed of what was taken led to an entry.
LinkIsQueued(b, i) ==
    LET to == graph[queue[b].id][i]
    IN  to.rel \in request.rels /\ to.target # Uri =>
            \/ b = taken /\ link # 0 /\ i >= link
            \/ \E c \in 1 .. Len(queue) :
                  queue[c].id = to.target /\ queue[c].depth <= queue[b].depth + 1

Expanded(b) ==
    queue[b].depth < Depth => \A i \in DOMAIN graph[queue[b].id] : LinkIsQueued(b, i)

Complete ==
    \A a \in 1 .. taken : queue[a].id \in DOMAIN graph =>
        \E b \in 1 .. a : queue[b].id = queue[a].id /\ Expanded(b)

WalkInv ==
    /\ request = NoRequest =>
          queue = <<>> /\ taken = 0 /\ visited = {} /\ nodes = <<>> /\ link = 0
    /\ request # NoRequest =>
          /\ WalkTypeOK /\ AtLink /\ Sorted /\ Seen /\ Led /\ LinksOnce /\ Sound /\ Complete

LEMMA AppendIs ==
    ASSUME NEW S, NEW s \in Seq(S), NEW e \in S
    PROVE  /\ Append(s, e) \in Seq(S)
           /\ Len(Append(s, e)) = Len(s) + 1
           /\ \A i \in 1 .. Len(s) : Append(s, e)[i] = s[i]
           /\ Append(s, e)[Len(s) + 1] = e
  OBVIOUS

LEMMA DepthIsNat ==
    ASSUME request \in Requests
    PROVE  Depth \in Nat
  BY ReadsAssumption DEF Depth, Capped

\* What a graph is.
LEMMA GraphParts ==
    ASSUME graph \in Graphs, NEW x \in DOMAIN graph
    PROVE  /\ x \in Names /\ graph[x] \in Seq(LinkType)
           /\ \A i \in DOMAIN graph[x] : graph[x][i].target \in Names \cup {Uri}
<1>1. graph \in [DOMAIN graph -> Seq(LinkType)] /\ x \in Names
  BY ReadsAssumption
<1>2. graph[x] \in Seq(LinkType)
  BY <1>1
<1>3. ASSUME NEW i \in DOMAIN graph[x] PROVE graph[x][i].target \in Names \cup {Uri}
  <2>1. graph[x][i] \in LinkType
    BY <1>2, <1>3
  <2> QED
    BY <2>1 DEF LinkType
<1> QED
  BY <1>1, <1>2, <1>3

LEMMA NearStep ==
    ASSUME NEW n \in Nat, n >= 1, NEW x, NEW y \in DOMAIN graph, IsNear(x, n), LinkedTo(x, y)
    PROVE  IsNear(y, n + 1)
<1>1. PICK p \in [1 .. n -> DOMAIN graph] :
         /\ p[1] = request.start /\ p[n] = x
         /\ \A i \in 1 .. n - 1 : LinkedTo(p[i], p[i + 1])
  BY DEF IsNear
<1> DEFINE q == [i \in 1 .. n + 1 |-> IF i <= n THEN p[i] ELSE y]
<1>2. q \in [1 .. n + 1 -> DOMAIN graph] /\ q[1] = request.start /\ q[n + 1] = y
  BY <1>1
<1>3. ASSUME NEW i \in 1 .. n PROVE LinkedTo(q[i], q[i + 1])
  <2>1. CASE i = n
    BY <2>1, <1>1
  <2>2. CASE i # n
    <3>1. i \in 1 .. n - 1 /\ q[i] = p[i] /\ q[i + 1] = p[i + 1]
      BY <2>2
    <3> QED
      BY <3>1, <1>1
  <2> QED
    BY <2>1, <2>2
<1>4. \A i \in 1 .. (n + 1) - 1 : LinkedTo(q[i], q[i + 1])
  BY <1>3
<1> HIDE DEF q
<1> QED
  BY <1>2, <1>4 DEF IsNear

LEMMA NearStart ==
    ASSUME request.start \in DOMAIN graph
    PROVE  IsNear(request.start, 1)
<1> DEFINE p == [i \in 1 .. 1 |-> request.start]
<1>1. p \in [1 .. 1 -> DOMAIN graph] /\ p[1] = request.start
  OBVIOUS
<1>2. \A i \in 1 .. 1 - 1 : LinkedTo(p[i], p[i + 1])
  OBVIOUS
<1> HIDE DEF p
<1> QED
  BY <1>1, <1>2 DEF IsNear

LEMMA NearStays ==
    ASSUME graph' = graph, request' = request
    PROVE  /\ Depth' = Depth
           /\ \A x, n : IsNear(x, n)' <=> IsNear(x, n)
  BY DEF Depth, Capped, IsNear, LinkedTo

-----------------------------------------------------------------------------
LEMMA BeginWalk ==
    ASSUME WalkInv, Begin
    PROVE  WalkInv'
<1>1. /\ graph' \in Graphs /\ request' \in Requests
      /\ queue' = <<Entry(request'.start, 0, Uri, 0)>>
      /\ taken' = 0 /\ visited' = {} /\ nodes' = <<>> /\ link' = 0
  BY DEF Begin, WalkInv
<1>2. request'.start \in Names /\ request'.start # Uri
  BY <1>1, ReadsAssumption
<1>3. Entry(request'.start, 0, Uri, 0) \in EntryType
  BY <1>2 DEF Entry, EntryType
<1>4. Len(queue') = 1 /\ queue'[1] = Entry(request'.start, 0, Uri, 0) /\ queue' \in Seq(EntryType)
  BY <1>1, <1>3
<1>5. queue'[1].id = request'.start /\ queue'[1].depth = 0
  BY <1>4 DEF Entry
<1>6. request' # NoRequest
  BY <1>2 DEF NoRequest
<1>7. Depth' \in Nat
  BY <1>1, ReadsAssumption DEF Depth, Capped
<1>8. WalkTypeOK'
  BY <1>1, <1>4 DEF WalkTypeOK
<1>9. AtLink' /\ Led' /\ LinksOnce' /\ Complete'
  BY <1>1, <1>4 DEF AtLink, Led, LinksOnce, Complete
<1>10. Sorted'
  BY <1>1, <1>4, <1>5 DEF Sorted
<1>11. Seen'
  BY <1>1 DEF Seen, Range, IsInjective
<1>12. Sound'
  <2>1. (request.start \in DOMAIN graph => IsNear(request.start, 1))'
    BY NearStart, PTL
  <2> QED
    BY <2>1, <1>4, <1>5, <1>7 DEF Sound
<1> QED
  BY <1>6, <1>8, <1>9, <1>10, <1>11, <1>12 DEF WalkInv

\* What all three kinds of turns of the outer loop do.
LEMMA ShiftFacts ==
    ASSUME WalkInv, Shift
    PROVE  /\ request # NoRequest /\ taken \in Nat /\ taken + 1 \in 1 .. Len(queue)
           /\ taken' = taken + 1 /\ link = 0
           /\ graph' = graph /\ request' = request /\ queue' = queue /\ queue[taken + 1].id \in Names
           /\ WalkTypeOK /\ AtLink /\ Sorted /\ Seen /\ Led /\ LinksOnce /\ Sound /\ Complete
           /\ LinksOnce' /\ Sorted' /\ Sound'
<1>1. taken' = taken + 1 /\ link = 0 /\ graph' = graph /\ request' = request /\ queue' = queue
      /\ taken < Len(queue)
  BY DEF Shift
<1>2. request # NoRequest
  <2>1. SUFFICES ASSUME request = NoRequest PROVE FALSE
    OBVIOUS
  <2>2. taken = 0 /\ queue = <<>>
    BY <2>1 DEF WalkInv
  <2> QED
    BY <2>2, <1>1
<1>3. WalkTypeOK /\ AtLink /\ Sorted /\ Seen /\ Led /\ LinksOnce /\ Sound /\ Complete
  BY <1>2 DEF WalkInv
<1>4. taken \in Nat /\ taken + 1 \in 1 .. Len(queue)
  BY <1>1, <1>3 DEF WalkTypeOK
<1>5. queue[taken + 1].id \in Names
  <2>1. queue[taken + 1] \in EntryType
    BY <1>3, <1>4 DEF WalkTypeOK
  <2> QED
    BY <2>1 DEF EntryType
<1>6. Sorted'
  BY <1>1, <1>3, <1>4 DEF Sorted
<1>7. LinksOnce'
  BY <1>1, <1>3 DEF LinksOnce
<1>8. Sound'
  BY <1>1, <1>3, NearStays DEF Sound
<1> QED
  BY <1>1, <1>2, <1>3, <1>4, <1>5, <1>6, <1>7, <1>8

\* The entries taken before stay complete.
LEMMA ShiftComplete ==
    ASSUME WalkInv, Shift, NEW a \in 1 .. taken, queue[a].id \in DOMAIN graph
    PROVE  \E b \in 1 .. a : queue[b].id = queue[a].id /\ Expanded(b)'
<1>1. PICK b \in 1 .. a : queue[b].id = queue[a].id /\ Expanded(b)
  BY ShiftFacts DEF Complete
<1>2. Expanded(b)'
  BY <1>1, ShiftFacts, NearStays DEF Expanded, LinkIsQueued
<1> QED
  BY <1>1, <1>2

LEMMA SkipWalk ==
    ASSUME WalkInv, Skip
    PROVE  WalkInv'
<1>0. Shift /\ queue[taken + 1].id \in visited /\ visited' = visited /\ nodes' = nodes /\ link' = 0
  BY ShiftFacts DEF Skip
<1>1. WalkTypeOK'
  BY <1>0, ShiftFacts DEF WalkTypeOK
<1>2. AtLink' /\ Led'
  BY <1>0, ShiftFacts DEF AtLink, Led
<1>3. Seen'
  <2>1. visited = {queue[a].id : a \in 1 .. taken + 1}
    BY <1>0, ShiftFacts DEF Seen
  <2> QED
    BY <1>0, <2>1, ShiftFacts DEF Seen
<1>4. Complete'
  <2> SUFFICES ASSUME NEW a \in 1 .. taken + 1, queue[a].id \in DOMAIN graph
               PROVE  \E b \in 1 .. a : queue[b].id = queue[a].id /\ Expanded(b)'
    BY <1>0, ShiftFacts DEF Complete
  <2>1. CASE a \in 1 .. taken
    BY <2>1, <1>0, ShiftComplete
  <2>2. CASE a = taken + 1
    <3>1. PICK c \in 1 .. taken : queue[c].id = queue[a].id
      BY <2>2, <1>0, ShiftFacts DEF Seen
    <3>2. PICK b \in 1 .. c : queue[b].id = queue[c].id /\ Expanded(b)'
      BY <3>1, <1>0, ShiftComplete
    <3>3. b \in 1 .. a
      BY <2>2, <1>0, ShiftFacts
    <3> QED
      BY <3>1, <3>2, <3>3
  <2> QED
    BY <2>1, <2>2, <1>0, ShiftFacts
<1> QED
  BY <1>0, <1>1, <1>2, <1>3, <1>4, ShiftFacts DEF WalkInv

LEMMA MissWalk ==
    ASSUME WalkInv, Miss
    PROVE  WalkInv'
<1> DEFINE id == queue[taken + 1].id
<1>0. Shift /\ id \notin visited \cup DOMAIN graph /\ visited' = visited \cup {id}
      /\ nodes' = nodes /\ link' = 0
  BY ShiftFacts DEF Miss
<1>1. WalkTypeOK'
  BY <1>0, ShiftFacts DEF WalkTypeOK
<1>2. AtLink' /\ Led'
  BY <1>0, ShiftFacts DEF AtLink, Led
<1>3. Seen'
  <2>1. visited' = {queue[a].id : a \in 1 .. taken + 1}
    BY <1>0, ShiftFacts DEF Seen
  <2> QED
    BY <1>0, <2>1, ShiftFacts DEF Seen
<1>4. Complete'
  <2> SUFFICES ASSUME NEW a \in 1 .. taken + 1, queue[a].id \in DOMAIN graph
               PROVE  \E b \in 1 .. a : queue[b].id = queue[a].id /\ Expanded(b)'
    BY <1>0, ShiftFacts DEF Complete
  <2>1. a \in 1 .. taken
    BY <1>0, ShiftFacts
  <2> QED
    BY <2>1, <1>0, ShiftComplete
<1> QED
  BY <1>0, <1>1, <1>2, <1>3, <1>4, ShiftFacts DEF WalkInv

LEMMA VisitWalk ==
    ASSUME WalkInv, Visit
    PROVE  WalkInv'
<1> DEFINE id == queue[taken + 1].id
           more == queue[taken + 1].depth < Depth /\ graph[id] # <<>>
<1>0. Shift /\ id \in DOMAIN graph /\ id \notin visited /\ visited' = visited \cup {id}
      /\ nodes' = Append(nodes, id) /\ link' = IF more THEN 1 ELSE 0
  BY DEF Visit
<1>1. nodes \in Seq(Names) /\ id \in Names
  BY <1>0, ShiftFacts DEF WalkTypeOK
<1>2. /\ nodes' \in Seq(Names) /\ Len(nodes') = Len(nodes) + 1 /\ nodes'[Len(nodes) + 1] = id
      /\ \A i \in 1 .. Len(nodes) : nodes'[i] = nodes[i]
  BY <1>0, <1>1, AppendIs
<1>3. DOMAIN nodes' = 1 .. Len(nodes) + 1 /\ DOMAIN nodes = 1 .. Len(nodes) /\ Len(nodes) \in Nat
  BY <1>1, <1>2
<1>4. Range(nodes') = Range(nodes) \cup {id}
  BY <1>2, <1>3 DEF Range
<1>5. id \notin Range(nodes)
  BY <1>0, ShiftFacts DEF Seen
<1>6. IsInjective(nodes')
  <2> SUFFICES ASSUME NEW a \in 1 .. Len(nodes) + 1, NEW b \in 1 .. Len(nodes) + 1, nodes'[a] = nodes'[b]
               PROVE  a = b
    BY <1>3 DEF IsInjective
  <2>1. CASE a \in 1 .. Len(nodes) /\ b \in 1 .. Len(nodes)
    BY <2>1, <1>0, <1>2, <1>3, ShiftFacts DEF Seen, IsInjective
  <2>2. CASE a = Len(nodes) + 1 /\ b \in 1 .. Len(nodes)
    BY <2>2, <1>2, <1>3, <1>5 DEF Range
  <2>3. CASE b = Len(nodes) + 1 /\ a \in 1 .. Len(nodes)
    BY <2>3, <1>2, <1>3, <1>5 DEF Range
  <2> QED
    BY <2>1, <2>2, <2>3, <1>3
<1>7. Seen'
  <2>1. visited' = {queue[a].id : a \in 1 .. taken + 1}
    BY <1>0, ShiftFacts DEF Seen
  <2> QED
    BY <1>0, <2>1, <1>4, <1>6, ShiftFacts DEF Seen
<1>8. WalkTypeOK'
  BY <1>0, <1>2, ShiftFacts DEF WalkTypeOK
<1>9. Here' = queue[taken + 1] /\ Depth' = Depth
  BY <1>0, ShiftFacts, NearStays DEF Here
<1>10. graph[id] \in Seq(LinkType)
  BY <1>0, ShiftFacts, GraphParts DEF WalkTypeOK
<1>11. AtLink'
  <2> SUFFICES ASSUME more
               PROVE  1 \in DOMAIN graph[id] /\ \A a \in 1 .. taken : queue[a].id # id
    BY <1>0, <1>9, ShiftFacts DEF AtLink
  <2>1. 1 \in DOMAIN graph[id]
    BY <1>10
  <2> QED
    BY <2>1, <1>0, ShiftFacts DEF Seen
<1>12. Led'
  BY <1>0, <1>4, <1>5, <1>9, ShiftFacts DEF Led
<1>13. Complete'
  <2> SUFFICES ASSUME NEW a \in 1 .. taken + 1, queue[a].id \in DOMAIN graph
               PROVE  \E b \in 1 .. a : queue[b].id = queue[a].id /\ Expanded(b)'
    BY <1>0, ShiftFacts DEF Complete
  <2>1. CASE a \in 1 .. taken
    BY <2>1, <1>0, ShiftComplete
  <2>2. CASE a = taken + 1
    <3>1. Expanded(a)'
      <4> SUFFICES ASSUME queue[taken + 1].depth < Depth, NEW i \in DOMAIN graph[id]
                   PROVE  taken' = taken + 1 /\ link' # 0 /\ i >= link'
        BY <2>2, <1>0, <1>9, ShiftFacts DEF Expanded, LinkIsQueued
      <4>1. graph[id] # <<>> /\ i \in Nat /\ i >= 1
        BY <1>10
      <4> QED
        BY <4>1, <1>0, ShiftFacts
    <3> QED
      BY <2>2, <3>1, <1>0, ShiftFacts
  <2> QED
    BY <2>1, <2>2, <1>0, ShiftFacts
<1> QED
  BY <1>0, <1>7, <1>8, <1>11, <1>12, <1>13, ShiftFacts DEF WalkInv

\* What a turn of the loop over the links starts from.
LEMMA FollowFacts ==
    ASSUME WalkInv, Follow
    PROVE  /\ request # NoRequest /\ link # 0
           /\ graph' = graph /\ request' = request /\ taken' = taken /\ visited' = visited /\ nodes' = nodes
           /\ WalkTypeOK /\ AtLink /\ Sorted /\ Seen /\ Led /\ LinksOnce /\ Sound /\ Complete
           /\ taken \in 1 .. Len(queue) /\ Len(queue) \in Nat /\ Here \in EntryType
           /\ Here.depth \in Nat /\ Here.depth < Depth /\ Depth \in Nat
           /\ Here.id \in DOMAIN graph /\ Here.id \in Range(nodes) /\ Here.id \in Names
           /\ graph[Here.id] \in Seq(LinkType)
           /\ link \in 1 .. Len(graph[Here.id]) /\ Len(graph[Here.id]) \in Nat
           /\ link' = IF link < Len(graph[Here.id]) THEN link + 1 ELSE 0
<1>1. /\ link # 0 /\ graph' = graph /\ request' = request /\ taken' = taken /\ visited' = visited
      /\ nodes' = nodes /\ link' = IF link < Len(graph[Here.id]) THEN link + 1 ELSE 0
  BY DEF Follow
<1>2. request # NoRequest
  BY <1>1 DEF WalkInv
<1>3. WalkTypeOK /\ AtLink /\ Sorted /\ Seen /\ Led /\ LinksOnce /\ Sound /\ Complete
  BY <1>2 DEF WalkInv
<1>4. taken \in 1 .. Len(queue) /\ Len(queue) \in Nat
  BY <1>1, <1>3 DEF WalkTypeOK, AtLink
<1>5. Here \in EntryType
  BY <1>3, <1>4 DEF WalkTypeOK, Here
<1>6. Here.depth \in Nat /\ Here.id \in Names
  BY <1>5 DEF EntryType
<1>7. Here.depth < Depth /\ Here.id \in DOMAIN graph /\ link \in DOMAIN graph[Here.id]
  BY <1>1, <1>3 DEF AtLink
<1>8. graph[Here.id] \in Seq(LinkType)
  BY <1>3, <1>7, GraphParts DEF WalkTypeOK
<1>9. link \in 1 .. Len(graph[Here.id]) /\ Len(graph[Here.id]) \in Nat
  BY <1>7, <1>8
<1>10. Here.id \in Range(nodes)
  BY <1>3, <1>4, <1>7 DEF Seen, Here
<1>11. Depth \in Nat
  BY <1>3, DepthIsNat DEF WalkTypeOK
<1> QED
  BY <1>1, <1>2, <1>3, <1>4, <1>5, <1>6, <1>7, <1>8, <1>9, <1>10, <1>11

\* A link of the chunk that is not followed, or was: what is left of the
\* invariant where every entry stays and what follows the link is there.
LEMMA FollowWalk ==
    ASSUME WalkInv, Follow
    PROVE  WalkInv'
<1> DEFINE to == graph[Here.id][link]
           new == Entry(to.target, Here.depth + 1, Here.id, link)
           found == to.rel \in request.rels /\ to.target \notin visited \cup {Uri}
<1>1. queue' = IF found THEN Append(queue, new) ELSE queue
  BY DEF Follow, Enqueue
<1>2. to.target \in Names \cup {Uri}
  BY FollowFacts, GraphParts DEF WalkTypeOK
<1>3. new.id = to.target /\ new.depth = Here.depth + 1 /\ new.source = Here.id /\ new.link = link
  BY DEF Entry
<1>4. found => new \in EntryType
  BY <1>2, FollowFacts DEF Entry, EntryType
<1> HIDE DEF new
<1>5. /\ queue' \in Seq(EntryType)
      /\ \A a \in 1 .. Len(queue) : queue'[a] = queue[a]
      /\ found => Len(queue') = Len(queue) + 1 /\ queue'[Len(queue) + 1] = new
      /\ ~found => Len(queue') = Len(queue)
  <2>1. queue \in Seq(EntryType)
    BY FollowFacts DEF WalkTypeOK
  <2>2. CASE found
    BY <2>1, <2>2, <1>1, <1>4, AppendIs
  <2>3. CASE ~found
    BY <2>1, <2>3, <1>1
  <2> QED
    BY <2>2, <2>3
<1>6. \A a \in 1 .. Len(queue') : a \in 1 .. Len(queue) \/ (found /\ a = Len(queue) + 1 /\ queue'[a] = new)
  BY <1>5, FollowFacts
<1>7. Here' = Here /\ Depth' = Depth
  BY <1>5, FollowFacts, NearStays DEF Here
<1>8. \A a \in 1 .. Len(queue) : queue[a].depth \in Nat
  <2>1. \A a \in 1 .. Len(queue) : queue[a] \in EntryType
    BY FollowFacts DEF WalkTypeOK
  <2> QED
    BY <2>1 DEF EntryType
<1>9. WalkTypeOK'
  BY <1>5, FollowFacts DEF WalkTypeOK
<1>10. AtLink'
  <2>1. \A a \in 1 .. taken - 1 : a \in 1 .. Len(queue) /\ queue'[a] = queue[a]
    BY <1>5, FollowFacts
  <2>2. \A a \in 1 .. taken - 1 : queue[a].id # Here.id
    BY FollowFacts DEF AtLink
  <2>3. link' # 0 => link' \in DOMAIN graph[Here.id]
    BY FollowFacts
  <2>4. taken >= 1
    BY FollowFacts
  <2> QED
    BY <2>1, <2>2, <2>3, <2>4, <1>7, FollowFacts DEF AtLink
<1>11. Sorted'
  <2>1. \A a \in 1 .. Len(queue) : queue[a].depth <= Here.depth + 1
    BY FollowFacts DEF Sorted, Here
  <2>2. \A a \in 1 .. Len(queue) : a >= taken => Here.depth <= queue[a].depth
    BY FollowFacts DEF Sorted, Here
  <2>3. ASSUME NEW a \in 1 .. Len(queue'), NEW b \in 1 .. Len(queue'), a <= b
        PROVE  queue'[a].depth <= queue'[b].depth
    <3>1. CASE a \in 1 .. Len(queue) /\ b \in 1 .. Len(queue)
      BY <3>1, <2>3, <1>5, FollowFacts DEF Sorted
    <3>2. CASE a \in 1 .. Len(queue) /\ b = Len(queue) + 1 /\ queue'[b] = new
      <4>1. queue'[a] = queue[a] /\ queue[a].depth <= Here.depth + 1
        BY <3>2, <2>1, <1>5
      <4> QED
        BY <4>1, <3>2, <1>3
    <3>3. CASE a = Len(queue) + 1
      <4>1. b = a
        BY <3>3, <2>3, <1>6, FollowFacts
      <4>2. queue'[a] = new
        BY <3>3, <1>6, FollowFacts
      <4> QED
        BY <4>1, <4>2, <1>3, FollowFacts
    <3> QED
      BY <3>1, <3>2, <3>3, <1>6
  <2>4. ASSUME NEW a \in 1 .. Len(queue'), NEW b \in 1 .. Len(queue'), a >= taken
        PROVE  queue'[b].depth <= queue'[a].depth + 1
    <3>1. CASE a \in 1 .. Len(queue) /\ b \in 1 .. Len(queue)
      BY <3>1, <2>4, <1>5, FollowFacts DEF Sorted
    <3>2. CASE a \in 1 .. Len(queue) /\ queue'[b] = new
      BY <3>2, <2>2, <2>4, <1>3, <1>5, <1>8, FollowFacts, SMTT(30)
    <3>3. CASE queue'[a] = new /\ b \in 1 .. Len(queue)
      <4>1. queue'[b] = queue[b] /\ queue[b].depth <= Here.depth + 1 /\ queue[b].depth \in Nat
        BY <3>3, <2>1, <1>5, <1>8
      <4>2. queue'[a].depth = Here.depth + 1
        BY <3>3, <1>3
      <4> QED
        BY <4>1, <4>2, FollowFacts, SMTT(30)
    <3>4. CASE queue'[a] = new /\ queue'[b] = new
      BY <3>4, <1>3, FollowFacts
    <3> QED
      BY <3>1, <3>2, <3>3, <3>4, <1>6
  <2>5. taken' = taken
    BY FollowFacts
  <2> QED
    BY <2>3, <2>4, <2>5 DEF Sorted
<1>12. Seen'
  <2>1. \A a \in 1 .. taken : queue'[a] = queue[a]
    BY <1>5, FollowFacts
  <2> QED
    BY <2>1, FollowFacts DEF Seen
<1>13. Led'
  <2> SUFFICES ASSUME NEW a \in 2 .. Len(queue')
               PROVE  /\ queue'[a].source \in Range(nodes)
                      /\ queue'[a].link \in DOMAIN graph[queue'[a].source]
                      /\ graph[queue'[a].source][queue'[a].link].target = queue'[a].id
                      /\ link' # 0 /\ queue'[a].source = Here.id => queue'[a].link < link'
    BY <1>7, FollowFacts DEF Led
  <2>1. CASE a \in 1 .. Len(queue)
    <3>1. a \in 2 .. Len(queue) /\ queue'[a] = queue[a]
      BY <2>1, <1>5, FollowFacts
    <3>2. /\ queue[a].source \in Range(nodes)
          /\ queue[a].link \in DOMAIN graph[queue[a].source]
          /\ graph[queue[a].source][queue[a].link].target = queue[a].id
          /\ queue[a].source = Here.id => queue[a].link < link
      BY <3>1, FollowFacts DEF Led
    <3>3. queue[a].link \in Nat
      <4>1. queue[a] \in EntryType
        BY <3>1, FollowFacts DEF WalkTypeOK
      <4> QED
        BY <4>1 DEF EntryType
    <3> QED
      BY <3>1, <3>2, <3>3, FollowFacts
  <2>2. CASE queue'[a] = new
    BY <2>2, <1>3, FollowFacts
  <2> QED
    BY <2>1, <2>2, <1>6
<1>14. LinksOnce'
  <2> SUFFICES ASSUME NEW a \in 2 .. Len(queue'), NEW b \in 2 .. Len(queue'),
                      queue'[a].source = queue'[b].source, queue'[a].link = queue'[b].link
               PROVE  a = b
    BY DEF LinksOnce
  <2>1. CASE a \in 1 .. Len(queue) /\ b \in 1 .. Len(queue)
    <3>1. a \in 2 .. Len(queue) /\ b \in 2 .. Len(queue) /\ queue'[a] = queue[a] /\ queue'[b] = queue[b]
      BY <2>1, <1>5, FollowFacts
    <3> QED
      BY <3>1, FollowFacts DEF LinksOnce
  <2>2. ASSUME NEW c \in 2 .. Len(queue), queue[c].source = Here.id PROVE queue[c].link # link
    <3>1. queue[c].link < link
      BY <2>2, FollowFacts DEF Led
    <3> QED
      BY <3>1, FollowFacts
  <2>3. CASE a \in 1 .. Len(queue) /\ b = Len(queue) + 1 /\ queue'[b] = new
    <3>1. a \in 2 .. Len(queue) /\ queue'[a] = queue[a]
      BY <2>3, <1>5, FollowFacts
    <3> QED
      BY <3>1, <2>2, <2>3, <1>3
  <2>4. CASE b \in 1 .. Len(queue) /\ a = Len(queue) + 1 /\ queue'[a] = new
    <3>1. b \in 2 .. Len(queue) /\ queue'[b] = queue[b]
      BY <2>4, <1>5, FollowFacts
    <3> QED
      BY <3>1, <2>2, <2>4, <1>3
  <2> QED
    BY <2>1, <2>3, <2>4, <1>6, FollowFacts
<1>15. Sound'
  <2> SUFFICES ASSUME NEW a \in 1 .. Len(queue')
               PROVE  /\ queue'[a].depth <= Depth
                      /\ queue'[a].id \in DOMAIN graph => IsNear(queue'[a].id, queue'[a].depth + 1)
    BY <1>7, FollowFacts, NearStays DEF Sound
  <2>1. CASE a \in 1 .. Len(queue)
    BY <2>1, <1>5, FollowFacts DEF Sound
  <2>2. CASE found /\ queue'[a] = new
    <3>1. IsNear(Here.id, Here.depth + 1)
      BY FollowFacts DEF Sound, Here
    <3>2. LinkedTo(Here.id, to.target)
      <4>1. link \in DOMAIN graph[Here.id]
        BY FollowFacts
      <4> QED
        BY <4>1, <2>2 DEF LinkedTo
    <3>3. to.target \in DOMAIN graph => IsNear(to.target, (Here.depth + 1) + 1)
      BY <3>1, <3>2, FollowFacts, NearStep
    <3> QED
      BY <2>2, <3>3, <1>3, FollowFacts
  <2> QED
    BY <2>1, <2>2, <1>6
<1>16. Complete'
  <2> SUFFICES ASSUME NEW a \in 1 .. taken, queue[a].id \in DOMAIN graph
               PROVE  \E b \in 1 .. a : queue[b].id = queue[a].id /\ Expanded(b)'
    <3>1. \A a \in 1 .. taken : queue'[a] = queue[a] /\ a \in Nat
      BY <1>5, FollowFacts
    <3>2. \A a \in 1 .. taken : \A b \in 1 .. a : queue'[b] = queue[b]
      BY <1>5, FollowFacts
    <3> QED
      BY <3>1, <3>2, FollowFacts DEF Complete
  <2>1. PICK b \in 1 .. a : queue[b].id = queue[a].id /\ Expanded(b)
    BY FollowFacts DEF Complete
  <2>2. b \in 1 .. Len(queue) /\ queue'[b] = queue[b]
    BY <1>5, FollowFacts
  <2>3. ASSUME NEW i \in DOMAIN graph[queue[b].id], queue[b].depth < Depth
        PROVE  LinkIsQueued(b, i)'
    <3> DEFINE at == graph[queue[b].id][i]
    <3> SUFFICES ASSUME at.rel \in request.rels, at.target # Uri
                 PROVE  \/ b = taken /\ link' # 0 /\ i >= link'
                        \/ \E c \in 1 .. Len(queue') :
                              queue'[c].id = at.target /\ queue'[c].depth <= queue[b].depth + 1
      <4>1. /\ graph'[queue'[b].id][i] = at /\ request'.rels = request.rels
            /\ taken' = taken /\ queue'[b].depth = queue[b].depth
        BY <2>2, FollowFacts
      <4> QED
        BY <4>1 DEF LinkIsQueued
    <3>1. \/ b = taken /\ i >= link
          \/ \E c \in 1 .. Len(queue) :
                queue[c].id = at.target /\ queue[c].depth <= queue[b].depth + 1
      BY <2>1, <2>3, FollowFacts DEF Expanded, LinkIsQueued
    <3>2. CASE \E c \in 1 .. Len(queue) :
                  queue[c].id = at.target /\ queue[c].depth <= queue[b].depth + 1
      BY <3>2, <1>5, FollowFacts, SMTT(30)
    <3>3. CASE b = taken /\ i = link
      <4>1. queue[b] = Here /\ at = to
        BY <3>3 DEF Here
      <4>2. CASE found
        <5>1. Len(queue) + 1 \in 1 .. Len(queue') /\ queue'[Len(queue) + 1] = new
          BY <4>2, <1>5, FollowFacts
        <5>2. queue[b].depth = Here.depth /\ Here.depth + 1 <= Here.depth + 1
          BY <4>1, FollowFacts
        <5>3. queue'[Len(queue) + 1].id = at.target
          BY <5>1, <4>1, <1>3
        <5>4. queue'[Len(queue) + 1].depth <= queue[b].depth + 1
          BY <5>1, <5>2, <1>3
        <5> QED
          BY <5>1, <5>3, <5>4
      <4>3. CASE ~found
        <5>1. at.target \in visited
          BY <4>1, <4>3
        <5>2. PICK c \in 1 .. taken : queue[c].id = at.target
          BY <5>1, FollowFacts DEF Seen
        <5>3. c \in 1 .. Len(queue) /\ queue[c].depth <= Here.depth
          BY <5>2, FollowFacts DEF Sorted, Here
        <5>4. queue[c].depth <= queue[b].depth + 1
          BY <5>3, <4>1, <1>8, FollowFacts, SMTT(30)
        <5> QED
          BY <5>2, <5>3, <5>4, <1>5, FollowFacts, SMTT(30)
      <4> QED
        BY <4>2, <4>3
    <3>4. CASE b = taken /\ i > link
      <4>1. i \in 1 .. Len(graph[Here.id])
        BY <3>4, FollowFacts DEF Here
      <4> QED
        BY <4>1, <3>4, FollowFacts
    <3>5. i \in Nat
      <4>1. queue[b].id \in DOMAIN graph
        BY <2>1
      <4>2. graph[queue[b].id] \in Seq(LinkType)
        BY <4>1, FollowFacts, GraphParts DEF WalkTypeOK
      <4> QED
        BY <4>2
    <3>6. link \in Nat
      BY FollowFacts
    <3>7. i >= link => i = link \/ i > link
      BY <3>5, <3>6
    <3> QED
      BY <3>1, <3>2, <3>3, <3>4, <3>7
  <2>4. Expanded(b)'
    BY <2>2, <2>3, <1>7, FollowFacts DEF Expanded
  <2> QED
    BY <2>1, <2>4
<1> QED
  BY <1>9, <1>10, <1>11, <1>12, <1>13, <1>14, <1>15, <1>16, FollowFacts DEF WalkInv

LEMMA LeastBad ==
    ASSUME NEW T \in SUBSET Nat, T # {}
    PROVE  \E x \in T : \A y \in T : x <= y
<1>1. PICK x \in T : \A y \in T : ~ (<<y, x>> \in OpToRel(<, Nat))
  BY NatLessThanWellFounded, WFMin
<1>2. ASSUME NEW y \in T PROVE x <= y
  <2>1. ~(y < x)
    BY <1>1 DEF OpToRel
  <2> QED
    BY <2>1
<1> QED
  BY <1>2

LEMMA StayWalk ==
    ASSUME WalkInv, UNCHANGED <<graph, request, walkVars>>
    PROVE  WalkInv'
<1>1. /\ graph' = graph /\ request' = request /\ queue' = queue /\ taken' = taken
      /\ visited' = visited /\ nodes' = nodes /\ link' = link
  BY DEF walkVars
<1>2. SUFFICES ASSUME request # NoRequest PROVE WalkInv'
  BY <1>1 DEF WalkInv
<1>3. WalkTypeOK /\ AtLink /\ Sorted /\ Seen /\ Led /\ LinksOnce /\ Sound /\ Complete
  BY <1>2 DEF WalkInv
<1>4. Here' = Here /\ Depth' = Depth
  BY <1>1, NearStays DEF Here
<1>5. WalkTypeOK' /\ AtLink'
  BY <1>1, <1>3, <1>4 DEF WalkTypeOK, AtLink
<1>6. Sorted' /\ Seen' /\ Led' /\ LinksOnce'
  BY <1>1, <1>3, <1>4 DEF Sorted, Seen, Led, LinksOnce
<1>7. Sound'
  BY <1>1, <1>3, NearStays DEF Sound
<1>8. \A b : Expanded(b)' <=> Expanded(b)
  BY <1>1, <1>4 DEF Expanded, LinkIsQueued
<1>9. Complete'
  BY <1>1, <1>3, <1>8 DEF Complete
<1> QED
  BY <1>1, <1>5, <1>6, <1>7, <1>9 DEF WalkInv

\* When all is taken, what is on a path within the hops was visited: by the
\* first chunk of the path that would not have been.
LEMMA PathIsVisited ==
    ASSUME WalkInv, Answered, NEW n \in 1 .. Depth + 1, NEW y \in DOMAIN graph, IsNear(y, n)
    PROVE  y \in Range(nodes)
<1>1. taken = Len(queue) /\ link = 0 /\ request # NoRequest
  BY DEF Answered
<1>2. WalkTypeOK /\ Sorted /\ Seen /\ Complete
  BY <1>1 DEF WalkInv
<1>3. Depth \in Nat
  BY <1>2, DepthIsNat DEF WalkTypeOK
<1>4. taken \in Nat /\ taken >= 1
  BY <1>1, <1>2 DEF WalkTypeOK
<1>5. \A b \in 1 .. taken : queue[b].depth \in Nat
  <2>1. \A b \in 1 .. taken : queue[b] \in EntryType
    BY <1>1, <1>2 DEF WalkTypeOK
  <2> QED
    BY <2>1 DEF EntryType
<1>6. PICK p \in [1 .. n -> DOMAIN graph] :
         /\ p[1] = request.start /\ p[n] = y
         /\ \A i \in 1 .. n - 1 : LinkedTo(p[i], p[i + 1])
  BY DEF IsNear
<1> DEFINE Reached(k) == \E b \in 1 .. taken : queue[b].id = p[k] /\ queue[b].depth <= k - 1
           bad == {k \in 1 .. n : ~Reached(k)}
<1>7. Reached(1)
  <2>1. queue[1].id = request.start /\ queue[1].depth = 0
    BY <1>2 DEF WalkTypeOK, Entry
  <2> QED
    BY <2>1, <1>4, <1>6
<1>8. ASSUME NEW k \in 1 .. n - 1, Reached(k) PROVE Reached(k + 1)
  <2>1. PICK c \in 1 .. taken : queue[c].id = p[k] /\ queue[c].depth <= k - 1
    BY <1>8
  <2>2. p[k] \in DOMAIN graph /\ p[k + 1] \in DOMAIN graph
    BY <1>3, <1>6
  <2>3. PICK d \in 1 .. c : queue[d].id = queue[c].id /\ Expanded(d)
    BY <2>1, <2>2, <1>2 DEF Complete
  <2>4. d \in 1 .. taken /\ d <= c
    BY <2>1, <1>4
  <2>5. queue[d].depth <= queue[c].depth
    BY <2>4, <1>1, <1>2 DEF Sorted
  <2>6. queue[d].depth <= k - 1 /\ queue[d].depth < Depth
    BY <2>1, <2>4, <2>5, <1>3, <1>5
  <2>7. PICK i \in DOMAIN graph[p[k]] :
           graph[p[k]][i].rel \in request.rels /\ graph[p[k]][i].target = p[k + 1]
    BY <1>6 DEF LinkedTo
  <2>8. LinkIsQueued(d, i)
    BY <2>1, <2>3, <2>6, <2>7 DEF Expanded
  <2>9. p[k + 1] # Uri
    <3>1. DOMAIN graph \subseteq Names
      BY <1>2, ReadsAssumption DEF WalkTypeOK
    <3> QED
      BY <3>1, <2>2, ReadsAssumption
  <2>10. PICK e \in 1 .. taken : queue[e].id = p[k + 1] /\ queue[e].depth <= queue[d].depth + 1
    BY <2>1, <2>3, <2>7, <2>8, <2>9, <1>1 DEF LinkIsQueued
  <2>11. queue[e].depth <= (k + 1) - 1
    BY <2>10, <2>4, <2>6, <1>5, SMTT(30)
  <2> QED
    BY <2>10, <2>11
<1>9. n \in Nat /\ n >= 1
  BY <1>3
<1>10. bad = {}
  <2> SUFFICES ASSUME bad # {} PROVE FALSE
    OBVIOUS
  <2>1. bad \in SUBSET Nat
    BY <1>9
  <2>2. PICK x \in bad : \A z \in bad : x <= z
    BY <2>1, LeastBad
  <2>3. x # 1 /\ x \in 1 .. n
    BY <2>2, <1>7
  <2>4. x - 1 \in 1 .. n - 1 /\ (x - 1) + 1 = x
    BY <2>3, <1>9
  <2>5. x - 1 \notin bad
    <3>1. ~(x <= x - 1)
      BY <2>3, <1>9
    <3> QED
      BY <3>1, <2>2
  <2>6. x - 1 \in 1 .. n
    BY <2>4, <1>9
  <2>7. Reached(x - 1)
    BY <2>5, <2>6
  <2> HIDE DEF Reached
  <2>8. Reached((x - 1) + 1)
    BY <2>4, <2>7, <1>8
  <2> QED
    BY <2>2, <2>4, <2>8
<1>11. Reached(n)
  BY <1>9, <1>10
<1>12. PICK b \in 1 .. taken : queue[b].id = y
  BY <1>6, <1>11
<1> QED
  BY <1>2, <1>12 DEF Seen

LEMMA WalkIsReach ==
    ASSUME WalkInv
    PROVE  GraphIsReach
<1>1. CASE request = NoRequest
  BY <1>1 DEF WalkInv, GraphIsReach, IsInjective, Range, Answered
<1>2. CASE request # NoRequest
  <2>1. WalkTypeOK /\ Seen /\ Led /\ LinksOnce /\ Sound
    BY <1>2 DEF WalkInv
  <2>2. \A a \in 1 .. Len(queue) : queue[a].depth \in Nat
    <3>1. \A a \in 1 .. Len(queue) : queue[a] \in EntryType
      BY <2>1 DEF WalkTypeOK
    <3> QED
      BY <3>1 DEF EntryType
  <2>3. ASSUME NEW x \in Range(nodes)
        PROVE  \E a \in 1 .. Len(queue) : queue[a].id = x
    BY <2>1, <2>3 DEF Seen, WalkTypeOK
  <2>4. ASSUME NEW x \in Range(nodes) \ {request.start}
        PROVE  \E a \in 2 .. Len(queue) : queue[a].id = x
    <3>1. PICK a \in 1 .. Len(queue) : queue[a].id = x
      BY <2>3, <2>4
    <3>2. a # 1
      BY <3>1, <2>1, <2>4 DEF WalkTypeOK, Entry
    <3> QED
      BY <3>1, <3>2, <2>1 DEF WalkTypeOK
  <2>5. ASSUME NEW y \in Range(nodes)
        PROVE  y \in DOMAIN graph /\ \E n \in 1 .. Depth + 1 : IsNear(y, n)
    <3>1. y \in DOMAIN graph
      BY <2>1 DEF Seen
    <3>2. PICK a \in 1 .. Len(queue) : queue[a].id = y
      BY <2>3, <2>5
    <3>3. queue[a].depth <= Depth /\ IsNear(y, queue[a].depth + 1)
      BY <3>1, <3>2, <2>1 DEF Sound
    <3>4. Depth \in Nat
      BY <2>1, DepthIsNat DEF WalkTypeOK
    <3>5. queue[a].depth + 1 \in 1 .. Depth + 1
      BY <3>3, <3>4, <2>2
    <3> QED
      BY <3>1, <3>3, <3>5
  <2>6. Answered => Range(nodes) = {y \in DOMAIN graph : \E n \in 1 .. Depth + 1 : IsNear(y, n)}
    BY <2>5, PathIsVisited
  <2> QED
    BY <2>1, <2>4, <2>6 DEF GraphIsReach, Seen, Led, LinksOnce
<1> QED
  BY <1>1, <1>2

-----------------------------------------------------------------------------
(***************************************************************************)
(* The pages of the stores.                                                *)
(***************************************************************************)

StoresOK ==
    /\ stores \in Seq(Range(stores))
    /\ \A i \in DOMAIN stores : IsFiniteSet(stores[i]) /\ \A c \in stores[i] : c.stamp \in Nat

\* The first n of a finite set are n, or all of it.
LEMMA FirstOfFacts ==
    ASSUME NEW S, IsFiniteSet(S), NEW n \in Nat, NEW T \in FirstOf(n, S)
    PROVE  /\ T \subseteq S /\ IsFiniteSet(T) /\ Cardinality(T) \in Nat /\ Cardinality(T) <= n
           /\ Cardinality(S) <= n => T = S
           /\ ~(Cardinality(S) <= n) => Cardinality(T) = n
<1>1. T \subseteq S
  BY DEF FirstOf, kSubset
<1>2. IsFiniteSet(T)
  BY <1>1, FS_Subset
<1>3. Cardinality(T) \in Nat
  BY <1>2, FS_CardinalityType
<1>4. CASE Cardinality(S) <= n
  BY <1>1, <1>2, <1>3, <1>4 DEF FirstOf
<1>5. CASE ~(Cardinality(S) <= n)
  <2>1. Cardinality(T) = n
    BY <1>5 DEF FirstOf, kSubset
  <2> QED
    BY <1>1, <1>2, <1>3, <1>5, <2>1
<1> QED
  BY <1>4, <1>5

\* What is cut off is no newer than what is left, and that is as much as the
\* limit allows.
LEMMA NewestFacts ==
    ASSUME NEW S, IsFiniteSet(S), NEW n \in Nat, n >= 1, NEW T \in NewestOf(S, n), NEW c \in S \ T
    PROVE  /\ T \subseteq S /\ Cardinality(T) = n /\ T # {}
           /\ \A d \in T : c.stamp <= d.stamp
<1>1. T \in FirstOf(n, S) /\ \A d \in T, e \in S \ T : e.stamp <= d.stamp
  BY DEF NewestOf
<1>2. T \subseteq S /\ T # S
  BY <1>1, FirstOfFacts
<1>3. Cardinality(T) = n
  BY <1>1, <1>2, FirstOfFacts
<1>4. T # {}
  BY <1>3, FS_EmptySet
<1> QED
  BY <1>1, <1>2, <1>3, <1>4

LEMMA AllIsFinite ==
    ASSUME StoresOK
    PROVE  /\ IsFiniteSet(All) /\ Cardinality(All) \in Nat
           /\ IsFiniteSet(DOMAIN stores)
           /\ \A c \in All : c.stamp \in Nat /\ \E i \in DOMAIN stores : c \in stores[i]
           /\ \A i \in DOMAIN stores : stores[i] \subseteq All
<1>1. stores \in Seq(Range(stores))
  BY DEF StoresOK
<1>2. DOMAIN stores = 1 .. Len(stores) /\ Len(stores) \in Nat /\ stores \in [1 .. Len(stores) -> Range(stores)]
  BY <1>1
<1>3. IsFiniteSet(1 .. Len(stores))
  BY <1>2, FS_Interval
<1>4. stores \in Surjection(1 .. Len(stores), Range(stores))
  BY <1>2 DEF Surjection, Range
<1>5. IsFiniteSet(Range(stores))
  BY <1>3, <1>4, FS_Surjection
<1>6. \A T \in Range(stores) : IsFiniteSet(T)
  BY DEF StoresOK, Range
<1>7. IsFiniteSet(All)
  BY <1>5, <1>6, FS_UNION DEF All
<1>8. Cardinality(All) \in Nat
  BY <1>7, FS_CardinalityType
<1>9. \A c \in All : \E i \in DOMAIN stores : c \in stores[i]
  BY DEF All, Range
<1>10. \A c \in All : c.stamp \in Nat
  BY <1>9 DEF StoresOK
<1>11. \A i \in DOMAIN stores : stores[i] \subseteq All
  BY DEF All, Range
<1> QED
  BY <1>2, <1>3, <1>7, <1>8, <1>9, <1>10, <1>11

\* What a store has of a collection, and what of it is on the page.
LEMMA PageParts ==
    ASSUME StoresOK, NEW author, NEW collection, NEW limit \in Nat, limit >= 1,
           NEW page \in SitePages(author, collection, limit), NEW c \in All, c \notin page,
           c.author = author, c.collection = collection
    PROVE  \E T \in SUBSET page :
              /\ T \subseteq InCollection(author, collection, All) /\ c \notin T
              /\ Cardinality(T) = limit /\ T # {}
              /\ \A d \in T : c.stamp <= d.stamp
<1>1. PICK pages \in [DOMAIN stores -> SUBSET All] :
         /\ \A i \in DOMAIN stores :
               pages[i] \in NewestOf(InCollection(author, collection, stores[i]), limit)
         /\ page = UNION Range(pages)
  BY DEF SitePages
<1>2. PICK i \in DOMAIN stores : c \in stores[i]
  BY AllIsFinite
<1>3. pages[i] \subseteq page
  BY <1>1, <1>2 DEF Range
<1> DEFINE S == InCollection(author, collection, stores[i])
<1>4. IsFiniteSet(stores[i]) /\ S \subseteq stores[i] /\ stores[i] \subseteq All
  BY <1>2, AllIsFinite DEF StoresOK, InCollection
<1>5. IsFiniteSet(S)
  BY <1>4, FS_Subset
<1>6. c \in S \ pages[i]
  BY <1>2, <1>3 DEF InCollection
<1>7. S \subseteq InCollection(author, collection, All)
  BY <1>4 DEF InCollection
<1>8. pages[i] \in NewestOf(S, limit)
  BY <1>1, <1>2
<1> HIDE DEF S
<1>9. /\ pages[i] \subseteq S /\ Cardinality(pages[i]) = limit /\ pages[i] # {}
      /\ \A d \in pages[i] : c.stamp <= d.stamp
  BY <1>5, <1>6, <1>8, NewestFacts
<1> QED
  BY <1>3, <1>6, <1>7, <1>9

LEMMA StoresAreNewest ==
    ASSUME StoresOK
    PROVE  NewestComeFirst
<1> SUFFICES ASSUME NEW c \in All, NEW limit \in 1 .. Cardinality(All),
                    NEW page \in SitePages(c.author, c.collection, limit),
                    Cardinality({d \in InCollection(c.author, c.collection, All) :
                                    d.stamp >= c.stamp /\ d # c}) < limit,
                    c \notin page
             PROVE  FALSE
  BY DEF NewestComeFirst
<1> DEFINE asNew == {d \in InCollection(c.author, c.collection, All) : d.stamp >= c.stamp /\ d # c}
<1>1. limit \in Nat /\ limit >= 1
  BY AllIsFinite
<1>2. PICK T \in SUBSET page :
         /\ T \subseteq InCollection(c.author, c.collection, All) /\ c \notin T
         /\ Cardinality(T) = limit
         /\ \A d \in T : c.stamp <= d.stamp
  BY <1>1, PageParts
<1>3. \A d \in T : d \in All /\ d.stamp \in Nat /\ c.stamp \in Nat
  BY <1>2, AllIsFinite DEF InCollection
<1>4. T \subseteq asNew
  <2>1. ASSUME NEW d \in T PROVE d.stamp >= c.stamp
    BY <2>1, <1>2, <1>3
  <2> QED
    BY <2>1, <1>2
<1>5. IsFiniteSet(asNew)
  <2>1. asNew \subseteq All
    BY DEF InCollection
  <2> QED
    BY <2>1, AllIsFinite, FS_Subset
<1>6. Cardinality(T) <= Cardinality(asNew) /\ Cardinality(asNew) \in Nat
  BY <1>4, <1>5, FS_Subset, FS_CardinalityType
<1>7. Cardinality(asNew) < limit
  OBVIOUS
<1> HIDE DEF asNew
<1> QED
  BY <1>1, <1>2, <1>6, <1>7

LEMMA StubsAreThere ==
    ASSUME StoresOK, NEW i \in DOMAIN stores, NEW c \in stores[i],
           NEW since \in 0 .. c.stamp, NEW limit \in 0 .. MaxStubs + 1,
           NEW page \in BrowsePages(c.collection, since, limit)
    PROVE  /\ <<i, c>> \notin page.stubs => page.hasMore
           /\ page.hasMore => Cardinality(page.stubs) = Capped(limit, MaxStubs)
<1> DEFINE cut == Capped(limit, MaxStubs)
           fitting == {stub \in (DOMAIN stores) \X All :
                          /\ stub[2] \in stores[stub[1]]
                          /\ c.collection \in {Uri, stub[2].collection}
                          /\ stub[2].stamp >= since}
<1>1. cut \in Nat
  BY ReadsAssumption DEF Capped
<1>2. PICK found \in FirstOf(cut + 1, fitting) :
          \E shown \in FirstOf(cut, found) :
             page = [stubs |-> shown, hasMore |-> Cardinality(found) > cut]
  BY DEF BrowsePages
<1>3. PICK stubs \in FirstOf(cut, found) :
         page = [stubs |-> stubs, hasMore |-> Cardinality(found) > cut]
  BY <1>2
<1>4. IsFiniteSet(fitting)
  <2>1. IsFiniteSet((DOMAIN stores) \X All)
    BY AllIsFinite, FS_Product
  <2> QED
    BY <2>1, FS_Subset
<1>5. <<i, c>> \in fitting
  <2>1. c.stamp \in Nat /\ c \in All
    BY AllIsFinite DEF StoresOK
  <2>2. c.stamp >= since
    BY <2>1
  <2> QED
    BY <2>1, <2>2
<1> HIDE DEF cut, fitting
<1>6. /\ IsFiniteSet(found) /\ Cardinality(found) \in Nat
      /\ Cardinality(fitting) <= cut + 1 => found = fitting
      /\ ~(Cardinality(fitting) <= cut + 1) => Cardinality(found) = cut + 1
  BY <1>1, <1>4, FirstOfFacts
<1>7. /\ Cardinality(found) <= cut => stubs = found
      /\ ~(Cardinality(found) <= cut) => Cardinality(stubs) = cut
  BY <1>1, <1>6, FirstOfFacts
<1>8. ASSUME ~(Cardinality(found) > cut) PROVE <<i, c>> \in stubs
  <2>1. Cardinality(found) <= cut /\ Cardinality(found) # cut + 1
    BY <1>1, <1>6, <1>8
  <2>2. found = fitting /\ stubs = found
    BY <2>1, <1>6, <1>7
  <2> QED
    BY <2>2, <1>5
<1>9. ASSUME Cardinality(found) > cut PROVE Cardinality(stubs) = cut
  <2>1. ~(Cardinality(found) <= cut)
    BY <1>1, <1>6, <1>9
  <2> QED
    BY <2>1, <1>7
<1>10. page.stubs = stubs /\ page.hasMore = (Cardinality(found) > cut)
  BY <1>3
<1>11. cut = Capped(limit, MaxStubs)
  BY DEF cut
<1> QED
  BY <1>8, <1>9, <1>10, <1>11

LEMMA StoresAgree ==
    ASSUME StoresOK
    PROVE  PagesAgree
<1> SUFFICES ASSUME NEW i \in DOMAIN stores, NEW c \in stores[i]
             PROVE  /\ \A since \in 0 .. c.stamp, limit \in 0 .. MaxStubs + 1 :
                          \A page \in BrowsePages(c.collection, since, limit) :
                              /\ <<i, c>> \notin page.stubs => page.hasMore
                              /\ page.hasMore => Cardinality(page.stubs) = Capped(limit, MaxStubs)
                    /\ c \in Resolved(c.author, c.collection, c.slug)
                    /\ \A collection \in Site(c.author) :
                          \A page \in SitePages(c.author, collection, 1) : page # {}
  BY DEF PagesAgree
<1>1. \A since \in 0 .. c.stamp, limit \in 0 .. MaxStubs + 1 :
         \A page \in BrowsePages(c.collection, since, limit) :
             /\ <<i, c>> \notin page.stubs => page.hasMore
             /\ page.hasMore => Cardinality(page.stubs) = Capped(limit, MaxStubs)
  BY StubsAreThere
<1>2. c \in Resolved(c.author, c.collection, c.slug)
  BY AllIsFinite DEF Resolved
<1>3. ASSUME NEW collection \in Site(c.author), NEW page \in SitePages(c.author, collection, 1)
      PROVE  page # {}
  <2>1. PICK d \in All : d.author = c.author /\ d.collection = collection
    BY DEF Site
  <2>2. CASE d \in page
    BY <2>2
  <2>3. CASE d \notin page
    BY <2>1, <2>3, PageParts
  <2> QED
    BY <2>2, <2>3
<1> QED
  BY <1>1, <1>2, <1>3

LEMMA ReadsInitInv ==
    ASSUME ReadsInit
    PROVE  WalkInv /\ StoresOK
  BY DEF ReadsInit, WalkInv, StoresOK, NoRequest, NoStores, Range

LEMMA ReadsStepInv ==
    ASSUME WalkInv, StoresOK, [ReadsNext]_readVars
    PROVE  WalkInv' /\ StoresOK'
<1>1. CASE Begin \/ Skip \/ Miss \/ Visit \/ Follow
  <2>1. WalkInv'
    BY <1>1, BeginWalk, SkipWalk, MissWalk, VisitWalk, FollowWalk
  <2>2. stores' = stores
    BY <1>1 DEF Begin, Skip, Miss, Visit, Shift, Follow
  <2> QED
    BY <2>1, <2>2 DEF StoresOK
<1>2. CASE ReadStores
  <2>1. WalkInv'
    BY <1>2, StayWalk DEF ReadStores
  <2>2. stores' \in Contents
    BY <1>2 DEF ReadStores
  <2>3. StoresOK'
    BY <2>2, ReadsAssumption DEF StoresOK
  <2> QED
    BY <2>1, <2>3
<1>3. CASE UNCHANGED readVars
  BY <1>3, StayWalk DEF readVars, StoresOK
<1> QED
  BY <1>1, <1>2, <1>3 DEF ReadsNext

THEOREM ReadsAnswerWhole == ReadsSpec => []ReadsAreWhole
<1>1. WalkInv /\ StoresOK => ReadsAreWhole
  BY WalkIsReach, StoresAreNewest, StoresAgree DEF ReadsAreWhole
<1>2. ReadsInit => WalkInv /\ StoresOK
  BY ReadsInitInv
<1>3. WalkInv /\ StoresOK /\ [ReadsNext]_readVars => WalkInv' /\ StoresOK'
  BY ReadsStepInv
<1> QED
  BY <1>1, <1>2, <1>3, PTL DEF ReadsSpec

-----------------------------------------------------------------------------
(***************************************************************************)
(* Sessions that ended.                                                    *)
(***************************************************************************)

\* What stop() cleared stays cleared, and start() is not to go on.
StoppedInv ==
    \A m \in Managers :
        /\ left[m] => phase[m] = "joined" /\ ~timer[m] /\ ~debounce[m] /\ ~listening[m]
        /\ phase[m] = "new" => ~timer[m] /\ ~first[m] /\ ~listening[m]

BuildsNoMore ==
    \A m \in Managers : left[m] /\ ~first[m] =>
        left'[m] /\ ~first'[m] /\ built'[m] \subseteq built[m]

LEMMA StoppedKept ==
    ASSUME ~Hasty, TypeOK, StoppedInv, [Next]_vars
    PROVE  StoppedInv' /\ (BuildsNoMore \/ UNCHANGED vars)
<1> USE DEF timerVars, indexVars
<1>1. ASSUME NEW m \in Managers, Start(m) PROVE StoppedInv' /\ BuildsNoMore
  <2>1. /\ phase[m] = "new" /\ left' = left /\ timer' = timer /\ debounce' = debounce /\ first' = first
        /\ built' = built
        /\ \A k \in Managers : k # m => phase'[k] = phase[k] /\ listening'[k] = listening[k]
        /\ phase'[m] = "joining"
    BY <1>1 DEF Start, TypeOK
  <2>2. ~left[m]
    BY <2>1 DEF StoppedInv
  <2>3. StoppedInv'
    BY <2>1, <2>2 DEF StoppedInv
  <2> QED
    BY <2>1, <2>3 DEF BuildsNoMore
<1>2. ASSUME NEW m \in Managers, Joined(m) PROVE StoppedInv' /\ BuildsNoMore
  <2>1. /\ phase[m] = "joining" /\ left' = left /\ debounce' = debounce /\ listening' = listening
        /\ built' = built
        /\ \A k \in Managers : k # m =>
              phase'[k] = phase[k] /\ timer'[k] = timer[k] /\ first'[k] = first[k]
        /\ phase'[m] = "joined"
    BY <1>2 DEF Joined, TypeOK
  <2>2. ~left[m]
    BY <2>1 DEF StoppedInv
  <2>3. StoppedInv'
    BY <2>1, <2>2 DEF StoppedInv
  <2> QED
    BY <2>1, <2>2, <2>3 DEF BuildsNoMore
<1>3. ASSUME NEW m \in Managers, Stop(m) PROVE StoppedInv' /\ BuildsNoMore
  <2>1. /\ phase[m] = "joined" /\ phase' = phase /\ first' = first /\ built' = built /\ ~left[m]
        /\ \A k \in Managers : k # m =>
              left'[k] = left[k] /\ timer'[k] = timer[k] /\ debounce'[k] = debounce[k]
              /\ listening'[k] = listening[k]
        /\ ~timer'[m] /\ ~debounce'[m] /\ ~listening'[m]
    BY <1>3 DEF Stop, TypeOK
  <2>2. StoppedInv'
    BY <2>1 DEF StoppedInv
  <2> QED
    BY <2>1, <2>2 DEF BuildsNoMore
<1>4. ASSUME NEW m \in Managers, Tick(m) PROVE StoppedInv' /\ BuildsNoMore
  <2>1. /\ timer[m] /\ UNCHANGED <<phase, left, listening, timer, first, debounce>>
        /\ \A k \in Managers : k # m => built'[k] = built[k]
    BY <1>4 DEF Tick, Build, TypeOK
  <2>2. ~left[m]
    BY <2>1 DEF StoppedInv
  <2> QED
    BY <2>1, <2>2 DEF StoppedInv, BuildsNoMore
<1>5. ASSUME NEW m \in Managers, FirstTick(m) PROVE StoppedInv' /\ BuildsNoMore
  <2>1. /\ first[m] /\ UNCHANGED <<phase, left, listening, timer, debounce>>
        /\ \A k \in Managers : k # m => built'[k] = built[k] /\ first'[k] = first[k]
        /\ ~first'[m]
    BY <1>5 DEF FirstTick, Build, TypeOK
  <2>2. phase[m] # "new"
    BY <2>1 DEF StoppedInv
  <2>3. StoppedInv'
    BY <2>1 DEF StoppedInv
  <2> QED
    BY <2>1, <2>3 DEF BuildsNoMore
<1>6. ASSUME NEW m \in Managers, Debounced(m) PROVE StoppedInv' /\ BuildsNoMore
  <2>1. /\ debounce[m] /\ UNCHANGED <<phase, left, listening, timer, first>>
        /\ \A k \in Managers : k # m => built'[k] = built[k] /\ debounce'[k] = debounce[k]
        /\ ~debounce'[m]
    BY <1>6 DEF Debounced, Build, TypeOK
  <2>2. ~left[m]
    BY <2>1 DEF StoppedInv
  <2>3. StoppedInv'
    BY <2>1, <2>2 DEF StoppedInv
  <2> QED
    BY <2>1, <2>2, <2>3 DEF BuildsNoMore
<1>7. ASSUME NEW m \in Managers, NEW manifest \in built[m], Broadcast(m, manifest)
      PROVE  StoppedInv' /\ BuildsNoMore
  <2>1. /\ UNCHANGED <<phase, left, listening, timer, first, debounce>>
        /\ \A k \in Managers : built'[k] \subseteq built[k]
    BY <1>7 DEF Broadcast, TypeOK
  <2> QED
    BY <2>1 DEF StoppedInv, BuildsNoMore
<1>8. ASSUME NEW n \in Nodes, NEW t \in Topics, Write(n, t) PROVE StoppedInv' /\ BuildsNoMore
  <2>1. /\ UNCHANGED <<phase, left, listening, timer, first, built>>
        /\ \A k \in Managers : debounce'[k] = debounce[k] \/ ~left[k]
    BY <1>8 DEF Write, InUse, TypeOK
  <2> QED
    BY <2>1 DEF StoppedInv, BuildsNoMore
<1>9. ASSUME NEW n \in Nodes, Rebroadcast(n) PROVE StoppedInv' /\ BuildsNoMore
  <2>1. /\ UNCHANGED <<phase, left, listening, timer, first, built>>
        /\ \A k \in Managers : debounce'[k] = (debounce[k] \/ (Host(k) = n /\ InUse(k)))
    BY <1>9 DEF Rebroadcast
  <2>2. \A k \in Managers : left[k] => ~InUse(k)
    BY DEF InUse
  <2>3. \A k \in Managers : left[k] /\ ~debounce[k] => ~debounce'[k]
    BY <2>1, <2>2
  <2> QED
    BY <2>1, <2>3 DEF StoppedInv, BuildsNoMore
<1>10. ASSUME NEW msg \in net, Deliver(msg) \/ Lose(msg) PROVE StoppedInv' /\ BuildsNoMore
  <2>1. UNCHANGED <<phase, left, listening, timer, first, debounce, built>>
    BY <1>10 DEF Deliver, Lose
  <2> QED
    BY <2>1 DEF StoppedInv, BuildsNoMore
<1>11. CASE UNCHANGED vars
  BY <1>11 DEF vars, StoppedInv
<1> QED
  BY <1>1, <1>2, <1>3, <1>4, <1>5, <1>6, <1>7, <1>8, <1>9, <1>10, <1>11 DEF Next

\* The safety half of StopIsFinal: a session that ended while none of its calls
\* was under way has no timer and does not listen, and from when the timer of
\* its first broadcast has run it builds no manifest (DiscoveryManager.stop).
THEOREM StoppedBuildsNoMore ==
    ASSUME ~Hasty
    PROVE  Spec => [][BuildsNoMore]_vars
<1>1. Init => StoppedInv
  BY DEF Init, StoppedInv
<1>2. TypeOK /\ StoppedInv /\ [Next]_vars => StoppedInv' /\ [BuildsNoMore]_vars
  BY StoppedKept
<1> QED
  BY TypeCorrect, <1>1, <1>2, PTL DEF Spec
=============================================================================
