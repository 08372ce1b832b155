------------------------------- MODULE Reads --------------------------------
(***************************************************************************)
(* What the daemon answers from the chunks it holds without changing them: *)
(* links and the traversal of the content graph                            *)
(* (packages/daemon/src/api.ts, packages/core/src/backlink-index.ts), the  *)
(* resolution of agent:// URIs, the pages of a site, and the page of stubs *)
(* that another agent is shown (packages/core/src/browse-protocol.ts).     *)
(*                                                                         *)
(* A graph is a function of the ids that are there to their links, each    *)
(* with a target and a relation.  The traversal is its two loops, a step   *)
(* for each turn of one.                                                   *)
(*                                                                         *)
(* A store is the set of what its list() answers, heads without            *)
(* tombstones, and stores is the sequence of the stores of all sessions.   *)
(* In which order a store lists them is open, so that a page is any of     *)
(* those that some order makes.                                            *)
(***************************************************************************)
EXTENDS Integers, SequencesExt

CONSTANTS
    Names,          \* ids that chunks and links can have
    Rels,           \* relations of links
    MaxHops,        \* the cap on the hops of a traversal
    MaxStubs,       \* the cap on the stubs of a page
    Graphs,         \* the graphs that are traversed
    Requests,       \* the bodies of POST /memory/graph
    Contents        \* the sequences of stores that are read

Uri == 0            \* the target of a link to a site, which is no id

LinkType == [target : Names \cup {Uri}, rel : Rels]

ASSUME ReadsAssumption ==
    /\ Uri \notin Names
    /\ MaxHops \in Nat /\ MaxStubs \in Nat
    /\ \A g \in Graphs : DOMAIN g \subseteq Names /\ g \in [DOMAIN g -> Seq(LinkType)]
    /\ Requests \subseteq [start : Names, rels : SUBSET Rels, maxDepth : Nat]
    /\ \A s \in Contents :
          /\ s \in Seq(Range(s))
          /\ \A i \in DOMAIN s : IsFiniteSet(s[i]) /\ \A c \in s[i] : c.stamp \in Nat

VARIABLES
    graph,          \* allChunksById, with the links of its chunks
    request,        \* the body of the request
    queue,          \* what was ever pushed, and with it the edge
    taken,          \* how much of it was shifted
    visited,        \* the Set of that name
    nodes,          \* the nodes of the answer
    link,           \* the turn of the inner loop, 0 outside of it
    stores          \* the stores of all sessions

walkVars == <<queue, taken, visited, nodes, link>>
readVars == <<graph, request, walkVars, stores>>

NoRequest == [start |-> Uri, rels |-> {}, maxDepth |-> 0]
NoStores == <<>>

ReadsInit ==
    /\ graph = <<>> /\ request = NoRequest /\ stores = NoStores
    /\ queue = <<>> /\ taken = 0 /\ visited = {} /\ nodes = <<>> /\ link = 0

Capped(n, cap) == IF n < cap THEN n ELSE cap

-----------------------------------------------------------------------------
(***************************************************************************)
(* POST /memory/graph.                                                     *)
(***************************************************************************)

\* getLinks: the links of a chunk, and what it supersedes, unless it has that
\* among its links.
Links(links, supersedes) ==
    LET own == [target |-> supersedes, rel |-> "supersedes"]
    IN  IF supersedes = Uri \/ Contains(links, own) THEN links ELSE Append(links, own)

Depth == Capped(request.maxDepth, MaxHops)

Here == queue[taken]

\* What the queue holds: an id, its depth, and the link that led to it.
Entry(id, depth, source, at) == [id |-> id, depth |-> depth, source |-> source, link |-> at]

\* Mutant of Enqueue: what was found last is visited first.
EnqueueFirst(entry) == InsertAt(queue, taken + 1, entry)

Enqueue(entry) == Append(queue, entry)

\* The chunks of all sessions are what they are when the request comes.
Begin ==
    /\ request = NoRequest /\ stores = NoStores
    /\ graph' \in Graphs
    /\ request' \in Requests
    /\ queue' = <<Entry(request'.start, 0, Uri, 0)>>
    /\ UNCHANGED <<taken, visited, nodes, link, stores>>

Shift ==
    /\ link = 0 /\ taken < Len(queue)
    /\ taken' = taken + 1
    /\ UNCHANGED <<graph, request, queue, stores>>

Skip ==
    /\ Shift
    /\ queue[taken + 1].id \in visited
    /\ UNCHANGED <<visited, nodes, link>>

Miss ==
    /\ Shift
    /\ LET id == queue[taken + 1].id IN
          /\ id \notin visited \cup DOMAIN graph
          /\ visited' = visited \cup {id}
    /\ UNCHANGED <<nodes, link>>

Visit ==
    /\ Shift
    /\ LET id == queue[taken + 1].id IN
          /\ id \in DOMAIN graph \ visited
          /\ visited' = visited \cup {id}
          /\ nodes' = Append(nodes, id)
          /\ link' = IF queue[taken + 1].depth < Depth /\ graph[id] # <<>> THEN 1 ELSE 0

\* A turn of the loop over the links of the chunk.
Follow ==
    /\ link # 0
    /\ LET to == graph[Here.id][link] IN
          queue' = IF to.rel \in request.rels /\ to.target \notin visited \cup {Uri}
                   THEN Enqueue(Entry(to.target, Here.depth + 1, Here.id, link))
                   ELSE queue
    /\ link' = IF link < Len(graph[Here.id]) THEN link + 1 ELSE 0
    /\ UNCHANGED <<graph, request, taken, visited, nodes, stores>>

Answered == request # NoRequest /\ taken = Len(queue) /\ link = 0

-----------------------------------------------------------------------------
(***************************************************************************)
(* Stores.                                                                 *)
(***************************************************************************)

ReadStores ==
    /\ request = NoRequest /\ stores = NoStores
    /\ stores' \in Contents
    /\ UNCHANGED <<graph, request, walkVars>>

ReadsNext ==
    \/ Begin \/ Skip \/ Miss \/ Visit \/ Follow
    \/ ReadStores

ReadsSpec == ReadsInit /\ [][ReadsNext]_readVars

All == UNION Range(stores)

\* What the first n of a list with these elements may be.
FirstOf(n, S) == IF Cardinality(S) <= n THEN {S} ELSE kSubset(n, S)

\* GET /resolve: what fits, of those that ask for no more than the URI gives.
\* No session has a peer to ask for others.
Resolved(author, collection, slug) ==
    {c \in All : /\ c.author = author
                 /\ collection \in {Uri, c.collection}
                 /\ slug \in {Uri, c.slug}}

\* GET /site/:peerId: the collections.
Site(author) == {c.collection : c \in {d \in All : d.author = author}} \ {Uri}

\* applyQuery: sorted, and cut if there is a limit.
NewestOf(chunks, limit) ==
    IF limit = 0 THEN {chunks}
    ELSE {first \in FirstOf(limit, chunks) :
             \A c \in first, d \in chunks \ first : d.stamp <= c.stamp}

InCollection(author, collection, chunks) ==
    {c \in chunks : c.author = author /\ c.collection = collection}

\* GET /site/:peerId/:collection: each store has the limit to itself.
SitePages(author, collection, limit) ==
    {UNION Range(pages) : pages \in
        {p \in [DOMAIN stores -> SUBSET All] : \A i \in DOMAIN stores :
            p[i] \in NewestOf(InCollection(author, collection, stores[i]), limit)}}

\* registerBrowseProtocol: the loops end with one stub more than the page has,
\* if there is one.  A stub is of a chunk in a store.
BrowsePages(collection, since, limit) ==
    LET cut == Capped(limit, MaxStubs)
        fitting == {stub \in (DOMAIN stores) \X All :
                       /\ stub[2] \in stores[stub[1]]
                       /\ collection \in {Uri, stub[2].collection}
                       /\ stub[2].stamp >= since}
    IN  UNION {{[stubs |-> page, hasMore |-> Cardinality(found) > cut] :
                   page \in FirstOf(cut, found)} : found \in FirstOf(cut + 1, fitting)}

-----------------------------------------------------------------------------
(***************************************************************************)
(* What the answers promise.                                               *)
(***************************************************************************)

LinkedTo(x, y) == \E i \in DOMAIN graph[x] :
    graph[x][i].rel \in request.rels /\ graph[x][i].target = y

\* There is a path of n chunks that are there from the start to y.
IsNear(y, n) ==
    \E p \in [1 .. n -> DOMAIN graph] :
        /\ p[1] = request.start /\ p[n] = y
        /\ \A i \in 1 .. n - 1 : LinkedTo(p[i], p[i + 1])

\* The traversal answers every chunk within the hops and none beyond, each
\* once, however the links loop or meet; it follows no link twice, so that it
\* ends, and every chunk but the first is at the end of an edge that leads to
\* it from a chunk that is answered (POST /memory/graph).
GraphIsReach ==
    /\ IsInjective(nodes)
    /\ \A a, b \in 2 .. Len(queue) :
          queue[a].source = queue[b].source /\ queue[a].link = queue[b].link => a = b
    /\ \A a \in 2 .. Len(queue) :
          /\ queue[a].source \in Range(nodes)
          /\ queue[a].link \in DOMAIN graph[queue[a].source]
          /\ graph[queue[a].source][queue[a].link].target = queue[a].id
    /\ \A id \in Range(nodes) \ {request.start} : \E a \in 2 .. Len(queue) : queue[a].id = id
    /\ Answered => Range(nodes) = {y \in DOMAIN graph : \E n \in 1 .. Depth + 1 : IsNear(y, n)}

\* A chunk is on the page of its collection if fewer than the limit are as
\* new, whichever stores they are in (GET /site/:peerId/:collection).
NewestComeFirst ==
    \A c \in All : \A limit \in 1 .. Cardinality(All) :
        LET asNew == {d \in InCollection(c.author, c.collection, All) : d.stamp >= c.stamp /\ d # c}
        IN  Cardinality(asNew) < limit =>
                \A page \in SitePages(c.author, c.collection, limit) : c \in page

\* A page of stubs misses a chunk that fits only if it says that there is more,
\* and then it is full; and who asks for a site is told of a collection only if
\* the page of it is not empty.
PagesAgree ==
    \A i \in DOMAIN stores : \A c \in stores[i] :
        /\ \A since \in 0 .. c.stamp, limit \in 0 .. MaxStubs + 1 :
              \A page \in BrowsePages(c.collection, since, limit) :
                  /\ <<i, c>> \notin page.stubs => page.hasMore
                  /\ page.hasMore => Cardinality(page.stubs) = Capped(limit, MaxStubs)
        /\ c \in Resolved(c.author, c.collection, c.slug)
        /\ \A collection \in Site(c.author) :
              \A page \in SitePages(c.author, collection, 1) : page # {}

ReadsAreWhole == GraphIsReach /\ NewestComeFirst /\ PagesAgree
=============================================================================
