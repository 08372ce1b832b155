---------------------------- MODULE Replication ----------------------------
(***************************************************************************)
(* Delta replication of one epoch store of a network between its agents:   *)
(* ReplicationManager (packages/core/src/replication.ts) of one namespace, *)
(* the request and notification lines it exchanges with its engine process *)
(* (engine-bridge.ts, engine/src/bridge.rs), and the gossip topic.         *)
(*                                                                         *)
(* A document is the set of operations it holds.  Each operation depends   *)
(* on everything its author had applied, and Loro keeps an operation aside *)
(* until all of that is there.  A broadcast sends the operations that are  *)
(* not in lastSyncVersion, and moves lastSyncVersion when the engine has   *)
(* answered; a NeighborUp notification resets it, so that the next         *)
(* broadcast carries the whole document to the new neighbour.              *)
(***************************************************************************)
EXTENDS Naturals, Sequences, FiniteSets, Functions

CONSTANTS
    Nodes,          \* the agents on the topic
    MaxWrites,      \* bound on writes
    MaxCalls,       \* bound on broadcasts of one agent that are under way
    MaxLinks,       \* bound on links that come up
    MaxRestarts,    \* bound on restarts
    MayRace,        \* whether a NeighborUp may reach a ReplicationManager
                    \* while one of its broadcasts is under way
    MayFail,        \* whether the engine may reject a broadcast
    Lossy           \* whether gossip may lose a message on a link that is up

ASSUME ReplicationAssumption ==
    /\ MaxWrites \in Nat
    /\ MaxCalls \in Nat
    /\ MaxLinks \in Nat
    /\ MaxRestarts \in Nat
    /\ MayRace \in BOOLEAN
    /\ MayFail \in BOOLEAN
    /\ Lossy \in BOOLEAN

VARIABLES
    written,        \* history: every operation ever made
    deps,           \* deps[op]: what its author had applied before
    received,       \* received[n]: what the document of n was given
    saved,          \* saved[n]: what the snapshot file of n holds
    lastSync,       \* lastSyncVersion of n; undefined is the empty set
    debounce,       \* whether the 50 ms timer of n is set
    calls,          \* broadcast requests the engine of n has not handled
    lines,          \* what the engine of n wrote and n has not read
    settled,        \* answers whose await has not resumed in n
    links,          \* pairs of agents that are gossip neighbours
    net,            \* net[n]: messages on their way to n
    aired,          \* history: what the engine of n has broadcast
    intact,         \* history: no message was lost on a link that stayed up
    linkups, restarts

storeVars == <<written, deps, received, saved>>
nodeVars  == <<lastSync, debounce, settled>>
pipeVars  == <<calls, lines>>
gossipVars == <<links, net, aired, intact>>
vars == <<storeVars, nodeVars, pipeVars, gossipVars, linkups, restarts>>

Ops == Nodes \X (1 .. MaxWrites)
Pairs == {{n, m} : n, m \in Nodes}

Call    == [delta : SUBSET Ops, version : SUBSET Ops]
Up      == [kind |-> "neighbor_up"]
Answer(v) == [kind |-> "answer", version |-> v]
Line    == {Up} \cup {Answer(v) : v \in SUBSET Ops}
Message == [from : Nodes, delta : SUBSET Ops]

Neighbors(n) == {m \in Nodes \ {n} : {n, m} \in links}

\* What reading the document shows: the operations whose past is complete.
Complete(S) == {op \in S : deps[op] \subseteq S}
Applied(n)  == Complete(received[n])

\* A NeighborUp the agent has not read; no broadcast of it under way; and how
\* many are.
UpPending(n) == Up \in Range(lines[n])
Idle(n)      == calls[n] = <<>> /\ Range(lines[n]) \subseteq {Up}
                                /\ settled[n] = <<>>
Underway(n)  == Len(calls[n]) + Len(settled[n])
                + Cardinality({i \in DOMAIN lines[n] : lines[n][i] # Up})

\* Lines that arrive in one chunk are read before an await resumes; nothing
\* else of the agent's process runs in between.
Quiet(n) == settled[n] = <<>>

TypeOK ==
    /\ written \in SUBSET Ops
    /\ IsFiniteSet(written)
    /\ deps \in [Ops -> SUBSET Ops]
    /\ received \in [Nodes -> SUBSET Ops]
    /\ saved \in [Nodes -> SUBSET Ops]
    /\ lastSync \in [Nodes -> SUBSET Ops]
    /\ debounce \in [Nodes -> BOOLEAN]
    /\ calls \in [Nodes -> Seq(Call)]
    /\ lines \in [Nodes -> Seq(Line)]
    /\ settled \in [Nodes -> Seq(SUBSET Ops)]
    /\ links \in SUBSET Pairs
    /\ net \in [Nodes -> SUBSET Message]
    /\ aired \in [Nodes -> SUBSET Ops]
    /\ intact \in BOOLEAN
    /\ linkups \in 0 .. MaxLinks
    /\ restarts \in 0 .. MaxRestarts

Init ==
    /\ written = {}
    /\ deps = [op \in Ops |-> {}]
    /\ received = [n \in Nodes |-> {}]
    /\ saved = [n \in Nodes |-> {}]
    /\ lastSync = [n \in Nodes |-> {}]
    /\ debounce = [n \in Nodes |-> FALSE]
    /\ calls = [n \in Nodes |-> <<>>]
    /\ lines = [n \in Nodes |-> <<>>]
    /\ settled = [n \in Nodes |-> <<>>]
    /\ links = {}
    /\ net = [n \in Nodes |-> {}]
    /\ aired = [n \in Nodes |-> {}]
    /\ intact = TRUE
    /\ linkups = 0
    /\ restarts = 0

-----------------------------------------------------------------------------
(***************************************************************************)
(* The agent's process.                                                    *)
(***************************************************************************)

\* A put or a forget: one commit, and 'changed' sets the debounce timer.
Write(n) ==
    LET op == <<n, Cardinality(written) + 1>> IN
    /\ Quiet(n)
    /\ Cardinality(written) < MaxWrites
    /\ written' = written \cup {op}
    /\ deps' = [deps EXCEPT ![op] = Applied(n)]
    /\ received' = [received EXCEPT ![n] = @ \cup {op}]
    /\ debounce' = [debounce EXCEPT ![n] = TRUE]
    /\ UNCHANGED <<saved, lastSync, settled, pipeVars, gossipVars, linkups,
                   restarts>>

\* The deferred save; operations that wait for others are not in a snapshot.
\* A file that no restart will read any more need not be followed.
Save(n) ==
    /\ Quiet(n)
    /\ restarts < MaxRestarts
    /\ saved' = [saved EXCEPT ![n] = Applied(n)]
    /\ UNCHANGED <<written, deps, received, nodeVars, pipeVars, gossipVars,
                   linkups, restarts>>

\* broadcastDelta up to the await of gossipBroadcast.
StartBroadcast(n) ==
    /\ Quiet(n)
    /\ Underway(n) < MaxCalls
    /\ MayRace \/ ~UpPending(n)
    /\ calls' = [calls EXCEPT ![n] =
                   Append(@, [delta   |-> Applied(n) \ lastSync[n],
                              version |-> Applied(n)])]

\* The debounce timer fires.
Debounced(n) ==
    /\ debounce[n]
    /\ debounce' = [debounce EXCEPT ![n] = FALSE]
    /\ StartBroadcast(n)
    /\ UNCHANGED <<storeVars, lastSync, settled, lines, gossipVars, linkups,
                   restarts>>

\* Mutant of Resync: lastSyncVersion moves before the engine has answered.
ResyncEager(n) ==
    /\ StartBroadcast(n)
    /\ lastSync' = [lastSync EXCEPT ![n] = Applied(n)]
    /\ UNCHANGED <<storeVars, debounce, settled, lines, gossipVars, linkups,
                   restarts>>

\* The resync timer fires.
Resync(n) ==
    /\ StartBroadcast(n)
    /\ UNCHANGED <<storeVars, nodeVars, lines, gossipVars, linkups, restarts>>

\* The next line of the engine: resetSyncVersion, or a call settles.
ReadLine(n) ==
    /\ lines[n] # <<>>
    /\ lines' = [lines EXCEPT ![n] = Tail(@)]
    /\ \/ /\ Head(lines[n]) = Up
          /\ lastSync' = [lastSync EXCEPT ![n] = {}]
          /\ UNCHANGED settled
       \/ /\ Head(lines[n]) # Up
          /\ settled' = [settled EXCEPT ![n] =
                           Append(@, Head(lines[n]).version)]
          /\ UNCHANGED lastSync
    /\ UNCHANGED <<storeVars, debounce, calls, gossipVars, linkups, restarts>>

\* Mutant of Advance: the version is taken after the await, not before it.
AdvanceLate(n) ==
    /\ settled[n] # <<>>
    /\ lastSync' = [lastSync EXCEPT ![n] = Applied(n)]
    /\ settled' = [settled EXCEPT ![n] = Tail(@)]
    /\ UNCHANGED <<storeVars, debounce, pipeVars, gossipVars, linkups,
                   restarts>>

\* broadcastDelta resumes.
Advance(n) ==
    /\ settled[n] # <<>>
    /\ lastSync' = [lastSync EXCEPT ![n] = Head(settled[n])]
    /\ settled' = [settled EXCEPT ![n] = Tail(@)]
    /\ UNCHANGED <<storeVars, debounce, pipeVars, gossipVars, linkups,
                   restarts>>

\* A message of another agent is imported; this does not emit 'changed'.
Deliver(n) ==
    \E msg \in net[n] :
        /\ received' = [received EXCEPT ![n] = @ \cup msg.delta]
        /\ net' = [net EXCEPT ![n] = @ \ {msg}]
        /\ UNCHANGED <<written, deps, saved, nodeVars, pipeVars, links,
                       aired, intact, linkups, restarts>>

-----------------------------------------------------------------------------
(***************************************************************************)
(* The engine and the gossip topic.                                        *)
(***************************************************************************)

\* The engine broadcasts: its neighbours get the message, and gossip may
\* carry it to others.  A delta without operations goes unnoticed.
EngineBroadcast(n) ==
    LET delta == Head(calls[n]).delta
        sent  == IF delta = {} THEN {} ELSE {[from |-> n, delta |-> delta]}
    IN
    /\ calls[n] # <<>>
    /\ \E far \in SUBSET ((UNION links) \ {n}) :
         net' = [m \in Nodes |-> IF m \in Neighbors(n) \cup far
                                 THEN net[m] \cup sent ELSE net[m]]
    /\ aired' = [aired EXCEPT ![n] = @ \cup delta]
    /\ calls' = [calls EXCEPT ![n] = Tail(@)]
    /\ lines' = [lines EXCEPT ![n] =
                   Append(@, Answer(Head(calls[n]).version))]
    /\ UNCHANGED <<storeVars, nodeVars, links, intact, linkups, restarts>>

\* The engine answers with an error, which the caller logs.
EngineRefuse(n) ==
    /\ MayFail
    /\ calls[n] # <<>>
    /\ calls' = [calls EXCEPT ![n] = Tail(@)]
    /\ UNCHANGED <<storeVars, nodeVars, lines, gossipVars, linkups, restarts>>

\* Two agents become neighbours, and both engines say so.
LinkUp(n, m) ==
    /\ n # m
    /\ {n, m} \notin links
    /\ linkups < MaxLinks
    /\ MayRace \/ (Idle(n) /\ Idle(m))
    /\ links' = links \cup {{n, m}}
    /\ lines' = [k \in Nodes |-> IF k \in {n, m} THEN Append(lines[k], Up)
                                 ELSE lines[k]]
    /\ linkups' = linkups + 1
    /\ UNCHANGED <<storeVars, nodeVars, calls, net, aired, intact, restarts>>

\* A link goes down with what travels on it.  NeighborDown is not forwarded.
LinkDown(n, m) ==
    /\ {n, m} \in links
    /\ links' = links \ {{n, m}}
    /\ \E lost \in SUBSET ({msg \in net[m] : msg.from = n}
                           \cup {msg \in net[n] : msg.from = m}) :
         net' = [net EXCEPT ![m] = @ \ lost, ![n] = @ \ lost]
    /\ UNCHANGED <<storeVars, nodeVars, pipeVars, aired, intact, linkups,
                   restarts>>

\* A receiver that lags is skipped.
Lose(n) ==
    /\ Lossy
    /\ \E msg \in net[n] : net' = [net EXCEPT ![n] = @ \ {msg}]
    /\ intact' = FALSE
    /\ UNCHANGED <<storeVars, nodeVars, pipeVars, links, aired, linkups,
                   restarts>>

\* The agent crashes and comes back with its snapshot file and a new engine.
Restart(n) ==
    /\ restarts < MaxRestarts
    /\ received' = [received EXCEPT ![n] = saved[n]]
    /\ lastSync' = [lastSync EXCEPT ![n] = {}]
    /\ debounce' = [debounce EXCEPT ![n] = FALSE]
    /\ settled' = [settled EXCEPT ![n] = <<>>]
    /\ calls' = [calls EXCEPT ![n] = <<>>]
    /\ lines' = [lines EXCEPT ![n] = <<>>]
    /\ links' = {l \in links : n \notin l}
    /\ \E lost \in SUBSET {msg \in UNION Range(net) : msg.from = n} :
         net' = [m \in Nodes |-> IF m = n THEN {} ELSE net[m] \ lost]
    /\ aired' = [aired EXCEPT ![n] = {}]
    /\ restarts' = restarts + 1
    /\ UNCHANGED <<written, deps, saved, intact, linkups>>

AgentStep(n) ==
    \/ Write(n)
    \/ Save(n)
    \/ Debounced(n)
    \/ Resync(n)
    \/ ReadLine(n)
    \/ Advance(n)
    \/ Deliver(n)

GossipStep(n) ==
    \/ EngineBroadcast(n)
    \/ EngineRefuse(n)
    \/ Lose(n)
    \/ Restart(n)

Next ==
    \/ \E n \in Nodes : AgentStep(n) \/ GossipStep(n)
    \/ \E n, m \in Nodes : LinkUp(n, m) \/ LinkDown(n, m)

Spec == Init /\ [][Next]_vars

\* Timers fire, the engine handles its requests and does not refuse them all,
\* its lines are read, awaits resume and gossip delivers.
Fairness ==
    \A n \in Nodes :
        /\ WF_vars(Resync(n))
        /\ SF_vars(EngineBroadcast(n))
        /\ WF_vars(ReadLine(n))
        /\ WF_vars(Advance(n))
        /\ WF_vars(Deliver(n))

FairSpec == Spec /\ Fairness

-----------------------------------------------------------------------------
(***************************************************************************)
(* Properties.                                                             *)
(***************************************************************************)

\* What m holds, or will when the messages of n on their way are delivered.
Coming(n, m) ==
    received[m] \cup UNION {msg.delta : msg \in {x \in net[m] : x.from = n}}

\* An agent leaves out of its deltas only what each neighbour has: what
\* lastSyncVersion covers has reached, or is about to reach, every neighbour
\* whose NeighborUp the agent has read, until a link loses a message.
SyncedIsDelivered ==
    intact => \A n \in Nodes : \A m \in Neighbors(n) :
                  ~UpPending(n) => lastSync[n] \subseteq Coming(n, m)

\* Whatever gossip loses and however calls and notifications interleave, an
\* agent leaves out of its deltas only what its engine has broadcast: a call
\* that fails is made good by the next one.
OmittedWasAired == \A n \in Nodes : lastSync[n] \subseteq aired[n]

\* What one agent made and no restart lost is not lost elsewhere: agents that
\* stay neighbours end with the same document, whatever was written, failed or
\* restarted before, unless a link that stayed up lost a message.
Converges ==
    <>[](intact => \A n \in Nodes : \A m \in Neighbors(n) :
                       Applied(n) = Applied(m))

=============================================================================
