----------------------------- MODULE Discovery ------------------------------
(***************************************************************************)
(* Discovery by manifests (packages/core/src/discovery.ts).  A daemon has  *)
(* a DiscoveryManager for its global session, which is given no stores,    *)
(* and one for each private network, with the stores of that network; all  *)
(* of them speak for the same peer, on the same gossip topic, over one     *)
(* engine (packages/core/src/network.ts).  A manifest is a Bloom filter    *)
(* with its sender's peer id, and the last one to arrive is the entry of   *)
(* that peer in the index of each manager that hears it.                   *)
(*                                                                         *)
(* Timers are abstracted to "some time later"; the filter of chunk ids and *)
(* the collections behave like the filter of topics and are left out, and  *)
(* so are the proof-of-work stamps, which a receiver checks one by one.    *)
(***************************************************************************)
EXTENDS Bloom, FiniteSets

CONSTANTS
    Nodes,          \* daemons
    Managers,       \* their sessions: <<node, "global">> or <<node, "psk">>
    MaxWrites,      \* bound on writes
    MaxBuilt,       \* bound on the manifests a manager is about to send
    MaxNet,         \* bound on messages under way
    MayForce,       \* whether a rebroadcast is asked for
    MayLeave,       \* whether sessions end
    Hasty           \* whether a session may end while its start() waits

ASSUME DiscoveryAssumption ==
    /\ Managers \subseteq Nodes \X {"global", "psk"}
    /\ MaxWrites \in Nat
    /\ MaxBuilt \in Nat \ {0}
    /\ MaxNet \in Nat \ {0}
    /\ MayForce \in BOOLEAN
    /\ MayLeave \in BOOLEAN
    /\ Hasty \in BOOLEAN

Host(m)  == m[1]
Topics   == Items

VARIABLES
    stock,          \* stock[n]: the topics of what is in the network's stores
    phase,          \* start() of a manager: new, joining (it waits for
                    \* gossipJoin) or joined
    left,           \* the session ended: its stop() has run
    listening,      \* gossipUnsub is set
    timer,          \* manifestTimer is set
    first,          \* the timer of the first broadcast runs
    debounce,       \* rebroadcastTimer is set
    built,          \* manifests that are built and not yet sent
    entry, heard,   \* peerIndex, and (history) the topics it was built from
    subscribed,     \* the engine joined the topic
    net,            \* gossip under way
    writes

timerVars == <<phase, left, listening, timer, first, debounce>>
indexVars == <<entry, heard>>
vars == <<stock, timerVars, built, indexVars, subscribed, net, writes>>

Manifest == [peer : Nodes, topicBloom : Filter, topics : SUBSET Topics]
Message  == [to : Nodes, manifest : Manifest]

TypeOK ==
    /\ stock \in [Nodes -> SUBSET Topics]
    /\ phase \in [Managers -> {"new", "joining", "joined"}]
    /\ left \in [Managers -> BOOLEAN]
    /\ listening \in [Managers -> BOOLEAN]
    /\ timer \in [Managers -> BOOLEAN]
    /\ first \in [Managers -> BOOLEAN]
    /\ debounce \in [Managers -> BOOLEAN]
    /\ built \in [Managers -> SUBSET Manifest]
    /\ entry \in [Managers -> [Nodes -> SUBSET Filter]]
    /\ heard \in [Managers -> [Nodes -> SUBSET Topics]]
    /\ subscribed \in [Nodes -> BOOLEAN]
    /\ net \subseteq Message
    /\ writes \in 0 .. MaxWrites

Init ==
    /\ stock = [n \in Nodes |-> {}]
    /\ phase = [m \in Managers |-> "new"]
    /\ left = [m \in Managers |-> FALSE]
    /\ listening = [m \in Managers |-> FALSE]
    /\ timer = [m \in Managers |-> FALSE]
    /\ first = [m \in Managers |-> FALSE]
    /\ debounce = [m \in Managers |-> FALSE]
    /\ built = [m \in Managers |-> {}]
    /\ entry = [m \in Managers |-> [n \in Nodes |-> {}]]
    /\ heard = [m \in Managers |-> [n \in Nodes |-> {}]]
    /\ subscribed = [n \in Nodes |-> FALSE]
    /\ net = {}
    /\ writes = 0

-----------------------------------------------------------------------------
(***************************************************************************)
(* start and stop.                                                         *)
(***************************************************************************)

\* start() up to gossipJoin.  joinNetwork calls it before the session exists;
\* joinGlobalNetwork leaves it to a timer of two seconds that nothing clears.
Start(m) ==
    /\ phase[m] = "new"
    /\ m[2] = "psk" => ~left[m]
    /\ phase' = [phase EXCEPT ![m] = "joining"]
    /\ listening' = [listening EXCEPT ![m] = TRUE]
    /\ UNCHANGED <<stock, left, timer, first, debounce, built, indexVars,
                   subscribed, net, writes>>

\* The rest of start(), after gossipJoin.
Joined(m) ==
    /\ phase[m] = "joining"
    /\ phase' = [phase EXCEPT ![m] = "joined"]
    /\ first' = [first EXCEPT ![m] = TRUE]
    /\ timer' = [timer EXCEPT ![m] = TRUE]
    /\ subscribed' = [subscribed EXCEPT ![Host(m)] = TRUE]
    /\ UNCHANGED <<stock, left, listening, debounce, built, indexVars, net, writes>>

\* Mutant of Stop: the interval is not cleared.
StopTicking(m) ==
    /\ MayLeave
    /\ ~left[m]
    /\ IF Hasty THEN m[2] = "psk" => phase[m] # "new" ELSE phase[m] = "joined"
    /\ left' = [left EXCEPT ![m] = TRUE]
    /\ debounce' = [debounce EXCEPT ![m] = FALSE]
    /\ listening' = [listening EXCEPT ![m] = FALSE]
    /\ UNCHANGED <<stock, phase, timer, first, built, indexVars, subscribed, net, writes>>

\* stop(), by leaveNetwork or leaveGlobalNetwork.  The topic is not left, and
\* the timer of the first broadcast goes on.
Stop(m) ==
    /\ MayLeave
    /\ ~left[m]
    /\ IF Hasty THEN m[2] = "psk" => phase[m] # "new" ELSE phase[m] = "joined"
    /\ left' = [left EXCEPT ![m] = TRUE]
    /\ timer' = [timer EXCEPT ![m] = FALSE]
    /\ debounce' = [debounce EXCEPT ![m] = FALSE]
    /\ listening' = [listening EXCEPT ![m] = FALSE]
    /\ UNCHANGED <<stock, phase, first, built, indexVars, subscribed, net, writes>>

-----------------------------------------------------------------------------
(***************************************************************************)
(* What a daemon has, and what it broadcasts.                              *)
(***************************************************************************)

\* The daemon has the session, so that requests find it.
InUse(m) == ~left[m] /\ (m[2] = "psk" => phase[m] # "new")

\* A request writes or forgets a chunk of the network, and calls
\* triggerRebroadcast when it writes one.
Write(n, t) ==
    /\ <<n, "psk">> \in Managers
    /\ InUse(<<n, "psk">>)
    /\ writes < MaxWrites
    /\ writes' = writes + 1
    /\ IF t \in stock[n]
       THEN /\ stock' = [stock EXCEPT ![n] = @ \ {t}]
            /\ UNCHANGED debounce
       ELSE /\ stock' = [stock EXCEPT ![n] = @ \cup {t}]
            /\ debounce' = [debounce EXCEPT ![<<n, "psk">>] = TRUE]
    /\ UNCHANGED <<phase, left, listening, timer, first, built, indexVars,
                   subscribed, net>>

\* POST /discovery/rebroadcast: all sessions of the daemon.
Rebroadcast(n) ==
    /\ MayForce
    /\ debounce' = [m \in Managers |->
                        debounce[m] \/ (Host(m) = n /\ InUse(m))]
    /\ UNCHANGED <<stock, phase, left, listening, timer, first, built, indexVars,
                   subscribed, net, writes>>

\* buildManifest.  The global session has no stores.
Held(m) == IF m[2] = "psk" THEN stock[Host(m)] ELSE {}

Build(m) ==
    /\ Cardinality(built[m]) < MaxBuilt
    /\ built' = [built EXCEPT ![m] = @ \cup
                {[peer |-> Host(m), topicBloom |-> From(Held(m)), topics |-> Held(m)]}]

\* The interval.
Tick(m) ==
    /\ timer[m]
    /\ Build(m)
    /\ UNCHANGED <<stock, timerVars, indexVars, subscribed, net, writes>>

FirstTick(m) ==
    /\ first[m]
    /\ first' = [first EXCEPT ![m] = FALSE]
    /\ Build(m)
    /\ UNCHANGED <<stock, phase, left, listening, timer, debounce, indexVars,
                   subscribed, net, writes>>

Debounced(m) ==
    /\ debounce[m]
    /\ debounce' = [debounce EXCEPT ![m] = FALSE]
    /\ Build(m)
    /\ UNCHANGED <<stock, phase, left, listening, timer, first, indexVars,
                   subscribed, net, writes>>

\* processManifestLocal.
Index(m, manifest) ==
    /\ entry' = [entry EXCEPT ![m][manifest.peer] = {manifest.topicBloom}]
    /\ heard' = [heard EXCEPT ![m][manifest.peer] = manifest.topics]

\* The rest of broadcastManifest: its own index, and gossip to who is there.
Broadcast(m, manifest) ==
    /\ manifest \in built[m]
    /\ Cardinality(net) < MaxNet
    /\ built' = [built EXCEPT ![m] = @ \ {manifest}]
    /\ Index(m, manifest)
    /\ net' = IF subscribed[Host(m)]
              THEN net \cup [to : {n \in Nodes \ {Host(m)} : subscribed[n]},
                             manifest : {manifest}]
              ELSE net
    /\ UNCHANGED <<stock, timerVars, subscribed, writes>>

\* Mutant of Deliver: the filter of a peer that is known stays.
DeliverFirst(msg) ==
    /\ msg \in net
    /\ net' = net \ {msg}
    /\ LET hearing == {m \in Managers : Host(m) = msg.to /\ listening[m]}
           p == msg.manifest.peer IN
        /\ entry' = [m \in Managers |->
                        IF m \in hearing THEN [entry[m] EXCEPT ![p] =
                            IF @ = {} THEN {msg.manifest.topicBloom} ELSE @] ELSE entry[m]]
        /\ heard' = [m \in Managers |->
                        IF m \in hearing THEN [heard[m] EXCEPT ![p] = msg.manifest.topics]
                        ELSE heard[m]]
    /\ UNCHANGED <<stock, timerVars, built, subscribed, writes>>

\* A gossip message reaches every manager of a daemon that listens; the topic
\* is the same for all.
Deliver(msg) ==
    /\ msg \in net
    /\ net' = net \ {msg}
    /\ LET hearing == {m \in Managers : Host(m) = msg.to /\ listening[m]}
           p == msg.manifest.peer IN
        /\ entry' = [m \in Managers |->
                        IF m \in hearing
                        THEN [entry[m] EXCEPT ![p] = {msg.manifest.topicBloom}]
                        ELSE entry[m]]
        /\ heard' = [m \in Managers |->
                        IF m \in hearing THEN [heard[m] EXCEPT ![p] = msg.manifest.topics]
                        ELSE heard[m]]
    /\ UNCHANGED <<stock, timerVars, built, subscribed, writes>>

Lose(msg) ==
    /\ msg \in net
    /\ net' = net \ {msg}
    /\ UNCHANGED <<stock, timerVars, built, indexVars, subscribed, writes>>

Next ==
    \/ \E m \in Managers :
        \/ Start(m)
        \/ Joined(m)
        \/ Stop(m)
        \/ Tick(m)
        \/ FirstTick(m)
        \/ Debounced(m)
        \/ \E manifest \in built[m] : Broadcast(m, manifest)
    \/ \E n \in Nodes : Rebroadcast(n) \/ \E t \in Topics : Write(n, t)
    \/ \E msg \in net : Deliver(msg) \/ Lose(msg)

Spec == Init /\ [][Next]_vars

\* Timers fire, calls of the bridge end, and of a message that is sent again
\* and again some copy arrives.  A broadcast goes out although MaxNet holds it
\* up from time to time.
Fairness ==
    /\ \A m \in Managers :
        /\ WF_vars(Start(m) \/ Joined(m))
        /\ WF_vars(Tick(m) \/ FirstTick(m) \/ Debounced(m))
        /\ SF_vars(\E manifest \in built[m] : Broadcast(m, manifest))
    /\ \A n \in Nodes : \A k \in Nodes \ {n} :
        SF_vars(\E msg \in net : msg.to = n /\ msg.manifest.peer = k /\ Deliver(msg))

FairSpec == Spec /\ Fairness

-----------------------------------------------------------------------------
(***************************************************************************)
(* Properties.                                                             *)
(***************************************************************************)

\* peerHasTopic: null for an unknown peer, else whether the filter has it.
KnowsPeer(m, n)        == entry[m][n] # {}
PeerHasTopic(m, n, t)  == \E filter \in entry[m][n] : Has(filter, t)

\* The filter never denies a topic of the manifest that was heard last.
NoFalseNegative ==
    \A m \in Managers, n \in Nodes :
        \A t \in heard[m][n] : PeerHasTopic(m, n, t)

\* While the two sessions last, a listener ends up with an answer that is not a
\* false "definitely not" for a topic that a peer has, for good.
DefinitelyNotIsTrue ==
    \A m \in Managers, n \in Nodes, t \in Topics :
        n # Host(m) =>
            (<>[](t \in stock[n] /\ ~left[m] /\ ~left[<<n, "psk">>])
                => <>[]PeerHasTopic(m, n, t))

\* A session that ended broadcasts no more, after what it was still about to.
StopIsFinal ==
    \A m \in Managers : left[m] ~> [](built[m] = {})

=============================================================================
