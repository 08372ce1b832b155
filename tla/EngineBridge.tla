---------------------------- MODULE EngineBridge ----------------------------
(***************************************************************************)
(* The bridge between the daemon and the Rust engine:                      *)
(* packages/core/src/engine-bridge.ts, the run loop of                     *)
(* packages/engine/src/bridge.rs, and the clients that share the one       *)
(* bridge of the daemon: joinNetwork and joinGlobalNetwork, which start    *)
(* the engine if it is not running, and leaveGlobalNetwork, which stops it *)
(* (packages/core/src/network.ts).                                         *)
(*                                                                         *)
(* A callback of Node with the microtasks it queues is one step: what      *)
(* awaits a promise goes on in the step that settles it.  Requests and     *)
(* answers are lines of two pipes, in order.  The exit of a process and    *)
(* the last lines it wrote are reported in either order.                   *)
(***************************************************************************)
EXTENDS Integers, SequencesExt

CONSTANTS
    Joins,          \* callers of joinNetwork or joinGlobalNetwork
    Leaver,         \* the caller of leaveGlobalNetwork
    MaxProcs,       \* bound on engine processes
    Concurrent,     \* whether joins overlap, or come after the leave
    MaxCrashes,     \* bound on crashes of an engine
    MayTimeout,     \* whether start() may wait for too long
    MayLeave        \* whether the daemon shuts down

ASSUME BridgeAssumption ==
    /\ MaxProcs \in Nat \ {0}
    /\ MaxCrashes \in Nat
    /\ Leaver \notin Joins
    /\ Concurrent \in BOOLEAN
    /\ MayTimeout \in BOOLEAN
    /\ MayLeave \in BOOLEAN

Procs  == 1 .. MaxProcs         \* in the order they are spawned
NoProc == 0                     \* null
Id     == [by : Joins, what : {"open", "join"}] \cup
          [by : {Leaver}, what : {"stop"}]
Line   == [kind : {"ready"}] \cup [kind : {"answer"}, id : Id, ok : BOOLEAN]

OpenCall(j) == [by |-> j, what |-> "open"]      \* engine.start
JoinCall(j) == [by |-> j, what |-> "join"]      \* gossip.join
StopCall    == [by |-> Leaver, what |-> "stop"] \* engine.stop

VARIABLES
    proc, started,      \* fields of the bridge
    pending,            \* its calls without an answer
    waiters,            \* the start() calls that listen for engine.ready
    join,               \* join[j]: where a joinNetwork call is
    leaving,            \* where the leaveGlobalNetwork call is
    spawned, life,      \* the processes, and what became of each
    signalled,          \* they were sent SIGTERM
    stdin, stdout,      \* what is in their pipes
    open, topics,       \* an engine's endpoint, and what it subscribed to
    crashes

bridgeVars == <<proc, started, pending, waiters>>
clientVars == <<join, leaving>>
procVars   == <<spawned, life, signalled, crashes>>
pipeVars   == <<stdin, stdout>>
engineVars == <<open, topics>>
vars == <<bridgeVars, clientVars, procVars, pipeVars, engineVars>>

TypeOK ==
    /\ proc \in Procs \cup {NoProc}
    /\ started \in BOOLEAN
    /\ pending \subseteq Id
    /\ waiters \in Seq(Joins)
    /\ join \in [Joins -> {"idle", "starting", "opening", "loading",
                           "joining", "joined", "failed"}]
    /\ leaving \in {"no", "calling", "done", "failed"}
    /\ spawned \in 0 .. MaxProcs
    /\ life \in [Procs -> {"none", "booting", "serving", "dead", "reaped"}]
    /\ signalled \in [Procs -> BOOLEAN]
    /\ stdin \in [Procs -> Seq(Id)]
    /\ stdout \in [Procs -> Seq(Line)]
    /\ open \in [Procs -> BOOLEAN]
    /\ topics \in [Procs -> SUBSET Joins]
    /\ crashes \in 0 .. MaxCrashes

Init ==
    /\ proc = NoProc
    /\ started = FALSE
    /\ pending = {}
    /\ waiters = <<>>
    /\ join = [j \in Joins |-> "idle"]
    /\ leaving = "no"
    /\ spawned = 0
    /\ life = [p \in Procs |-> "none"]
    /\ signalled = [p \in Procs |-> FALSE]
    /\ stdin = [p \in Procs |-> <<>>]
    /\ stdout = [p \in Procs |-> <<>>]
    /\ open = [p \in Procs |-> FALSE]
    /\ topics = [p \in Procs |-> {}]
    /\ crashes = 0

Alive(p)  == life[p] \in {"booting", "serving"}
IsRunning == started /\ proc # NoProc

-----------------------------------------------------------------------------
(***************************************************************************)
(* Calls.                                                                  *)
(***************************************************************************)

\* call() for each of these, in this order; with no process it throws.
Call(calls) ==
    IF proc = NoProc THEN UNCHANGED <<pending, stdin>>
    ELSE /\ pending' = pending \cup Range(calls)
         /\ stdin' = [stdin EXCEPT ![proc] = @ \o calls]

\* Where a join is after its call ended: joinNetwork catches and logs what
\* gossipJoin throws, but not what engineStart throws.
JoinAfter(id, ok) ==
    IF id.what = "join" THEN "joined" ELSE IF ok THEN "loading" ELSE "failed"

\* joinNetwork and joinGlobalNetwork up to their first wait.  On a bridge that
\* runs they go on to open the stores of the network.
JoinRunning(j) ==
    /\ join[j] = "idle"
    /\ IsRunning
    /\ join' = [join EXCEPT ![j] = "loading"]
    /\ UNCHANGED <<bridgeVars, leaving, procVars, pipeVars, engineVars>>

\* Mutant of JoinSpawns: the bridge counts as started from the spawn on.
JoinSpawnsStarted(j) ==
    /\ join[j] = "idle"
    /\ ~started
    /\ Concurrent \/ (waiters = <<>> /\ leaving = "no")
    /\ spawned < MaxProcs
    /\ spawned' = spawned + 1
    /\ life' = [life EXCEPT ![spawned + 1] = "booting"]
    /\ proc' = spawned + 1
    /\ started' = TRUE
    /\ waiters' = Append(waiters, j)
    /\ join' = [join EXCEPT ![j] = "starting"]
    /\ UNCHANGED <<pending, leaving, signalled, crashes, pipeVars, engineVars>>

\* start() spawns a process and waits for engine.ready.
JoinSpawns(j) ==
    /\ join[j] = "idle"
    /\ ~started
    /\ Concurrent \/ (waiters = <<>> /\ leaving = "no")
    /\ spawned < MaxProcs
    /\ spawned' = spawned + 1
    /\ life' = [life EXCEPT ![spawned + 1] = "booting"]
    /\ proc' = spawned + 1
    /\ waiters' = Append(waiters, j)
    /\ join' = [join EXCEPT ![j] = "starting"]
    /\ UNCHANGED <<started, pending, leaving, signalled, crashes, pipeVars,
                   engineVars>>

\* start() believes that the engine was started, and engineStart throws.
JoinStuck(j) ==
    /\ join[j] = "idle"
    /\ started /\ proc = NoProc
    /\ join' = [join EXCEPT ![j] = "failed"]
    /\ UNCHANGED <<bridgeVars, leaving, procVars, pipeVars, engineVars>>

\* The stores are open: gossipJoin.
Loaded(j) ==
    /\ join[j] = "loading"
    /\ Call(<<JoinCall(j)>>)
    /\ join' = [join EXCEPT ![j] = IF proc = NoProc THEN "joined" ELSE "joining"]
    /\ UNCHANGED <<proc, started, waiters, leaving, procVars, stdout, engineVars>>

\* The timer of start().  The process stays.
Timeout(j) ==
    /\ MayTimeout
    /\ join[j] = "starting"
    /\ \E i \in DOMAIN waiters :
        waiters[i] = j /\ waiters' = RemoveAt(waiters, i)
    /\ join' = [join EXCEPT ![j] = "failed"]
    /\ UNCHANGED <<proc, started, pending, leaving, procVars, pipeVars, engineVars>>

\* stop() up to its first wait.
Leave ==
    /\ MayLeave
    /\ leaving = "no"
    /\ Call(<<StopCall>>)
    /\ leaving' = IF proc = NoProc THEN "done" ELSE "calling"
    /\ UNCHANGED <<proc, started, waiters, join, procVars, stdout, engineVars>>

-----------------------------------------------------------------------------
(***************************************************************************)
(* What the daemon hears from its processes.                               *)
(***************************************************************************)

\* Mutant of Stopped: engine.stop is taken for the end of the process.
StoppedUnkilled ==
    /\ proc' = NoProc
    /\ started' = FALSE
    /\ leaving' = "done"
    /\ UNCHANGED signalled

\* The rest of stop(): it kills whatever process the bridge now has.
Stopped ==
    /\ signalled' = [signalled EXCEPT ![proc] = TRUE]
    /\ proc' = NoProc
    /\ started' = FALSE
    /\ leaving' = "done"

\* engine.ready, from any process, ends every start() that waits; each goes on
\* with engineStart.
HearReady(p) ==
    /\ stdout[p] # <<>> /\ Head(stdout[p]).kind = "ready"
    /\ stdout' = [stdout EXCEPT ![p] = Tail(@)]
    /\ started' = (started \/ waiters # <<>>)
    /\ waiters' = <<>>
    /\ Call([i \in DOMAIN waiters |-> OpenCall(waiters[i])])
    /\ join' = [j \in Joins |->
                    IF join[j] # "starting" THEN join[j]
                    ELSE IF proc = NoProc THEN "failed" ELSE "opening"]
    /\ UNCHANGED <<proc, leaving, procVars, engineVars>>

\* handleLine with the answer to a call; an unknown id is logged.
HearAnswer(p) ==
    /\ stdout[p] # <<>> /\ Head(stdout[p]).kind = "answer"
    /\ stdout' = [stdout EXCEPT ![p] = Tail(@)]
    /\ LET answer == Head(stdout[p]) IN
        /\ pending' = pending \ {answer.id}
        /\ IF answer.id = StopCall /\ StopCall \in pending
           THEN Stopped
           ELSE UNCHANGED <<signalled, proc, started, leaving>>
        /\ join' = [j \in Joins |->
                        IF answer.id.by = j /\ answer.id \in pending
                        THEN JoinAfter(answer.id, answer.ok) ELSE join[j]]
    /\ UNCHANGED <<waiters, spawned, life, crashes, stdin, engineVars>>

\* The process that a line was written for is gone, and the write fails.
WriteFails(p) ==
    /\ life[p] \in {"dead", "reaped"}
    /\ stdin[p] # <<>>
    /\ stdin' = [stdin EXCEPT ![p] = Tail(@)]
    /\ LET id == Head(stdin[p]) IN
        /\ pending' = pending \ {id}
        /\ IF id = StopCall /\ StopCall \in pending
           THEN Stopped
           ELSE UNCHANGED <<signalled, proc, started, leaving>>
        /\ join' = [j \in Joins |->
                        IF id.by = j /\ id \in pending
                        THEN JoinAfter(id, FALSE) ELSE join[j]]
    /\ UNCHANGED <<waiters, spawned, life, crashes, stdout, engineVars>>

\* Mutant of HearExit: the calls are rejected and the map is not cleared.
HearExitUncleared(p) ==
    /\ life[p] = "dead"
    /\ life' = [life EXCEPT ![p] = "reaped"]
    /\ proc' = NoProc
    /\ started' = FALSE
    /\ join' = [j \in Joins |->
                    IF OpenCall(j) \in pending THEN JoinAfter(OpenCall(j), FALSE)
                    ELSE IF JoinCall(j) \in pending THEN JoinAfter(JoinCall(j), FALSE)
                    ELSE join[j]]
    /\ leaving' = IF StopCall \in pending THEN "failed" ELSE leaving
    /\ UNCHANGED <<pending, waiters, spawned, signalled, crashes, pipeVars, engineVars>>

\* Mutant of HearExit: the calls are cleared and nobody is told.
HearExitSilent(p) ==
    /\ life[p] = "dead"
    /\ life' = [life EXCEPT ![p] = "reaped"]
    /\ pending' = {}
    /\ proc' = NoProc
    /\ started' = FALSE
    /\ UNCHANGED <<clientVars, waiters, spawned, signalled, crashes, pipeVars, engineVars>>

\* The 'exit' handler, of any process: it rejects every call and forgets the
\* bridge's process.  stop() then finds null where it wants to kill.
HearExit(p) ==
    /\ life[p] = "dead"
    /\ life' = [life EXCEPT ![p] = "reaped"]
    /\ pending' = {}
    /\ proc' = NoProc
    /\ started' = FALSE
    /\ join' = [j \in Joins |->
                    IF OpenCall(j) \in pending THEN JoinAfter(OpenCall(j), FALSE)
                    ELSE IF JoinCall(j) \in pending THEN JoinAfter(JoinCall(j), FALSE)
                    ELSE join[j]]
    /\ leaving' = IF StopCall \in pending THEN "failed" ELSE leaving
    /\ UNCHANGED <<waiters, spawned, signalled, crashes, pipeVars, engineVars>>

-----------------------------------------------------------------------------
(***************************************************************************)
(* The engine process.                                                     *)
(***************************************************************************)

\* Bridge::run announces readiness.
Boot(p) ==
    /\ life[p] = "booting"
    /\ life' = [life EXCEPT ![p] = "serving"]
    /\ stdout' = [stdout EXCEPT ![p] = Append(@, [kind |-> "ready"])]
    /\ UNCHANGED <<bridgeVars, clientVars, spawned, signalled, crashes, stdin, engineVars>>

\* handle_engine_start, handle_gossip_join and handle_engine_stop, of the loop
\* that takes one line at a time.  A topic needs an endpoint.
Handle(p) ==
    /\ life[p] = "serving"
    /\ stdin[p] # <<>>
    /\ stdin' = [stdin EXCEPT ![p] = Tail(@)]
    /\ LET id == Head(stdin[p]) IN
        /\ open' = [open EXCEPT ![p] = id.what = "open" \/ (@ /\ id.what # "stop")]
        /\ topics' = [topics EXCEPT ![p] =
                        CASE id.what = "stop" -> {}
                          [] id.what = "join" /\ open[p] -> @ \cup {id.by}
                          [] OTHER -> @]
        /\ stdout' = [stdout EXCEPT ![p] =
                        Append(@, [kind |-> "answer", id |-> id,
                                   ok |-> id.what = "join" => open[p]])]
    /\ UNCHANGED <<bridgeVars, clientVars, procVars>>

\* What was in its stdin is lost; what it wrote can still be read.
Ends(p) ==
    /\ life' = [life EXCEPT ![p] = "dead"]
    /\ stdin' = [stdin EXCEPT ![p] = <<>>]
    /\ open' = [open EXCEPT ![p] = FALSE]
    /\ topics' = [topics EXCEPT ![p] = {}]
    /\ UNCHANGED <<bridgeVars, clientVars, spawned, signalled, stdout>>

Terminate(p) ==
    /\ Alive(p) /\ signalled[p]
    /\ Ends(p)
    /\ UNCHANGED crashes

Crash(p) ==
    /\ Alive(p)
    /\ crashes < MaxCrashes
    /\ crashes' = crashes + 1
    /\ Ends(p)

-----------------------------------------------------------------------------
Hear(p)  == HearReady(p) \/ HearAnswer(p) \/ HearExit(p)
Serve(p) == Boot(p) \/ Handle(p) \/ Terminate(p)

Next ==
    \/ \E j \in Joins :
        \/ JoinRunning(j)
        \/ JoinSpawns(j)
        \/ JoinStuck(j)
        \/ Loaded(j)
        \/ Timeout(j)
    \/ Leave
    \/ \E p \in Procs :
        \/ HearReady(p)
        \/ HearAnswer(p)
        \/ HearExit(p)
        \/ WriteFails(p)
        \/ Boot(p)
        \/ Handle(p)
        \/ Terminate(p)
        \/ Crash(p)

Spec == Init /\ [][Next]_vars

\* The event loop of the daemon and the run loop of an engine go on, and a
\* timer fires.  Nobody has to call.
Fairness ==
    /\ \A p \in Procs :
        /\ WF_vars(HearReady(p) \/ HearAnswer(p))
        /\ WF_vars(HearExit(p))
        /\ WF_vars(Serve(p))
    /\ \A j \in Joins : WF_vars(Loaded(j)) /\ WF_vars(Timeout(j))

FairSpec == Spec /\ Fairness

-----------------------------------------------------------------------------
(***************************************************************************)
(* Properties.                                                             *)
(***************************************************************************)

Awaited ==
    {OpenCall(j) : j \in {k \in Joins : join[k] = "opening"}} \cup
    {JoinCall(j) : j \in {k \in Joins : join[k] = "joining"}} \cup
    (IF leaving = "calling" THEN {StopCall} ELSE {})

\* The pending map is who waits: no caller is forgotten by it (it would wait
\* for ever, for call() has no time-out), and no entry outlives its caller.
PendingIsAwaited == pending = Awaited

\* A bridge that says it is running has a process whose exit it was not told.
RunningWasNotReaped == IsRunning => life[proc] # "reaped"

\* What the bridge keeps of its callers and of its engine is what there is.
BridgeAgrees == TypeOK /\ PendingIsAwaited /\ RunningWasNotReaped

\* Every joinNetwork, joinGlobalNetwork and leaveGlobalNetwork returns.
EveryCallerReturns ==
    /\ \A j \in Joins :
        join[j] \in {"starting", "opening", "loading", "joining"}
            ~> join[j] \in {"joined", "failed"}
    /\ leaving = "calling" ~> leaving \in {"done", "failed"}

\* getDefaultBridge: the daemon shares a single engine.  No engine goes on
\* unknown to the bridge.
OneEngine == \A p \in Procs : Alive(p) /\ ~signalled[p] => p = proc

\* Where no two start() calls overlapped, none is left behind, whenever the
\* engine dies, start() gives up or leaveGlobalNetwork comes.
OneStartOneEngine == spawned <= 1 => OneEngine

\* As long as no engine died and nobody left, a network that was joined is
\* subscribed to on the engine in use, however the joins overlapped.
JoinedIsSubscribed ==
    crashes = 0 /\ leaving = "no" =>
        \A j \in Joins : join[j] = "joined" => IsRunning /\ j \in topics[proc]

\* The remedy call() names: after a start() that returns there is a process.
StartIsRemedy == started => proc # NoProc

\* Replication goes on after the engine was killed and started again.
Resubscribes ==
    \A j \in Joins :
        join[j] = "joined" /\ IsRunning ~> ~IsRunning \/ j \in topics[proc]

=============================================================================
