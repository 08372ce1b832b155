------------------------------ MODULE Sessions ------------------------------
(***************************************************************************)
(* The networks of one daemon: the Map of sessions, the list of networks   *)
(* in the configuration, and config.yaml, which a restart reads.           *)
(*                                                                         *)
(* POST and DELETE /networks (packages/daemon/src/api.ts) look at the Map, *)
(* wait for joinNetwork or leaveNetwork (packages/core/src/network.ts) and *)
(* change Map and configuration afterwards; saveConfig (config.ts) runs as *)
(* often at a time as it is called.  Shutdown (index.ts) leaves every      *)
(* session while requests are still served.                                *)
(***************************************************************************)
EXTENDS Naturals, FiniteSets, Sequences

CONSTANTS
    Nets,               \* networks, a PSK each
    Requests,           \* HTTP requests that can be under way at a time
    MaxSessions,        \* bound on the sessions that one process opens
    MaxRestarts,        \* bound on the ends of the process
    MaxFaults           \* bound on saves that fail

ASSUME SessionsAssumption ==
    /\ IsFiniteSet(Nets) /\ IsFiniteSet(Requests) /\ "main" \notin Requests
    /\ MaxSessions \in Nat /\ MaxRestarts \in Nat /\ MaxFaults \in Nat

NoRequest == [op |-> "none"]
Main   == "main"        \* the shutdown handler, which saves as well
Savers == Requests \cup {Main}
None   == 0

\* What config.yaml holds: networks, nothing at all, or what no YAML parser
\* accepts.
Texts == [kind : {"nets"}, nets : SUBSET Nets]
             \cup [kind : {"empty", "garbage"}, nets : {{}}]
Text(N)  == [kind |-> "nets", nets |-> N]
Empty    == [kind |-> "empty", nets |-> {}]
Garbage  == [kind |-> "garbage", nets |-> {}]

VARIABLES
    stage,              \* where the process is
    todo,               \* networks of the file that start-up has yet to join
    made,               \* the sessions opened so far
    map,                \* state.sessions: a network's session
    config,             \* state.config.networks
    file,               \* config.yaml
    req, at,            \* what a request asks for, and where it is
    held,               \* the session that a request or the shutdown leaves
    text,               \* what a save has turned into YAML
    done,               \* networks that the shutdown loop is past
    raced,              \* history: networks with two requests at a time
    late,               \* history: sessions set after sessions.clear()
    known,              \* history: what the last answer said of a network
    mixed, spoiled,     \* history: saves that overlapped; what they left
    restarts, faults

sessionVars == <<made, map, config>>
saveVars    == <<file, text, mixed, spoiled, faults>>
ghostVars   == <<raced, late, known>>
vars == <<stage, todo, sessionVars, req, at, held, done, saveVars, ghostVars, restarts>>

Stages == {"down", "starting", "serving", "leaving", "stopping", "closing", "exiting"}

TypeOK ==
    /\ stage \in Stages
    /\ todo \subseteq Nets
    /\ made \in Seq([net : Nets, phase : {"open", "closing", "closed"}])
    /\ Len(made) <= MaxSessions
    /\ map \in [Nets -> 0 .. Len(made)]
    /\ config \subseteq Nets
    /\ file \in Texts
    /\ at \in [Savers -> {"idle", "joining", "leaving", "saving", "opening", "writing"}]
    /\ req \in [Requests -> [op : {"post", "delete"}, net : Nets] \cup {NoRequest}]
    /\ held \in [Savers -> 0 .. Len(made)]
    /\ text \in [Savers -> SUBSET Nets]
    /\ done \subseteq Nets /\ raced \subseteq Nets
    /\ late \subseteq 1 .. Len(made)
    /\ known \in [Nets -> {"unknown", "joined", "left"}]
    /\ mixed \subseteq Savers /\ spoiled \in BOOLEAN
    /\ restarts \in 0 .. MaxRestarts /\ faults \in 0 .. MaxFaults

Nobody == [p \in Savers |-> None]

Init ==
    /\ stage = "down"
    /\ todo = {} /\ done = {} /\ raced = {} /\ late = {} /\ mixed = {}
    /\ made = <<>>
    /\ map = [n \in Nets |-> None]
    /\ config = {}
    /\ file = Empty
    /\ at = [p \in Savers |-> "idle"]
    /\ req = [r \in Requests |-> NoRequest]
    /\ held = Nobody
    /\ text = [p \in Savers |-> {}]
    /\ known = [n \in Nets |-> "unknown"]
    /\ spoiled = FALSE
    /\ restarts = 0 /\ faults = 0

-----------------------------------------------------------------------------
(***************************************************************************)
(* Start-up: main() joins the networks of the file before it listens.      *)
(***************************************************************************)

\* loadConfig: an empty file and one that does not parse are no networks.
Start ==
    /\ stage = "down"
    /\ stage' = "starting"
    /\ config' = file.nets
    /\ todo' = file.nets
    /\ known' = [n \in Nets |-> IF spoiled THEN "unknown" ELSE known[n]]
    /\ spoiled' = FALSE
    /\ UNCHANGED <<made, map, req, at, held, done, file, text, mixed, faults,
                   raced, late, restarts>>

Opened(n) == Append(made, [net |-> n, phase |-> "open"])

\* A network that cannot be joined stays in the configuration.
Rejoin(n) ==
    /\ stage = "starting" /\ n \in todo
    /\ todo' = todo \ {n}
    /\ \/ /\ Len(made) < MaxSessions
          /\ made' = Opened(n)
          /\ map' = [map EXCEPT ![n] = Len(made')]
       \/ UNCHANGED <<made, map>>
    /\ UNCHANGED <<stage, config, req, at, held, done, saveVars, ghostVars, restarts>>

Listen ==
    /\ stage = "starting" /\ todo = {}
    /\ stage' = "serving"
    /\ UNCHANGED <<todo, sessionVars, req, at, held, done, saveVars, ghostVars, restarts>>

-----------------------------------------------------------------------------
(***************************************************************************)
(* Requests.  Fastify answers them until app.close().                      *)
(***************************************************************************)

Busy(n) == \E q \in Requests : req[q] # NoRequest /\ req[q].net = n

Asked(r, n) ==
    /\ stage \in {"serving", "leaving", "stopping"}
    /\ req[r] = NoRequest
    /\ raced' = IF Busy(n) THEN raced \cup {n} ELSE raced

Accepted(r, op, n) ==
    /\ Asked(r, n)
    /\ req' = [req EXCEPT ![r] = [op |-> op, net |-> n]]

\* The request has its answer.
Answered(r) == req' = [req EXCEPT ![r] = NoRequest]

\* POST of a network that the Map has: 200.
PostPresent(r, n) ==
    /\ Asked(r, n)
    /\ map[n] # None
    /\ known' = [known EXCEPT ![n] = "joined"]
    /\ UNCHANGED <<stage, todo, sessionVars, req, at, held, done, saveVars, late, restarts>>

Post(r, n) ==
    /\ Accepted(r, "post", n)
    /\ map[n] = None
    /\ at' = [at EXCEPT ![r] = "joining"]
    /\ UNCHANGED <<stage, todo, sessionVars, held, done, saveVars, late, known, restarts>>

\* joinNetwork throws: 500.
PostFails(r) ==
    /\ at[r] = "joining"
    /\ Answered(r)
    /\ at' = [at EXCEPT ![r] = "idle"]
    /\ UNCHANGED <<stage, todo, sessionVars, held, done, saveVars, ghostVars, restarts>>

\* Mutant of PostJoined: the network is not saved.
PostJoinedUnsaved(r) ==
    /\ at[r] = "joining"
    /\ Len(made) < MaxSessions
    /\ made' = Opened(req[r].net)
    /\ map' = [map EXCEPT ![req[r].net] = Len(made')]
    /\ late' = IF stage \in {"stopping", "closing"} THEN late \cup {Len(made')} ELSE late
    /\ config' = config \cup {req[r].net}
    /\ Answered(r)
    /\ at' = [at EXCEPT ![r] = "idle"]
    /\ known' = [known EXCEPT ![req[r].net] = "joined"]
    /\ UNCHANGED <<stage, todo, held, done, saveVars, raced, restarts>>

\* joinNetwork answers.  A network that the configuration has is not saved.
PostJoined(r) ==
    /\ at[r] = "joining"
    /\ Len(made) < MaxSessions
    /\ made' = Opened(req[r].net)
    /\ map' = [map EXCEPT ![req[r].net] = Len(made')]
    /\ late' = IF stage \in {"stopping", "closing"} THEN late \cup {Len(made')} ELSE late
    /\ \/ /\ req[r].net \notin config
          /\ config' = config \cup {req[r].net}
          /\ at' = [at EXCEPT ![r] = "saving"]
          /\ UNCHANGED <<req, known>>
       \/ /\ req[r].net \in config
          /\ Answered(r)
          /\ at' = [at EXCEPT ![r] = "idle"]
          /\ known' = [known EXCEPT ![req[r].net] = "joined"]
          /\ UNCHANGED config
    /\ UNCHANGED <<stage, todo, held, done, saveVars, raced, restarts>>

\* leaveNetwork has been called for the session s.
Leaving(p, s) ==
    /\ at' = [at EXCEPT ![p] = "leaving"]
    /\ held' = [held EXCEPT ![p] = s]
    /\ made' = [made EXCEPT ![s].phase = IF @ = "open" THEN "closing" ELSE @]

\* leaveNetwork has answered: the stores are closed and the topic is left.
Left(p) == [made EXCEPT ![held[p]].phase = "closed"]

\* DELETE of a network that the Map has not is a 404.
Delete(r, n) ==
    /\ Accepted(r, "delete", n)
    /\ map[n] # None
    /\ Leaving(r, map[n])
    /\ UNCHANGED <<stage, todo, map, config, done, saveVars, late, known, restarts>>

\* Whatever session the Map has by now is dropped.
DeleteLeft(r) ==
    /\ at[r] = "leaving"
    /\ made' = Left(r)
    /\ map' = [map EXCEPT ![req[r].net] = None]
    /\ done' = done \ {req[r].net}
    /\ config' = config \ {req[r].net}
    /\ at' = [at EXCEPT ![r] = "saving"]
    /\ held' = [held EXCEPT ![r] = None]
    /\ UNCHANGED <<stage, todo, req, saveVars, ghostVars, restarts>>

-----------------------------------------------------------------------------
(***************************************************************************)
(* saveConfig: mkdir, then the YAML of that moment, then an open that      *)
(* truncates, then the write.                                              *)
(***************************************************************************)

Underway == {p \in Savers : at[p] \in {"opening", "writing"}}

Stringify(p) ==
    /\ at[p] = "saving"
    /\ at' = [at EXCEPT ![p] = "opening"]
    /\ text' = [text EXCEPT ![p] = config]
    /\ mixed' = IF Underway = {} THEN mixed ELSE mixed \cup Underway \cup {p}
    /\ UNCHANGED <<stage, todo, sessionVars, req, held, done, file, spoiled, faults,
                   ghostVars, restarts>>

Truncate(p) ==
    /\ at[p] = "opening"
    /\ at' = [at EXCEPT ![p] = "writing"]
    /\ file' = Empty
    /\ UNCHANGED <<stage, todo, sessionVars, req, held, done, text, mixed, spoiled,
                   faults, ghostVars, restarts>>

\* A shorter text over a longer one leaves the tail of the longer one.
Over(f, N) ==
    IF f.kind = "empty" \/ (f.kind = "nets" /\ Cardinality(N) >= Cardinality(f.nets))
    THEN Text(N) ELSE Garbage

\* The save is over, well or not, and whoever awaits it goes on.  Its errors
\* are swallowed.
SaveOver(p) ==
    /\ at' = [at EXCEPT ![p] = "idle"]
    /\ text' = [text EXCEPT ![p] = {}]
    /\ mixed' = mixed \ {p}
    /\ \/ /\ p = Main
          /\ stage' = "exiting"
          /\ UNCHANGED <<req, known>>
       \/ /\ p \in Requests
          /\ Answered(p)
          /\ known' = [known EXCEPT ![req[p].net] =
                           IF req[p].op = "post" THEN "joined" ELSE "left"]
          /\ UNCHANGED stage
    /\ UNCHANGED <<todo, sessionVars, held, done, raced, late, restarts>>

Write(p) ==
    /\ at[p] = "writing"
    /\ file' = Over(file, text[p])
    /\ spoiled' = (p \in mixed)
    /\ SaveOver(p)
    /\ UNCHANGED faults

\* The open or the write fails.
SaveFails(p) ==
    /\ at[p] \in {"opening", "writing"}
    /\ faults < MaxFaults
    /\ faults' = faults + 1
    /\ spoiled' = TRUE
    /\ SaveOver(p)
    /\ UNCHANGED file

-----------------------------------------------------------------------------
(***************************************************************************)
(* Shutdown.                                                               *)
(***************************************************************************)

Signal ==
    /\ stage = "serving"
    /\ stage' = "leaving"
    /\ UNCHANGED <<todo, sessionVars, req, at, held, done, saveVars, ghostVars, restarts>>

\* The iterator of a Map sees what is added behind it.
Ahead == {n \in Nets \ done : map[n] # None}

LeaveNext(n) ==
    /\ stage = "leaving" /\ at[Main] = "idle"
    /\ n \in Ahead
    /\ done' = done \cup {n}
    /\ Leaving(Main, map[n])
    /\ UNCHANGED <<stage, todo, map, config, req, saveVars, ghostVars, restarts>>

LeftNext ==
    /\ stage = "leaving" /\ at[Main] = "leaving"
    /\ made' = Left(Main)
    /\ at' = [at EXCEPT ![Main] = "idle"]
    /\ held' = [held EXCEPT ![Main] = None]
    /\ UNCHANGED <<stage, todo, map, config, req, done, saveVars, ghostVars, restarts>>

\* Mutant of ClearSessions: the loop takes the sessions there were at first.
ClearSessionsEarly ==
    /\ stage = "leaving" /\ at[Main] = "idle"
    /\ done # {} \/ Ahead = {}
    /\ stage' = "stopping"
    /\ map' = [n \in Nets |-> None]
    /\ done' = {}
    /\ UNCHANGED <<todo, made, config, req, at, held, saveVars, ghostVars, restarts>>

ClearSessions ==
    /\ stage = "leaving" /\ at[Main] = "idle"
    /\ Ahead = {}
    /\ stage' = "stopping"
    /\ map' = [n \in Nets |-> None]
    /\ done' = {}
    /\ UNCHANGED <<todo, made, config, req, at, held, saveVars, ghostVars, restarts>>

\* app.close() takes no more requests and waits for those it has.
CloseApp ==
    /\ stage = "stopping"
    /\ stage' = "closing"
    /\ UNCHANGED <<todo, sessionVars, req, at, held, done, saveVars, ghostVars, restarts>>

FinalSave ==
    /\ stage = "closing" /\ at[Main] = "idle"
    /\ \A r \in Requests : req[r] = NoRequest
    /\ at' = [at EXCEPT ![Main] = "saving"]
    /\ UNCHANGED <<stage, todo, sessionVars, req, held, done, saveVars, ghostVars, restarts>>

\* The process is gone, by exit or killed at any time.  What it was asked
\* and had not answered may or may not be in the file.
Down ==
    /\ stage # "down"
    /\ restarts < MaxRestarts
    /\ restarts' = restarts + 1
    /\ stage' = "down"
    /\ todo' = {} /\ done' = {} /\ raced' = {} /\ late' = {} /\ mixed' = {}
    /\ made' = <<>>
    /\ map' = [n \in Nets |-> None]
    /\ config' = {}
    /\ req' = [r \in Requests |-> NoRequest]
    /\ at' = [p \in Savers |-> "idle"]
    /\ held' = Nobody
    /\ text' = [p \in Savers |-> {}]
    /\ known' = [n \in Nets |-> IF Busy(n) \/ n \in raced THEN "unknown" ELSE known[n]]
    /\ spoiled' = (spoiled \/ \E p \in Savers : at[p] = "writing")
    /\ UNCHANGED <<file, faults>>

Next ==
    \/ Start \/ Listen
    \/ \E n \in Nets : Rejoin(n) \/ LeaveNext(n)
    \/ \E r \in Requests, n \in Nets : PostPresent(r, n) \/ Post(r, n) \/ Delete(r, n)
    \/ \E r \in Requests : PostFails(r) \/ PostJoined(r) \/ DeleteLeft(r)
    \/ \E p \in Savers : Stringify(p) \/ Truncate(p) \/ Write(p) \/ SaveFails(p)
    \/ Signal \/ LeftNext \/ ClearSessions \/ CloseApp \/ FinalSave
    \/ Down

Spec == Init /\ [][Next]_vars

-----------------------------------------------------------------------------
(***************************************************************************)
(* Properties.                                                             *)
(***************************************************************************)

\* Between saves the file says what the configuration says, unless two saves
\* overlapped or one of them failed and none has run since (saveConfig).
FileFollowsConfig ==
    (stage # "down" /\ ~spoiled /\ \A p \in Savers : at[p] \in {"idle", "joining", "leaving"})
        => file.nets = config

\* What the last answer said of a network still holds, restarts and kills in
\* between, unless two requests for it ran at a time or the save was spoiled:
\* a network that POST answered for is in the configuration, one that DELETE
\* answered for is neither there nor has it a session.
LastAnswerHolds ==
    \A n \in Nets \ raced : (stage \in {"starting", "serving"} /\ ~Busy(n)) =>
        /\ known[n] = "joined" => n \in config
        /\ known[n] = "left" => n \notin config /\ map[n] = None

\* Every session that is open is one that the Map has, so that the scheduler,
\* DELETE and shutdown find it, or somebody is leaving it.  Only requests that
\* race for one network, and one that shutdown did not wait for, lose one.
OpenIsListed ==
    \A s \in 1 .. Len(made) : made[s].phase # "closed" =>
        \/ map[made[s].net] = s
        \/ \E p \in Savers : held[p] = s
        \/ made[s].net \in raced
        \/ s \in late

\* A process that exits by itself has closed all its sessions, those that were
\* set while it was leaving the others too (shutdown in index.ts).
ExitLeavesNone ==
    stage = "exiting" =>
        \A s \in 1 .. Len(made) :
            made[s].phase = "closed" \/ made[s].net \in raced \/ s \in late

\* While the daemon runs and when it ends, no session is out of reach.
NoSessionIsLost == TypeOK /\ OpenIsListed /\ ExitLeavesNone

\* What the comments say and the code does not do.

\* No directory is opened while another session has it open (index.ts:314).
OneSessionPerNetwork ==
    \A s, t \in 1 .. Len(made) :
        s # t /\ made[s].net = made[t].net => "closed" \in {made[s].phase, made[t].phase}

\* A network that was answered 201 outlives a SIGKILL (api.ts:480), asked for
\* while no save failed and no two requests raced for it.
JoinOutlivesKill ==
    [][Start => \A n \in Nets : known[n] = "joined" => n \in config']_vars
=============================================================================
