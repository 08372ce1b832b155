------------------------------- MODULE Browse -------------------------------
(***************************************************************************)
(* One agent browses the site of another: GET /browse/:peerId of           *)
(* packages/daemon/src/api.ts, the calls and notifications of              *)
(* packages/core/src/engine-bridge.ts, both ends of the browse protocol    *)
(* (packages/engine/src/browse.rs) and the handler of                      *)
(* packages/core/src/browse-protocol.ts.                                   *)
(*                                                                         *)
(* An engine takes one line of its stdin at a time and waits for the end   *)
(* of what it asks; meanwhile it neither takes the next one nor writes a   *)
(* notification (Bridge::run).  Requests from other engines are served by  *)
(* tasks of their own.  The computation of a page is BrowsePage of Reads.  *)
(***************************************************************************)
EXTENDS Integers, SequencesExt

CONSTANTS
    Agents,
    Visits,         \* GET requests: [from, to, collection]
    IdOf,           \* IdOf[v]: the request_id that the engine makes for it
    Patient,        \* whether ten seconds are enough for all but those who wait
                    \* for each other
    MaxEnds         \* bound on engines that die

ASSUME BrowseAssumption ==
    /\ \A v \in Visits : v.from \in Agents /\ v.to \in Agents \ {v.from}
    /\ DOMAIN IdOf = Visits
    /\ Patient \in BOOLEAN
    /\ MaxEnds \in Nat

VARIABLES
    visit,          \* visit[v]: where the GET is
    task,           \* task[v]: where the task that serves it is
    answer,         \* answer[v]: {}, or the page that came with the response
    busy,           \* busy[n]: the visit that the loop of the engine waits for
    lines,          \* lines[n]: what is in the stdin of the engine
    notices,        \* notices[n]: notifications that wait to be written
    heard,          \* heard[n]: visits that the daemon was notified of
    pendingBrowse,  \* pendingBrowse[n]: the map of request ids, as pairs
    running         \* running[n]: the engine is

browseVars == <<visit, task, answer, busy, lines, notices, heard, pendingBrowse, running>>

Page(v)   == <<v.to, v.collection>>
EmptyPage == <<>>

\* Lines of stdin: a browse.from, or a browse.respond with a page.
From(v)          == [kind |-> "from", visit |-> v, page |-> EmptyPage]
RespondWith(v, p) == [kind |-> "respond", visit |-> v, page |-> p]

\* What a daemon writes to its engine: its own requests, and pages that are the
\* ones that were asked for, or empty.
LinesOf(n) ==
    {From(v) : v \in {w \in Visits : w.from = n}}
        \cup {RespondWith(v, Page(v)) : v \in Visits}
        \cup {RespondWith(v, EmptyPage) : v \in Visits}

BrowseTypeOK ==
    /\ visit \in [Visits -> {"none", "asked", "sent", "done", "failed"}]
    /\ task \in [Visits -> {"none", "dialled", "waiting", "served"}]
    /\ DOMAIN answer = Visits
    /\ busy \in [Agents -> SUBSET Visits]
    /\ DOMAIN lines = Agents /\ \A n \in Agents : lines[n] \in Seq(LinesOf(n))
    /\ notices \in [Agents -> Seq(Visits)]
    /\ heard \in [Agents -> SUBSET Visits]
    /\ DOMAIN pendingBrowse = Agents
    /\ running \in [Agents -> BOOLEAN]

BrowseInit ==
    /\ visit = [v \in Visits |-> "none"]
    /\ task = [v \in Visits |-> "none"]
    /\ answer = [v \in Visits |-> {}]
    /\ busy = [n \in Agents |-> {}]
    /\ lines = [n \in Agents |-> <<>>]
    /\ notices = [n \in Agents |-> <<>>]
    /\ heard = [n \in Agents |-> {}]
    /\ pendingBrowse = [n \in Agents |-> {}]
    /\ running = [n \in Agents |-> TRUE]

-----------------------------------------------------------------------------
(***************************************************************************)
(* The side that asks.                                                     *)
(***************************************************************************)

\* GET /browse/:peerId up to its wait, or the 503.
Get(v) ==
    /\ visit[v] = "none"
    /\ visit' = [visit EXCEPT ![v] = IF running[v.from] THEN "asked" ELSE "failed"]
    /\ lines' = IF running[v.from] THEN [lines EXCEPT ![v.from] = Append(@, From(v))] ELSE lines
    /\ UNCHANGED <<task, answer, busy, notices, heard, pendingBrowse, running>>

Takes(n, kind) ==
    /\ running[n]
    /\ busy[n] = {}
    /\ lines[n] # <<>> /\ Head(lines[n]).kind = kind

\* The loop takes a browse.from, and send_browse_wire up to its wait for the
\* answer; an engine that is gone cannot be dialled.
TakeFrom(n) ==
    /\ Takes(n, "from")
    /\ lines' = [lines EXCEPT ![n] = Tail(@)]
    /\ LET v == Head(lines[n]).visit
       IN  IF running[v.to]
           THEN /\ visit' = [visit EXCEPT ![v] = "sent"]
                /\ task' = [task EXCEPT ![v] = "dialled"]
                /\ busy' = [busy EXCEPT ![n] = {v}]
           ELSE /\ visit' = [visit EXCEPT ![v] = "failed"]
                /\ UNCHANGED <<task, busy>>
    /\ UNCHANGED <<answer, notices, heard, pendingBrowse, running>>

\* The answer arrives, or the connection is lost with the other engine.
TakeAnswer(v) ==
    /\ visit[v] = "sent"
    /\ \/ task[v] = "served" /\ visit' = [visit EXCEPT ![v] = "done"]
       \/ ~running[v.to] /\ visit' = [visit EXCEPT ![v] = "failed"]
    /\ busy' = [busy EXCEPT ![v.from] = {}]
    /\ UNCHANGED <<task, answer, lines, notices, heard, pendingBrowse, running>>

-----------------------------------------------------------------------------
(***************************************************************************)
(* The side that is asked.                                                 *)
(***************************************************************************)

\* The entry of an id in the map, if there is one, and whom it wakes.
Entries(n, id) == {e \in pendingBrowse[n] : e[1] = id}
Woken(entries) == {e[2] : e \in entries}

\* Tasks write their response.
Serve(vs, page) ==
    /\ task' = [v \in Visits |-> IF v \in vs THEN "served" ELSE task[v]]
    /\ answer' = [v \in Visits |-> IF v \in vs THEN {page} ELSE answer[v]]

\* handle_incoming up to its wait.  An entry with the same id is replaced, and
\* the task that waited for it answers with an empty page.
Accept(v) ==
    /\ task[v] = "dialled"
    /\ running[v.to]
    /\ LET replaced == Entries(v.to, IdOf[v])
       IN  /\ pendingBrowse' = [pendingBrowse EXCEPT ![v.to] = (@ \ replaced) \cup {<<IdOf[v], v>>}]
           /\ task' = [w \in Visits |-> IF w = v THEN "waiting"
                                        ELSE IF w \in Woken(replaced) THEN "served" ELSE task[w]]
           /\ answer' = [w \in Visits |-> IF w \in Woken(replaced) THEN {EmptyPage} ELSE answer[w]]
    /\ notices' = [notices EXCEPT ![v.to] = Append(@, v)]
    /\ UNCHANGED <<visit, busy, lines, heard, running>>

\* The loop writes a notification, and handleNotification hands it on.
Notify(n) ==
    /\ running[n]
    /\ busy[n] = {}
    /\ notices[n] # <<>>
    /\ notices' = [notices EXCEPT ![n] = Tail(@)]
    /\ heard' = [heard EXCEPT ![n] = @ \cup {Head(notices[n])}]
    /\ UNCHANGED <<visit, task, answer, busy, lines, pendingBrowse, running>>

\* The handler of the daemon has listed its stores: browseRespond, which throws
\* if there is no engine.
Respond(n, v) ==
    /\ v \in heard[n]
    /\ heard' = [heard EXCEPT ![n] = @ \ {v}]
    /\ lines' = IF running[n] THEN [lines EXCEPT ![n] = Append(@, RespondWith(v, Page(v)))] ELSE lines
    /\ UNCHANGED <<visit, task, answer, busy, notices, pendingBrowse, running>>

\* handle_browse_respond.  An id that is not in the map is an error, on which
\* the daemon responds once more, with an empty page.
TakeRespond(n) ==
    /\ Takes(n, "respond")
    /\ LET line  == Head(lines[n])
           found == Entries(n, IdOf[line.visit])
       IN  /\ pendingBrowse' = [pendingBrowse EXCEPT ![n] = @ \ found]
           /\ Serve(Woken(found), line.page)
           /\ lines' = [lines EXCEPT ![n] =
                            IF found = {} /\ line.page # EmptyPage
                            THEN Append(Tail(@), RespondWith(line.visit, EmptyPage)) ELSE Tail(@)]
    /\ UNCHANGED <<visit, busy, notices, heard, running>>

\* The loop of the engine waits for one whose loop waits, and so on in a circle.
InCircle(n) ==
    \E circle \in SUBSET Agents :
        /\ n \in circle
        /\ \A m \in circle : \E v \in busy[m] : v.to \in circle

\* Mutant of TimeOut: the task waits as long as it takes.
TimeOutNever(v) == FALSE /\ UNCHANGED browseVars

\* Mutant of TimeOut: the entry stays in the map.
TimeOutKept(v) ==
    /\ task[v] = "waiting"
    /\ running[v.to]
    /\ Patient => InCircle(v.to)
    /\ Serve({v}, EmptyPage)
    /\ UNCHANGED <<visit, busy, lines, notices, heard, pendingBrowse, running>>

\* A task has waited for ten seconds.  It removes what now has its id.
TimeOut(v) ==
    /\ task[v] = "waiting"
    /\ running[v.to]
    /\ Patient => InCircle(v.to)
    /\ LET removed == Entries(v.to, IdOf[v])
       IN  /\ pendingBrowse' = [pendingBrowse EXCEPT ![v.to] = @ \ removed]
           /\ Serve({v} \cup Woken(removed), EmptyPage)
    /\ UNCHANGED <<visit, busy, lines, notices, heard, running>>

-----------------------------------------------------------------------------
\* An engine dies, and the calls of its daemon are rejected.
EngineEnds(n) ==
    /\ Cardinality({m \in Agents : ~running[m]}) < MaxEnds
    /\ running[n]
    /\ running' = [running EXCEPT ![n] = FALSE]
    /\ busy' = [busy EXCEPT ![n] = {}]
    /\ lines' = [lines EXCEPT ![n] = <<>>]
    /\ notices' = [notices EXCEPT ![n] = <<>>]
    /\ pendingBrowse' = [pendingBrowse EXCEPT ![n] = {}]
    /\ visit' = [v \in Visits |->
                    IF v.from = n /\ visit[v] \in {"asked", "sent"} THEN "failed" ELSE visit[v]]
    /\ task' = [v \in Visits |-> IF v.to = n /\ task[v] # "served" THEN "none" ELSE task[v]]
    /\ UNCHANGED <<answer, heard>>

BrowseNext ==
    \/ \E v \in Visits :
        \/ Get(v)
        \/ TakeAnswer(v)
        \/ Accept(v)
        \/ TimeOut(v)
    \/ \E n \in Agents :
        \/ TakeFrom(n)
        \/ Notify(n)
        \/ \E v \in heard[n] : Respond(n, v)
        \/ TakeRespond(n)
        \/ EngineEnds(n)

\* The loops of the engines and their tasks go on, and ten seconds pass.
\* Nobody has to ask, and no daemon has to answer.
BrowseFairness ==
    /\ \A n \in Agents : WF_browseVars(TakeFrom(n) \/ TakeRespond(n))
    /\ \A v \in Visits :
        /\ WF_browseVars(TakeAnswer(v))
        /\ WF_browseVars(Accept(v))
        /\ WF_browseVars(TimeOut(v))

BrowseSpec == BrowseInit /\ [][BrowseNext]_browseVars /\ BrowseFairness

-----------------------------------------------------------------------------
(***************************************************************************)
(* Properties.                                                             *)
(***************************************************************************)

\* The requests that wait for the daemon of an agent, and the entries for them.
Waiting(n) == {v \in Visits : v.to = n /\ task[v] = "waiting"}
Keyed(vs)  == {<<IdOf[v], v>> : v \in vs}

\* The map of an engine has those whom a task still waits for, each under its
\* id, whatever was answered, replaced, given up or lost; the loop of an engine
\* waits for what its own daemon asked; and no response of a daemon wakes the
\* task of another request, so that a page is the one that was asked for or is
\* empty (PendingBrowse, handle_browse_respond).
BrowseAgrees ==
    /\ BrowseTypeOK
    /\ \A n \in Agents : pendingBrowse[n] = Keyed(Waiting(n))
    /\ \A n \in Agents : \A v \in busy[n] : v.from = n /\ visit[v] = "sent"
    /\ \A v \in Visits : visit[v] = "done" => answer[v] \in {{Page(v)}, {EmptyPage}}

\* Every GET /browse/:peerId is answered, also where two agents browse each
\* other and each waits for an engine that waits for it.
EveryBrowseEnds ==
    \A v \in Visits : visit[v] \in {"asked", "sent"} ~> visit[v] \in {"done", "failed"}

\* browse.rs:3, "Enables Agent A to request content stubs from Agent B": an
\* answer has them, if ten seconds are enough (Patient).
BrowseGetsPage == \A v \in Visits : visit[v] = "done" => answer[v] = {Page(v)}
=============================================================================
