------------------------------ MODULE DaemonProofs -----------------------------
(***************************************************************************)
(* The daemon as a process and what it keeps: one daemon at a time, one    *)
(* identity and a PID file that tells the truth, for any number of processes, *)
(* commands and kills; and the networks of a daemon, its configuration and *)
(* its config.yaml, for any number of requests, of restarts and of failing *)
(* saves.                                                                  *)
(***************************************************************************)
EXTENDS Lifecycle, Sessions, SequenceTheorems, TLAPS

-----------------------------------------------------------------------------
(***************************************************************************)
(* Lifecycle: types.                                                       *)
(***************************************************************************)
LEMMA ProcessesInit == LifecycleInit => LifecycleTypeOK
<1> SUFFICES ASSUME LifecycleInit PROVE LifecycleTypeOK
  OBVIOUS
<1>1. "unborn" \in Phases /\ 0 \in 0 .. MaxKills
  BY LifecycleAssumption DEF Phases
<1> QED
  BY <1>1 DEF LifecycleInit, LifecycleTypeOK, NoProcess

LEMMA ProcessesStep == LifecycleTypeOK /\ [LifecycleNext]_lifecycleVars => LifecycleTypeOK'
<1> SUFFICES ASSUME LifecycleTypeOK, [LifecycleNext]_lifecycleVars PROVE LifecycleTypeOK'
  OBVIOUS
<1> USE DEF LifecycleTypeOK, Goes, Frees, fileVars, Phases, Starting, Up, Processes, NoProcess, Torn
<1>1. ASSUME NEW p \in Processes, Run(p) PROVE LifecycleTypeOK'
  <2>1. CASE Check(p) BY <2>1 DEF Check
  <2>2. CASE Sweep(p) BY <2>2 DEF Sweep
  <2>3. CASE LoadIdentity(p) BY <2>3 DEF LoadIdentity
  <2>4. CASE CreateIdentity(p) BY <2>4, LifecycleAssumption DEF CreateIdentity
  <2>5. CASE WriteIdentity(p) BY <2>5 DEF WriteIdentity
  <2>6. CASE Bind(p) BY <2>6 DEF Bind
  <2>7. CASE WritePid(p) BY <2>7 DEF WritePid
  <2>8. CASE Ready(p) BY <2>8 DEF Ready
  <2>9. CASE Shutdown(p) BY <2>9 DEF Shutdown
  <2>10. CASE Exit(p) BY <2>10 DEF Exit
  <2> QED BY <1>1, <2>1, <2>2, <2>3, <2>4, <2>5, <2>6, <2>7, <2>8, <2>9, <2>10 DEF Run
<1>2. ASSUME NEW p \in Processes, Terminate(p) PROVE LifecycleTypeOK'
  BY <1>2, LifecycleAssumption DEF Terminate, Signalled
<1>3. ASSUME NEW p \in Processes, Kill(p) PROVE LifecycleTypeOK'
  BY <1>3, LifecycleAssumption DEF Kill
<1>4. ASSUME NEW c \in Clients, Command(c) PROVE LifecycleTypeOK'
  <2>1. CASE Found(c) BY <2>1 DEF Found
  <2>2. CASE Spawn(c) BY <2>2 DEF Spawn
  <2>3. CASE GiveUp(c) BY <2>3 DEF GiveUp
  <2>4. CASE Waited(c) BY <2>4 DEF Waited
  <2> QED BY <1>4, <2>1, <2>2, <2>3, <2>4 DEF Command
<1>5. ASSUME NEW c \in Clients, Ensure(c) PROVE LifecycleTypeOK'
  BY <1>5 DEF Ensure
<1>6. ASSUME NEW c \in Clients, NEW next \in {"stopping", "restarting"}, Stop(c, next) PROVE LifecycleTypeOK'
  BY <1>6 DEF Stop, Signalled
<1>7. CASE UNCHANGED lifecycleVars
  BY <1>7 DEF lifecycleVars
<1> QED
  BY <1>1, <1>2, <1>3, <1>4, <1>5, <1>6, <1>7 DEF LifecycleNext

-----------------------------------------------------------------------------
(***************************************************************************)
(* Lifecycle: the PID file.                                                *)
(***************************************************************************)

\* Who has bound the port and not given it up.
Holds(p) == pc[p] \in {"listening", "registering", "serving", "leaving"}

\* The port has one owner, and the PID file names it from the moment it was
\* written, unless it was removed unread.
PidInv ==
    /\ LifecycleTypeOK
    /\ \A p \in Processes : Holds(p) => port = p
    /\ \A p \in Processes : pc[p] \in {"registering", "serving"} /\ ~swept => pidFile = p

LEMMA PidStep == PidInv /\ [LifecycleNext]_lifecycleVars => PidInv'
<1> SUFFICES ASSUME PidInv, [LifecycleNext]_lifecycleVars PROVE PidInv'
  OBVIOUS
<1>t. LifecycleTypeOK /\ LifecycleTypeOK'
  BY ProcessesStep DEF PidInv
<1> USE <1>t DEF PidInv, LifecycleTypeOK, Holds, Goes, Frees, fileVars, Processes, NoProcess
<1>1. ASSUME NEW p \in Processes, Run(p) PROVE PidInv'
  <2>1. CASE Check(p) BY <2>1 DEF Check
  <2>2. CASE Sweep(p) BY <2>2 DEF Sweep, Alive
  <2>3. CASE LoadIdentity(p) BY <2>3 DEF LoadIdentity
  <2>4. CASE CreateIdentity(p) BY <2>4 DEF CreateIdentity
  <2>5. CASE WriteIdentity(p) BY <2>5 DEF WriteIdentity
  <2>6. CASE Bind(p) BY <2>6 DEF Bind
  <2>7. CASE WritePid(p) BY <2>7 DEF WritePid
  <2>8. CASE Ready(p) BY <2>8 DEF Ready
  <2>9. CASE Shutdown(p) BY <2>9 DEF Shutdown
  <2>10. CASE Exit(p) BY <2>10 DEF Exit, Alive
  <2> QED BY <1>1, <2>1, <2>2, <2>3, <2>4, <2>5, <2>6, <2>7, <2>8, <2>9, <2>10 DEF Run
<1>2. ASSUME NEW p \in Processes, Terminate(p) PROVE PidInv'
  BY <1>2 DEF Terminate, Signalled
<1>3. ASSUME NEW p \in Processes, Kill(p) PROVE PidInv'
  BY <1>3 DEF Kill
<1>4. ASSUME NEW c \in Clients, Command(c) PROVE PidInv'
  <2>1. CASE Found(c) BY <2>1 DEF Found
  <2>2. CASE Spawn(c) BY <2>2 DEF Spawn
  <2>3. CASE GiveUp(c) BY <2>3 DEF GiveUp
  <2>4. CASE Waited(c) BY <2>4 DEF Waited
  <2> QED BY <1>4, <2>1, <2>2, <2>3, <2>4 DEF Command
<1>5. ASSUME NEW c \in Clients, Ensure(c) PROVE PidInv'
  BY <1>5 DEF Ensure
<1>6. ASSUME NEW c \in Clients, NEW next \in {"stopping", "restarting"}, Stop(c, next) PROVE PidInv'
  BY <1>6 DEF Stop, Signalled
<1>7. CASE UNCHANGED lifecycleVars
  BY <1>7 DEF lifecycleVars
<1> QED
  BY <1>1, <1>2, <1>3, <1>4, <1>5, <1>6, <1>7 DEF LifecycleNext

\* However daemons start, stop and are killed, the PID file names the one that
\* serves until some process removes it without having read it.
THEOREM PidFileNamesServer == LifecycleSpec => []PidNamesServer
<1>1. LifecycleInit => PidInv
  BY ProcessesInit DEF LifecycleInit, PidInv, Holds
<1>2. PidInv => PidNamesServer
  BY DEF PidInv, PidNamesServer
<1> QED
  BY <1>1, <1>2, PidStep, PTL DEF LifecycleSpec

-----------------------------------------------------------------------------
(***************************************************************************)
(* Lifecycle: daemons that start up one after the other.                   *)
(***************************************************************************)

Engaged(p) == pc[p] \in Starting \cup Up

\* While no two processes started up at a time: at most one is past its look at
\* the PID file, once it has written the file it stays in it until it exits, and
\* from its joins on it has the identity of the file.
AloneInv ==
    /\ LifecycleTypeOK
    /\ ~overlapped =>
        /\ \A p, q \in Processes : Engaged(p) /\ Engaged(q) => p = q
        /\ \A p \in Processes : pc[p] \in Up => pidFile = p
        /\ \A p \in Processes : Open(p) => idFile = ident[p]

LEMMA AloneStep == AloneInv /\ [LifecycleNext]_lifecycleVars => AloneInv'
<1> SUFFICES ASSUME AloneInv, [LifecycleNext]_lifecycleVars PROVE AloneInv'
  OBVIOUS
<1>t. LifecycleTypeOK /\ LifecycleTypeOK'
  BY ProcessesStep DEF AloneInv
<1> USE <1>t DEF AloneInv, LifecycleTypeOK, Engaged, Open, Starting, Up, Goes, Frees, fileVars, Processes, NoProcess
<1>1. ASSUME NEW p \in Processes, Run(p) PROVE AloneInv'
  <2>1. CASE Check(p)
    <3> SUFFICES ASSUME ~overlapped' PROVE AloneInv'
      BY DEF AloneInv
    <3>1. ~overlapped /\ \A q \in Processes : pc[q] \notin Starting
      BY <2>1 DEF Check
    <3>2. CASE Engaged(p)'
      <4>1. \A q \in Processes : pc[q] \notin Up
        BY <2>1, <3>1, <3>2 DEF Check, Alive
      <4> QED BY <2>1, <3>1, <3>2, <4>1 DEF Check
    <3>3. CASE ~Engaged(p)'
      BY <2>1, <3>1, <3>3 DEF Check
    <3> QED BY <3>2, <3>3
  <2>2. CASE Sweep(p) BY <2>2 DEF Sweep
  <2>3. CASE LoadIdentity(p) BY <2>3 DEF LoadIdentity
  <2>4. CASE CreateIdentity(p) BY <2>4 DEF CreateIdentity
  <2>5. CASE WriteIdentity(p) BY <2>5 DEF WriteIdentity
  <2>6. CASE Bind(p) BY <2>6 DEF Bind
  <2>7. CASE WritePid(p) BY <2>7 DEF WritePid
  <2>8. CASE Ready(p) BY <2>8 DEF Ready
  <2>9. CASE Shutdown(p) BY <2>9 DEF Shutdown
  <2>10. CASE Exit(p) BY <2>10 DEF Exit
  <2> QED BY <1>1, <2>1, <2>2, <2>3, <2>4, <2>5, <2>6, <2>7, <2>8, <2>9, <2>10 DEF Run
<1>2. ASSUME NEW p \in Processes, Terminate(p) PROVE AloneInv'
  BY <1>2 DEF Terminate, Signalled
<1>3. ASSUME NEW p \in Processes, Kill(p) PROVE AloneInv'
  BY <1>3 DEF Kill
<1>4. ASSUME NEW c \in Clients, Command(c) PROVE AloneInv'
  <2>1. CASE Found(c) BY <2>1 DEF Found
  <2>2. CASE Spawn(c) BY <2>2 DEF Spawn
  <2>3. CASE GiveUp(c) BY <2>3 DEF GiveUp
  <2>4. CASE Waited(c) BY <2>4 DEF Waited
  <2> QED BY <1>4, <2>1, <2>2, <2>3, <2>4 DEF Command
<1>5. ASSUME NEW c \in Clients, Ensure(c) PROVE AloneInv'
  BY <1>5 DEF Ensure
<1>6. ASSUME NEW c \in Clients, NEW next \in {"stopping", "restarting"}, Stop(c, next) PROVE AloneInv'
  BY <1>6 DEF Stop, Signalled
<1>7. CASE UNCHANGED lifecycleVars
  BY <1>7 DEF lifecycleVars
<1> QED
  BY <1>1, <1>2, <1>3, <1>4, <1>5, <1>6, <1>7 DEF LifecycleNext

\* Daemons of which no two started up at a time have the data directory one
\* after the other, and one identity, whichever way the ones before ended.
THEOREM OneAtATime == LifecycleSpec => []OneAfterTheOther
<1>1. LifecycleInit => AloneInv
  BY ProcessesInit DEF LifecycleInit, AloneInv, Engaged, Open, Starting, Up
<1>2. AloneInv => OneAfterTheOther
  BY DEF AloneInv, OneAfterTheOther, OneOwner, IdentityIsKept, Engaged, Open, Starting, Up
<1> QED
  BY <1>1, <1>2, AloneStep, PTL DEF LifecycleSpec

-----------------------------------------------------------------------------
(***************************************************************************)
(* Sessions: the sequence of those that were opened.                       *)
(***************************************************************************)

Session == [net : Nets, phase : {"open", "closing", "closed"}]

LEMMA OpenedIs ==
    ASSUME made \in Seq(Session), NEW n \in Nets, NEW new, new = Opened(n)
    PROVE  /\ new \in Seq(Session) /\ Len(new) = Len(made) + 1
           /\ new[Len(new)].net = n /\ new[Len(new)].phase = "open"
           /\ \A s \in 1 .. Len(made) : new[s] = made[s]
<1>1. [net |-> n, phase |-> "open"] \in Session
  BY DEF Session
<1>2. Len(made) \in Nat
  OBVIOUS
<1>3. /\ new \in Seq(Session) /\ Len(new) = Len(made) + 1
      /\ new[Len(made) + 1] = [net |-> n, phase |-> "open"]
      /\ \A s \in 1 .. Len(made) : new[s] = made[s]
  BY <1>1, AppendProperties DEF Opened
<1> QED
  BY <1>2, <1>3

LEMMA NetOf ==
    ASSUME made \in Seq(Session), NEW s \in 1 .. Len(made)
    PROVE  made[s].net \in Nets
<1>1. made[s] \in Session
  BY ElementOfSeq
<1> QED
  BY <1>1 DEF Session

LEMMA PhaseIs ==
    ASSUME made \in Seq(Session), NEW s \in 1 .. Len(made),
           NEW ph \in {"open", "closing", "closed"},
           NEW new, new = [made EXCEPT ![s].phase = ph]
    PROVE  /\ new \in Seq(Session) /\ Len(new) = Len(made)
           /\ new[s].net = made[s].net /\ new[s].phase = ph
           /\ \A t \in 1 .. Len(made) : t # s => new[t] = made[t]
<1> DEFINE session == [made[s] EXCEPT !.phase = ph]
<1>1. made[s] \in Session
  BY ElementOfSeq
<1>2. session \in Session /\ session.net = made[s].net /\ session.phase = ph
  BY <1>1 DEF Session
<1>3. new = [made EXCEPT ![s] = session]
  OBVIOUS
<1> HIDE DEF session
<1>4. /\ new \in Seq(Session) /\ Len(new) = Len(made)
      /\ \A t \in 1 .. Len(made) : new[t] = IF t = s THEN session ELSE made[t]
  BY <1>2, <1>3, ExceptSeq
<1> QED
  BY <1>2, <1>4

\* leaveNetwork begins for a session, and ends.
LEMMA LeavingIs ==
    ASSUME TypeOK, NEW p \in Savers, NEW s \in 1 .. Len(made), Leaving(p, s)
    PROVE  /\ made' \in Seq(Session) /\ Len(made') = Len(made)
           /\ \A t \in 1 .. Len(made) :
                /\ made'[t].net = made[t].net
                /\ made'[t].phase = "closed" <=> made[t].phase = "closed"
           /\ at' = [at EXCEPT ![p] = "leaving"] /\ held' = [held EXCEPT ![p] = s]
<1>1. made \in Seq(Session) /\ made[s] \in Session
  BY ElementOfSeq DEF TypeOK, Session
<1>2. PICK ph \in {"open", "closing", "closed"} :
          /\ ph = "closed" <=> made[s].phase = "closed"
          /\ made' = [made EXCEPT ![s].phase = ph]
  <2>1. made[s].phase \in {"open", "closing", "closed"}
    BY <1>1 DEF Session
  <2>2. made' = [made EXCEPT ![s].phase = IF made[s].phase = "open" THEN "closing"
                                          ELSE made[s].phase]
    BY DEF Leaving
  <2> QED
    BY <2>1, <2>2
<1>3. /\ made' \in Seq(Session) /\ Len(made') = Len(made)
      /\ made'[s].net = made[s].net /\ made'[s].phase = ph
      /\ \A t \in 1 .. Len(made) : t # s => made'[t] = made[t]
  BY <1>1, <1>2, PhaseIs
<1> QED
  BY <1>2, <1>3 DEF Leaving

LEMMA LeftIs ==
    ASSUME TypeOK, NEW p \in Savers, held[p] # None, made' = Left(p)
    PROVE  /\ made' \in Seq(Session) /\ Len(made') = Len(made)
           /\ \A t \in 1 .. Len(made) :
                /\ made'[t].net = made[t].net
                /\ made'[t].phase = IF t = held[p] THEN "closed" ELSE made[t].phase
<1>1. held[p] \in 1 .. Len(made) /\ made \in Seq(Session)
  BY DEF TypeOK, None, Session
<1>2. made' = [made EXCEPT ![held[p]].phase = "closed"]
  BY DEF Left
<1>3. /\ made' \in Seq(Session) /\ Len(made') = Len(made)
      /\ made'[held[p]].net = made[held[p]].net /\ made'[held[p]].phase = "closed"
      /\ \A t \in 1 .. Len(made) : t # held[p] => made'[t] = made[t]
  BY <1>1, <1>2, PhaseIs
<1> QED
  BY <1>1, <1>3

-----------------------------------------------------------------------------
(***************************************************************************)
(* Sessions: types, and who does what.                                     *)
(***************************************************************************)

Serves(r, n) == req[r] # NoRequest /\ req[r].net = n
Saving(p)    == at[p] \in {"saving", "opening", "writing"}

\* Where a request and the shutdown can be, and what they hold there.
ActorInv ==
    /\ \A r \in Requests :
         /\ req[r] = NoRequest <=> at[r] = "idle"
         /\ at[r] = "joining" => req[r].op = "post"
         /\ at[r] = "leaving" => req[r].op = "delete"
    /\ \A p \in Savers : held[p] # None <=> at[p] = "leaving"
    /\ at[Main] # "joining"
    /\ at[Main] = "leaving" => stage = "leaving"
    /\ Saving(Main) => stage = "closing" /\ \A r \in Requests : at[r] = "idle"
    /\ stage \in {"down", "starting", "exiting"} => \A p \in Savers : at[p] = "idle"

ActorsOK == TypeOK /\ ActorInv

LEMMA SaversAre ==
    /\ Main \in Savers /\ Main \notin Requests /\ Requests \subseteq Savers
    /\ \A p \in Savers : p = Main \/ p \in Requests
BY SessionsAssumption DEF Savers, Main

LEMMA RequestsAre ==
    /\ \A op \in {"post", "delete"}, n \in Nets :
         [op |-> op, net |-> n] \in [op : {"post", "delete"}, net : Nets] \ {NoRequest}
    /\ TypeOK => \A r \in Requests : req[r] # NoRequest =>
                     req[r].op \in {"post", "delete"} /\ req[r].net \in Nets
BY DEF NoRequest, TypeOK

LEMMA TextsAre ==
    /\ Empty \in Texts /\ Empty.nets = {}
    /\ \A N \in SUBSET Nets : Text(N) \in Texts /\ Text(N).nets = N
    /\ \A f \in Texts, N \in SUBSET Nets : Over(f, N) \in Texts
    /\ \A N \in SUBSET Nets : Over(Empty, N) = Text(N)
    /\ \A f \in Texts : f.nets \subseteq Nets
BY DEF Texts, Text, Empty, Garbage, Over

LEMMA ActorsStep == ActorsOK /\ [Next]_vars => ActorsOK'
<1> SUFFICES ASSUME TypeOK, ActorInv, [Next]_vars PROVE TypeOK' /\ ActorInv'
  BY DEF ActorsOK
<1>b. made \in Seq(Session) /\ Len(made) \in Nat
  BY DEF TypeOK, Session
<1>1. CASE Start
  <2>1. file.nets \subseteq Nets
    BY TextsAre DEF TypeOK
  <2> QED
    BY <1>1, <2>1 DEF Start, TypeOK, ActorInv, Stages, Saving
<1>2. CASE Listen \/ Signal \/ CloseApp
  BY <1>2 DEF Listen, Signal, CloseApp, TypeOK, ActorInv, Stages, Saving,
              sessionVars, saveVars, ghostVars
<1>3. ASSUME NEW n \in Nets, Rejoin(n) PROVE TypeOK' /\ ActorInv'
  <2>1. /\ UNCHANGED <<stage, config, req, at, held, done, saveVars, ghostVars, restarts>>
        /\ todo' \subseteq Nets
    BY <1>3 DEF Rejoin, TypeOK
  <2>2. /\ made' \in Seq(Session) /\ Len(made') \in Len(made) .. MaxSessions
        /\ map' \in [Nets -> 0 .. Len(made')]
    <3>1. CASE UNCHANGED <<made, map>>
      BY <1>b, <3>1, SessionsAssumption DEF TypeOK
    <3>2. CASE Len(made) < MaxSessions /\ made' = Opened(n) /\ map' = [map EXCEPT ![n] = Len(made')]
      <4>1. made' \in Seq(Session) /\ Len(made') = Len(made) + 1
        BY <1>b, <3>2, OpenedIs
      <4>2. MaxSessions \in Nat /\ 0 .. Len(made) \subseteq 0 .. Len(made')
        BY <1>b, <4>1, SessionsAssumption
      <4> QED
        BY <1>b, <3>2, <4>1, <4>2 DEF TypeOK
    <3> QED
      BY <1>3, <3>1, <3>2 DEF Rejoin
  <2> QED
    BY <1>b, <2>1, <2>2, SessionsAssumption
    DEF TypeOK, ActorInv, Saving, Session, saveVars, ghostVars
<1>4. ASSUME NEW r \in Requests, NEW n \in Nets,
             PostPresent(r, n) \/ Post(r, n)
      PROVE  TypeOK' /\ ActorInv'
  <2>1. raced' \subseteq Nets /\ known' \in [Nets -> {"unknown", "joined", "left"}]
    BY <1>4 DEF PostPresent, Post, Accepted, Asked, TypeOK
  <2>2. CASE PostPresent(r, n)
    BY <2>1, <2>2 DEF PostPresent, TypeOK, ActorInv, Saving, sessionVars, saveVars
  <2>3. CASE Post(r, n)
    BY <2>1, <2>3, RequestsAre, SaversAre
    DEF Post, Accepted, Asked, TypeOK, ActorInv, Saving, sessionVars, saveVars, ghostVars
  <2> QED
    BY <1>4, <2>2, <2>3
<1>5. ASSUME NEW r \in Requests, PostFails(r) PROVE TypeOK' /\ ActorInv'
  BY <1>5, SaversAre DEF PostFails, Answered, TypeOK, ActorInv, Saving, sessionVars,
                         saveVars, ghostVars
<1>6. ASSUME NEW r \in Requests, PostJoined(r) PROVE TypeOK' /\ ActorInv'
  <2>1. req[r] # NoRequest /\ req[r].net \in Nets /\ at[r] = "joining"
    BY <1>6, RequestsAre DEF PostJoined, ActorInv
  <2>2. /\ made' \in Seq(Session) /\ Len(made') = Len(made) + 1 /\ Len(made') <= MaxSessions
        /\ map' \in [Nets -> 0 .. Len(made')]
    <3>1. made' \in Seq(Session) /\ Len(made') = Len(made) + 1 /\ Len(made) < MaxSessions
      BY <1>b, <1>6, <2>1, OpenedIs DEF PostJoined
    <3>2. MaxSessions \in Nat /\ 0 .. Len(made) \subseteq 0 .. Len(made')
      BY <1>b, <3>1, SessionsAssumption
    <3>3. map' = [map EXCEPT ![req[r].net] = Len(made')]
      BY <1>6 DEF PostJoined
    <3>4. \A n \in Nets : map'[n] \in 0 .. Len(made')
      BY <1>b, <3>1, <3>2, <3>3 DEF TypeOK
    <3>5. map' \in [Nets -> 0 .. Len(made')]
      BY <3>3, <3>4 DEF TypeOK
    <3> QED
      BY <1>b, <3>1, <3>2, <3>5
  <2>3. late' \subseteq 1 .. Len(made')
    <3>1. 1 .. Len(made) \subseteq 1 .. Len(made') /\ Len(made') \in 1 .. Len(made')
      BY <1>b, <2>2
    <3>2. late' \subseteq late \cup {Len(made')}
      BY <1>6 DEF PostJoined
    <3> QED
      BY <3>1, <3>2 DEF TypeOK
  <2>4. held' \in [Savers -> 0 .. Len(made')]
    BY <1>b, <1>6, <2>2 DEF PostJoined, TypeOK
  <2>5. /\ config' \subseteq Nets /\ known' \in [Nets -> {"unknown", "joined", "left"}]
        /\ \/ at' = [at EXCEPT ![r] = "saving"] /\ req' = req
           \/ at' = [at EXCEPT ![r] = "idle"] /\ req' = [req EXCEPT ![r] = NoRequest]
        /\ UNCHANGED <<stage, todo, held, done, saveVars, raced, restarts>>
    <3>1. config' \in {config, config \cup {req[r].net}}
      BY <1>6 DEF PostJoined
    <3>2. known' \in {known, [known EXCEPT ![req[r].net] = "joined"]}
      BY <1>6 DEF PostJoined
    <3>3. config' \subseteq Nets /\ known' \in [Nets -> {"unknown", "joined", "left"}]
      BY <2>1, <3>1, <3>2 DEF TypeOK
    <3> QED
      BY <1>6, <3>3 DEF PostJoined, Answered
  <2>6. TypeOK'
    BY <1>b, <2>2, <2>3, <2>4, <2>5 DEF TypeOK, Session, saveVars
  <2>7. ActorInv'
    BY <2>1, <2>5, SaversAre DEF ActorInv, Saving, TypeOK
  <2> QED
    BY <2>6, <2>7
<1>7. ASSUME NEW r \in Requests, NEW n \in Nets, Delete(r, n) PROVE TypeOK' /\ ActorInv'
  <2>1. map[n] \in 1 .. Len(made) /\ Leaving(r, map[n])
    BY <1>b, <1>7 DEF Delete, TypeOK, None
  <2>2. /\ made' \in Seq(Session) /\ Len(made') = Len(made)
        /\ at' = [at EXCEPT ![r] = "leaving"] /\ held' = [held EXCEPT ![r] = map[n]]
    BY <2>1, LeavingIs, SaversAre
  <2>3. /\ req' = [req EXCEPT ![r] = [op |-> "delete", net |-> n]]
        /\ req' \in [Requests -> [op : {"post", "delete"}, net : Nets] \cup {NoRequest}]
        /\ req'[r] # NoRequest /\ req'[r].op = "delete"
        /\ raced' \subseteq Nets /\ stage \in {"serving", "leaving", "stopping"}
        /\ req[r] = NoRequest
    BY <1>7, RequestsAre DEF Delete, Accepted, Asked, TypeOK
  <2>4. UNCHANGED <<stage, todo, map, config, done, saveVars, late, known, restarts>>
    BY <1>7 DEF Delete
  <2>5. TypeOK'
    BY <2>1, <2>2, <2>3, <2>4 DEF TypeOK, Session, saveVars
  <2>6. ActorInv'
    BY <2>1, <2>2, <2>3, <2>4, SaversAre DEF ActorInv, Saving, TypeOK, None
  <2> QED
    BY <2>5, <2>6
<1>8. ASSUME NEW r \in Requests, DeleteLeft(r) PROVE TypeOK' /\ ActorInv'
  <2>1. at[r] = "leaving" /\ held[r] # None /\ made' = Left(r)
    BY <1>8, SaversAre DEF DeleteLeft, ActorInv
  <2>2. made' \in Seq(Session) /\ Len(made') = Len(made)
    BY <2>1, LeftIs, SaversAre
  <2>3. /\ at' = [at EXCEPT ![r] = "saving"] /\ held' = [held EXCEPT ![r] = None]
        /\ map' = [map EXCEPT ![req[r].net] = None]
        /\ done' \subseteq Nets /\ config' \subseteq Nets
        /\ UNCHANGED <<stage, todo, req, saveVars, ghostVars, restarts>>
    BY <1>8 DEF DeleteLeft, TypeOK
  <2>4. TypeOK'
    <3>1. 0 \in 0 .. Len(made)
      BY <1>b
    <3> QED
      BY <2>2, <2>3, <3>1 DEF TypeOK, Session, saveVars, ghostVars, None
  <2>5. ActorInv'
    BY <2>1, <2>3, SaversAre DEF ActorInv, Saving, TypeOK, None
  <2> QED
    BY <2>4, <2>5
<1>9. ASSUME NEW p \in Savers, Stringify(p) \/ Truncate(p) PROVE TypeOK' /\ ActorInv'
  <2>1. /\ \/ at[p] = "saving" /\ at' = [at EXCEPT ![p] = "opening"]
           \/ at[p] = "opening" /\ at' = [at EXCEPT ![p] = "writing"]
        /\ text' \in [Savers -> SUBSET Nets] /\ file' \in Texts /\ mixed' \subseteq Savers
        /\ UNCHANGED <<stage, todo, sessionVars, req, held, done, spoiled, faults,
                       ghostVars, restarts>>
    BY <1>9, TextsAre DEF Stringify, Truncate, TypeOK, Underway
  <2>2. TypeOK'
    BY <2>1 DEF TypeOK, sessionVars, ghostVars
  <2>3. ActorInv'
    BY <2>1, SaversAre DEF ActorInv, Saving, TypeOK
  <2> QED
    BY <2>2, <2>3
<1>10. ASSUME NEW p \in Savers, Write(p) \/ SaveFails(p) PROVE TypeOK' /\ ActorInv'
  <2>1. /\ at[p] \in {"opening", "writing"} /\ SaveOver(p)
        /\ file' \in Texts /\ faults' \in 0 .. MaxFaults
        /\ spoiled' \in BOOLEAN
    <3>1. CASE Write(p)
      BY <3>1, TextsAre DEF Write, TypeOK
    <3>2. CASE SaveFails(p)
      <4>1. faults' \in 0 .. MaxFaults
        BY <3>2, SessionsAssumption DEF SaveFails, TypeOK
      <4> QED
        BY <3>2, <4>1 DEF SaveFails, TypeOK
    <3> QED
      BY <1>10, <3>1, <3>2
  <2>2. /\ at' = [at EXCEPT ![p] = "idle"] /\ text' \in [Savers -> SUBSET Nets]
        /\ mixed' \subseteq Savers
        /\ UNCHANGED <<todo, sessionVars, held, done, raced, late, restarts>>
    BY <2>1 DEF SaveOver, TypeOK
  <2>3. CASE p = Main /\ stage' = "exiting" /\ UNCHANGED <<req, known>>
    <3>1. TypeOK'
      BY <2>1, <2>2, <2>3 DEF TypeOK, sessionVars, Stages
    <3>2. stage = "closing" /\ \A r \in Requests : at[r] = "idle"
      BY <2>1, <2>3 DEF ActorInv, Saving
    <3>3. ActorInv'
      BY <2>1, <2>2, <2>3, <3>2, SaversAre DEF ActorInv, Saving, TypeOK
    <3> QED
      BY <3>1, <3>3
  <2>4. CASE p \in Requests /\ Answered(p) /\ UNCHANGED stage
              /\ known' = [known EXCEPT ![req[p].net] =
                               IF req[p].op = "post" THEN "joined" ELSE "left"]
    <3>1. TypeOK'
      BY <2>1, <2>2, <2>4 DEF TypeOK, sessionVars, Answered
    <3>2. ActorInv'
      BY <2>1, <2>2, <2>4, SaversAre DEF ActorInv, Saving, TypeOK, Answered
    <3> QED
      BY <3>1, <3>2
  <2> QED
    BY <2>1, <2>3, <2>4 DEF SaveOver
<1>11. ASSUME NEW n \in Nets, LeaveNext(n) PROVE TypeOK' /\ ActorInv'
  <2>1. map[n] \in 1 .. Len(made) /\ Leaving(Main, map[n])
    BY <1>b, <1>11 DEF LeaveNext, TypeOK, None, Ahead
  <2>2. /\ made' \in Seq(Session) /\ Len(made') = Len(made)
        /\ at' = [at EXCEPT ![Main] = "leaving"] /\ held' = [held EXCEPT ![Main] = map[n]]
    BY <2>1, LeavingIs, SaversAre
  <2>3. /\ stage = "leaving" /\ done' \subseteq Nets
        /\ UNCHANGED <<stage, todo, map, config, req, saveVars, ghostVars, restarts>>
    BY <1>11 DEF LeaveNext, TypeOK
  <2>4. TypeOK'
    BY <2>1, <2>2, <2>3 DEF TypeOK, Session, saveVars, ghostVars
  <2>5. ActorInv'
    BY <2>1, <2>2, <2>3, SaversAre DEF ActorInv, Saving, TypeOK, None
  <2> QED
    BY <2>4, <2>5
<1>12. CASE LeftNext
  <2>1. at[Main] = "leaving" /\ stage = "leaving" /\ held[Main] # None /\ made' = Left(Main)
    BY <1>12, SaversAre DEF LeftNext, ActorInv
  <2>2. made' \in Seq(Session) /\ Len(made') = Len(made)
    BY <2>1, LeftIs, SaversAre
  <2>3. /\ at' = [at EXCEPT ![Main] = "idle"] /\ held' = [held EXCEPT ![Main] = None]
        /\ UNCHANGED <<stage, todo, map, config, req, done, saveVars, ghostVars, restarts>>
    BY <1>12 DEF LeftNext
  <2>4. TypeOK'
    <3>1. 0 \in 0 .. Len(made)
      BY <1>b
    <3> QED
      BY <2>2, <2>3, <3>1 DEF TypeOK, Session, saveVars, ghostVars, None
  <2>5. ActorInv'
    BY <2>1, <2>3, SaversAre DEF ActorInv, Saving, TypeOK, None
  <2> QED
    BY <2>4, <2>5
<1>13. CASE ClearSessions
  BY <1>b, <1>13 DEF ClearSessions, TypeOK, ActorInv, Saving, Stages, saveVars, ghostVars, None
<1>14. CASE FinalSave
  BY <1>14, SaversAre DEF FinalSave, TypeOK, ActorInv, Saving, sessionVars, saveVars, ghostVars
<1>15. CASE Down
  <2>1. /\ made' = <<>> /\ Len(made') = 0 /\ made' \in Seq(Session)
        /\ restarts' \in 0 .. MaxRestarts /\ spoiled' \in BOOLEAN
        /\ known' \in [Nets -> {"unknown", "joined", "left"}]
    BY <1>15, SessionsAssumption DEF Down, TypeOK
  <2>2. TypeOK'
    BY <1>15, <2>1, SessionsAssumption DEF Down, TypeOK, Session, Stages, Nobody, None
  <2>3. ActorInv'
    BY <1>15, SaversAre DEF Down, ActorInv, Saving, Nobody, None
  <2> QED
    BY <2>2, <2>3
<1>16. CASE UNCHANGED vars
  BY <1>16 DEF vars, sessionVars, saveVars, ghostVars, TypeOK, ActorInv, Saving
<1> QED
  BY <1>1, <1>2, <1>3, <1>4, <1>5, <1>6, <1>7, <1>8, <1>9, <1>10, <1>11, <1>12, <1>13, <1>14,
     <1>15, <1>16 DEF Next

-----------------------------------------------------------------------------
(***************************************************************************)
(* Sessions: the Map, and who has to do with a network.                    *)
(***************************************************************************)

\* A session of the Map is for its network, which the configuration has.  What
\* shutdown is past it has left, or is leaving, and after sessions.clear() the
\* Map has what was set too late.
MapInv ==
    /\ \A n \in Nets : map[n] # None => made[map[n]].net = n /\ n \in config
    /\ \A r \in Requests : held[r] # None => made[held[r]].net = req[r].net
    /\ stage = "down" => \A n \in Nets : map[n] = None
    /\ stage = "starting" => \A n \in todo : map[n] = None /\ n \in config
    /\ stage \in {"stopping", "closing", "exiting"} => \A n \in Nets : map[n] \in late \cup {None}
    /\ stage # "leaving" => done = {}
    /\ \A n \in done :
         /\ map[n] # None
         /\ n \in raced \/ made[map[n]].phase = "closed" \/ held[Main] = map[n]

\* A network that no requests race for has one request at most, which finds the
\* Map and the configuration as it left them.
RaceInv ==
    \A n \in Nets \ raced :
        /\ \A q, r \in Requests : Serves(q, n) /\ Serves(r, n) => q = r
        /\ \A r \in Requests : Serves(r, n) =>
             /\ at[r] = "joining" => map[n] = None
             /\ at[r] = "leaving" => map[n] \in {held[r], None}
             /\ Saving(r) => (req[r].op = "post" <=> n \in config)

ReachInv == MapInv /\ RaceInv /\ OpenIsListed

\* Requests are answered and saves go on, and nothing else.
Going ==
    /\ UNCHANGED <<todo, made, map, config, held, done, late>>
    /\ raced \subseteq raced'
    /\ \/ stage' = stage
       \/ <<stage, stage'>> \in {<<"starting", "serving">>, <<"serving", "leaving">>,
                                 <<"stopping", "closing">>, <<"closing", "exiting">>}
    /\ \A r \in Requests :
         \/ req'[r] = NoRequest
         \/ req'[r] = req[r] /\ (at'[r] = at[r] \/ (Saving(r) /\ Saving(r)'))

LEMMA GoingIs ==
    ASSUME ActorsOK, ActorsOK',
           \/ Listen \/ Signal \/ CloseApp \/ FinalSave \/ UNCHANGED vars
           \/ \E r \in Requests, n \in Nets : PostPresent(r, n)
           \/ \E r \in Requests : PostFails(r)
           \/ \E p \in Savers : Stringify(p) \/ Truncate(p) \/ Write(p) \/ SaveFails(p)
    PROVE  Going
<1> USE DEF Going, ActorsOK, TypeOK
<1>1. CASE Listen \/ Signal \/ CloseApp
  BY <1>1 DEF Listen, Signal, CloseApp, sessionVars, ghostVars
<1>2. CASE FinalSave
  BY <1>2, SaversAre DEF FinalSave, sessionVars, ghostVars
<1>3. CASE UNCHANGED vars
  BY <1>3 DEF vars, sessionVars, ghostVars
<1>4. ASSUME NEW r \in Requests, NEW n \in Nets, PostPresent(r, n) PROVE Going
  BY <1>4 DEF PostPresent, Asked, sessionVars
<1>5. ASSUME NEW r \in Requests, PostFails(r) PROVE Going
  BY <1>5, SaversAre DEF PostFails, Answered, sessionVars, ghostVars
<1>6. ASSUME NEW p \in Savers, Stringify(p) \/ Truncate(p) PROVE Going
  BY <1>6, SaversAre DEF Stringify, Truncate, Saving, sessionVars, ghostVars
<1>7. ASSUME NEW p \in Savers, Write(p) \/ SaveFails(p) PROVE Going
  <2>1. SaveOver(p) /\ at[p] \in {"opening", "writing"}
    BY <1>7 DEF Write, SaveFails
  <2>2. p = Main => stage = "closing"
    BY <2>1 DEF ActorInv, Saving
  <2> QED
    BY <2>1, <2>2, SaversAre DEF SaveOver, Answered, sessionVars
<1> QED
  BY <1>1, <1>2, <1>3, <1>4, <1>5, <1>6, <1>7

LEMMA GoingReaches ==
    ASSUME ActorsOK, ActorsOK', ReachInv, Going
    PROVE  ReachInv'
<1> USE DEF ActorsOK, ReachInv, Going
<1>0. \A r \in Requests : held'[r] # None => req'[r] = req[r]
  BY SaversAre DEF ActorInv
<1>1. MapInv'
  BY <1>0 DEF MapInv
<1>2. \A r \in Requests, n \in Nets : Serves(r, n)' =>
         Serves(r, n) /\ req'[r] = req[r] /\ (at'[r] = at[r] \/ (Saving(r) /\ Saving(r)'))
  BY DEF Serves
<1>3. RaceInv'
  BY <1>2 DEF RaceInv, Saving
<1>4. OpenIsListed'
  BY DEF OpenIsListed
<1> QED
  BY <1>1, <1>3, <1>4

\* Another request is served: if it is one of two for a network, they race.
LEMMA AcceptedRaces ==
    ASSUME ActorsOK, RaceInv, NEW r \in Requests, NEW n \in Nets,
           NEW op \in {"post", "delete"}, Accepted(r, op, n)
    PROVE  /\ raced \subseteq raced' /\ raced' \subseteq raced \cup {n}
           /\ req[r] = NoRequest /\ at[r] = "idle" /\ held[r] = None
           /\ req'[r] # NoRequest /\ req'[r].op = op /\ req'[r].net = n
           /\ Serves(r, n)' /\ \A m \in Nets : m # n => ~Serves(r, m)'
           /\ \A q \in Requests \ {r} : req'[q] = req[q]
           /\ n \notin raced' => \A q \in Requests : ~Serves(q, n)
           /\ \A m \in Nets \ raced' :
                \A p, q \in Requests : Serves(p, m)' /\ Serves(q, m)' => p = q
<1>1. /\ req[r] = NoRequest /\ raced' = IF Busy(n) THEN raced \cup {n} ELSE raced
      /\ req' = [req EXCEPT ![r] = [op |-> op, net |-> n]]
  BY DEF Accepted, Asked
<1>2. /\ req'[r] = [op |-> op, net |-> n] /\ req'[r] # NoRequest
      /\ \A q \in Requests \ {r} : req'[q] = req[q]
  BY <1>1, RequestsAre DEF ActorsOK, TypeOK
<1>3. at[r] = "idle" /\ held[r] = None
  BY <1>1, SaversAre DEF ActorsOK, ActorInv
<1>4. /\ Serves(r, n)' /\ \A m \in Nets : m # n => ~Serves(r, m)'
      /\ \A q \in Requests \ {r}, m \in Nets : Serves(q, m)' <=> Serves(q, m)
  BY <1>2 DEF Serves
<1>5. n \notin raced' => \A q \in Requests : ~Serves(q, n)
  BY <1>1 DEF Busy, Serves
<1>6. \A m \in Nets \ raced' :
         \A p, q \in Requests : Serves(p, m)' /\ Serves(q, m)' => p = q
  BY <1>1, <1>4, <1>5 DEF RaceInv
<1> QED
  BY <1>1, <1>2, <1>3, <1>4, <1>5, <1>6

LEMMA ReachStep == ActorsOK /\ ReachInv /\ [Next]_vars => ReachInv'
<1> SUFFICES ASSUME ActorsOK, ReachInv, [Next]_vars PROVE ReachInv'
  OBVIOUS
<1>t. ActorsOK' /\ TypeOK /\ ActorInv /\ TypeOK' /\ ActorInv'
  BY ActorsStep DEF ActorsOK
<1>i. MapInv /\ RaceInv /\ OpenIsListed
  BY DEF ReachInv
<1>b. made \in Seq(Session) /\ Len(made) \in Nat
  BY <1>t DEF TypeOK, Session
<1>1. CASE \/ Listen \/ Signal \/ CloseApp \/ FinalSave \/ UNCHANGED vars
           \/ \E r \in Requests, n \in Nets : PostPresent(r, n)
           \/ \E r \in Requests : PostFails(r)
           \/ \E p \in Savers : Stringify(p) \/ Truncate(p) \/ Write(p) \/ SaveFails(p)
  BY <1>1, <1>t, GoingIs, GoingReaches
<1>2. CASE Start
  <2>1. /\ stage = "down" /\ stage' = "starting" /\ config' = todo'
        /\ UNCHANGED <<made, map, req, at, held, done, raced, late>>
    BY <1>2 DEF Start
  <2>2. /\ \A n \in Nets : map[n] = None
        /\ \A p \in Savers : at[p] = "idle"
    BY <1>i, <1>t, <2>1 DEF MapInv, ActorInv
  <2>3. /\ \A r \in Requests : req[r] = NoRequest /\ held[r] = None
        /\ done = {}
    BY <1>i, <1>t, <2>1, <2>2, SaversAre DEF MapInv, ActorInv
  <2>4. MapInv' /\ todo' \subseteq Nets
    BY <1>t, <2>1, <2>2, <2>3 DEF MapInv, TypeOK
  <2>5. RaceInv'
    BY <2>1, <2>3 DEF RaceInv, Serves
  <2>6. OpenIsListed'
    BY <1>i, <2>1 DEF OpenIsListed
  <2> QED
    BY <2>4, <2>5, <2>6 DEF ReachInv
<1>3. ASSUME NEW n \in Nets, Rejoin(n) PROVE ReachInv'
  <2>1. /\ stage = "starting" /\ n \in todo /\ todo' = todo \ {n}
        /\ UNCHANGED <<stage, config, req, at, held, done, raced, late>>
    BY <1>3 DEF Rejoin, ghostVars
  <2>2. /\ map[n] = None /\ n \in config
        /\ \A p \in Savers : at[p] = "idle" /\ held[p] = None
        /\ done = {}
    BY <1>i, <1>t, <2>1 DEF MapInv, ActorInv
  <2>3. \A r \in Requests : req[r] = NoRequest
    BY <1>t, <2>2, SaversAre DEF ActorInv
  <2>4. RaceInv'
    BY <2>1, <2>3 DEF RaceInv, Serves
  <2>5. CASE UNCHANGED <<made, map>>
    <3>1. MapInv'
      BY <1>i, <2>1, <2>5 DEF MapInv
    <3>2. OpenIsListed'
      BY <1>i, <2>1, <2>5 DEF OpenIsListed
    <3> QED
      BY <2>4, <3>1, <3>2 DEF ReachInv
  <2>6. CASE made' = Opened(n) /\ map' = [map EXCEPT ![n] = Len(made')]
    <3>1. /\ Len(made') = Len(made) + 1 /\ made'[Len(made')].net = n
          /\ \A s \in 1 .. Len(made) : made'[s] = made[s]
      BY <1>b, <2>6, OpenedIs
    <3>2. map'[n] = Len(made') /\ \A m \in Nets : m # n => map'[m] = map[m]
      BY <1>t, <2>6 DEF TypeOK
    <3>3. \A m \in Nets : map[m] \in 0 .. Len(made)
      BY <1>t DEF TypeOK
    <3>4. MapInv'
      <4>1. \A m \in Nets : map'[m] # None => made'[map'[m]].net = m /\ m \in config'
        BY <1>i, <1>b, <2>1, <2>2, <3>1, <3>2, <3>3 DEF MapInv, None
      <4>2. \A q \in Requests : held'[q] = None
        BY <2>1, <2>2, SaversAre
      <4>3. \A m \in todo' : map'[m] = None /\ m \in config'
        BY <1>i, <1>t, <2>1, <3>2 DEF MapInv, TypeOK
      <4> QED
        BY <2>1, <2>2, <4>1, <4>2, <4>3 DEF MapInv
    <3>5. OpenIsListed'
      <4> SUFFICES ASSUME NEW s \in 1 .. Len(made'), made'[s].phase # "closed"
                   PROVE  \/ map'[made'[s].net] = s
                          \/ \E p \in Savers : held'[p] = s
                          \/ made'[s].net \in raced'
                          \/ s \in late'
        BY DEF OpenIsListed
      <4>1. CASE s = Len(made')
        BY <3>1, <3>2, <4>1
      <4>2. CASE s # Len(made')
        <5>1. s \in 1 .. Len(made) /\ made'[s] = made[s]
          BY <1>b, <3>1, <4>2
        <5>2. map[made[s].net] # s \/ made[s].net # n
          BY <2>2, <5>1 DEF None
        <5>3. made[s].net \in Nets
          BY <1>b, <5>1, NetOf
        <5> QED
          BY <1>i, <2>1, <3>2, <5>1, <5>2, <5>3 DEF OpenIsListed
      <4> QED
        BY <4>1, <4>2
    <3> QED
      BY <2>4, <3>4, <3>5 DEF ReachInv
  <2> QED
    BY <1>3, <2>5, <2>6 DEF Rejoin
<1>4. ASSUME NEW r \in Requests, NEW n \in Nets, Post(r, n) PROVE ReachInv'
  <2>1. /\ Accepted(r, "post", n) /\ map[n] = None /\ at' = [at EXCEPT ![r] = "joining"]
        /\ UNCHANGED <<stage, todo, made, map, config, held, done, late>>
    BY <1>4 DEF Post, sessionVars
  <2>2. /\ raced \subseteq raced' /\ raced' \subseteq raced \cup {n}
        /\ req[r] = NoRequest /\ held[r] = None
        /\ req'[r].op = "post" /\ req'[r].net = n
        /\ Serves(r, n)' /\ \A m \in Nets : m # n => ~Serves(r, m)'
        /\ \A q \in Requests \ {r} : req'[q] = req[q]
        /\ \A m \in Nets \ raced' :
             \A p, q \in Requests : Serves(p, m)' /\ Serves(q, m)' => p = q
    BY <1>i, <2>1, AcceptedRaces
  <2>3. MapInv'
    BY <1>i, <2>1, <2>2 DEF MapInv
  <2>4. \A q \in Requests, m \in Nets : q # r => (Serves(q, m)' <=> Serves(q, m))
    BY <2>2 DEF Serves
  <2>5. at'[r] = "joining" /\ \A q \in Requests : q # r => at'[q] = at[q]
    BY <1>t, <2>1, SaversAre DEF TypeOK
  <2>6. RaceInv'
    BY <1>i, <2>1, <2>2, <2>4, <2>5 DEF RaceInv, Saving
  <2>7. OpenIsListed'
    BY <1>i, <2>1, <2>2 DEF OpenIsListed
  <2> QED
    BY <2>3, <2>6, <2>7 DEF ReachInv
<1>5. ASSUME NEW r \in Requests, PostJoined(r) PROVE ReachInv'
  <2> DEFINE n == req[r].net
  <2>1. req[r] # NoRequest /\ n \in Nets /\ at[r] = "joining" /\ req[r].op = "post"
        /\ held[r] = None /\ Serves(r, n)
    BY <1>5, <1>t, RequestsAre, SaversAre DEF PostJoined, ActorInv, Serves
  <2>2. /\ made' = Opened(n) /\ map' = [map EXCEPT ![n] = Len(made')]
        /\ late' = IF stage \in {"stopping", "closing"} THEN late \cup {Len(made')} ELSE late
        /\ config' = config \cup {n}
        /\ \/ at' = [at EXCEPT ![r] = "saving"] /\ req' = req
           \/ at' = [at EXCEPT ![r] = "idle"] /\ req' = [req EXCEPT ![r] = NoRequest]
        /\ UNCHANGED <<stage, todo, held, done, raced>>
    BY <1>5 DEF PostJoined, Answered
  <2> HIDE DEF n
  <2>3. /\ Len(made') = Len(made) + 1 /\ made'[Len(made')].net = n
        /\ \A s \in 1 .. Len(made) : made'[s] = made[s]
    BY <1>b, <2>1, <2>2, OpenedIs
  <2>4. map'[n] = Len(made') /\ \A m \in Nets : m # n => map'[m] = map[m]
    BY <1>t, <2>1, <2>2 DEF TypeOK
  <2>5. /\ \A m \in Nets : map[m] \in 0 .. Len(made)
        /\ \A p \in Savers : held[p] \in 0 .. Len(made)
    BY <1>t DEF TypeOK
  <2>6. n \in raced \/ map[n] = None
    BY <1>i, <2>1 DEF RaceInv
  <2>7. stage \notin {"down", "starting", "exiting"}
    BY <1>t, <2>1, SaversAre DEF ActorInv
  <2>8. /\ \A q \in Requests : q # r => req'[q] = req[q] /\ at'[q] = at[q]
        /\ \/ at'[r] = "saving" /\ req'[r] = req[r]
           \/ at'[r] = "idle" /\ req'[r] = NoRequest
    BY <1>t, <2>2, SaversAre DEF TypeOK
  <2>9. MapInv'
    <3>1. \A m \in Nets : map'[m] # None => made'[map'[m]].net = m /\ m \in config'
      BY <1>b, <1>i, <2>2, <2>3, <2>4, <2>5 DEF MapInv, None
    <3>2. \A q \in Requests : held'[q] # None => made'[held'[q]].net = req'[q].net
      BY <1>b, <1>i, <2>1, <2>2, <2>3, <2>5, <2>8, SaversAre DEF MapInv, None
    <3>3. stage' \in {"stopping", "closing", "exiting"} =>
              \A m \in Nets : map'[m] \in late' \cup {None}
      BY <1>i, <2>1, <2>2, <2>4, <2>7 DEF MapInv
    <3>4. \A m \in done' :
             /\ map'[m] # None
             /\ m \in raced' \/ made'[map'[m]].phase = "closed" \/ held'[Main] = map'[m]
      <4> TAKE m \in done'
      <4>1. m \in Nets /\ m \in done
        BY <1>t, <2>2 DEF TypeOK
      <4>2. CASE m = n
        BY <1>b, <1>i, <2>2, <2>3, <2>4, <2>6, <4>1, <4>2 DEF MapInv, None
      <4>3. CASE m # n
        <5>1. map[m] \in 1 .. Len(made) /\ map'[m] = map[m]
          BY <1>b, <1>i, <2>4, <2>5, <4>1, <4>3 DEF MapInv, None
        <5> QED
          BY <1>i, <2>2, <2>3, <4>1, <5>1 DEF MapInv
      <4> QED
        BY <4>2, <4>3
    <3> QED
      BY <1>i, <2>2, <2>7, <3>1, <3>2, <3>3, <3>4 DEF MapInv
  <2>10. RaceInv'
    <3> SUFFICES ASSUME NEW m \in Nets \ raced'
                 PROVE  /\ \A p, q \in Requests : Serves(p, m)' /\ Serves(q, m)' => p = q
                        /\ \A q \in Requests : Serves(q, m)' =>
                             /\ at'[q] = "joining" => map'[m] = None
                             /\ at'[q] = "leaving" => map'[m] \in {held'[q], None}
                             /\ Saving(q)' => (req'[q].op = "post" <=> m \in config')
      BY DEF RaceInv
    <3>1. \A q \in Requests : Serves(q, m)' => Serves(q, m) /\ req'[q] = req[q]
      BY <2>8 DEF Serves
    <3>2. \A q \in Requests : Serves(q, m) /\ (q = r \/ m = n) => q = r /\ m = n
      BY <1>i, <2>1, <2>2 DEF RaceInv, Serves, n
    <3>3. CASE m = n
      BY <1>i, <2>1, <2>2, <2>8, <3>1, <3>2, <3>3 DEF Saving
    <3>4. CASE m # n
      BY <1>i, <2>2, <2>4, <2>8, <3>1, <3>2, <3>4 DEF RaceInv, Saving
    <3> QED
      BY <3>3, <3>4
  <2>11. OpenIsListed'
    <3> SUFFICES ASSUME NEW s \in 1 .. Len(made'), made'[s].phase # "closed"
                 PROVE  \/ map'[made'[s].net] = s
                        \/ \E p \in Savers : held'[p] = s
                        \/ made'[s].net \in raced'
                        \/ s \in late'
      BY DEF OpenIsListed
    <3>1. CASE s = Len(made')
      BY <2>3, <2>4, <3>1
    <3>2. CASE s # Len(made')
      <4>1. s \in 1 .. Len(made) /\ made'[s] = made[s] /\ s # None
        BY <1>b, <2>3, <3>2 DEF None
      <4>2. made[s].net \in Nets
        BY <1>b, <4>1, NetOf
      <4>3. \/ map[made[s].net] = s \/ \E p \in Savers : held[p] = s
            \/ made[s].net \in raced \/ s \in late
        BY <1>i, <3>2, <4>1 DEF OpenIsListed
      <4> QED
        BY <2>2, <2>4, <2>6, <4>1, <4>2, <4>3
    <3> QED
      BY <3>1, <3>2
  <2> QED
    BY <2>9, <2>10, <2>11 DEF ReachInv
<1>6. ASSUME NEW r \in Requests, NEW n \in Nets, Delete(r, n) PROVE ReachInv'
  <2>1. /\ Accepted(r, "delete", n) /\ map[n] # None /\ Leaving(r, map[n])
        /\ UNCHANGED <<stage, todo, map, config, done, late>>
    BY <1>6 DEF Delete
  <2>2. /\ raced \subseteq raced' /\ raced' \subseteq raced \cup {n}
        /\ req[r] = NoRequest
        /\ req'[r].op = "delete" /\ req'[r].net = n
        /\ Serves(r, n)' /\ \A m \in Nets : m # n => ~Serves(r, m)'
        /\ \A q \in Requests \ {r} : req'[q] = req[q]
        /\ \A m \in Nets \ raced' :
             \A p, q \in Requests : Serves(p, m)' /\ Serves(q, m)' => p = q
    BY <1>i, <2>1, AcceptedRaces
  <2>3. map[n] \in 1 .. Len(made)
    BY <1>b, <1>t, <2>1 DEF TypeOK, None
  <2>4. /\ Len(made') = Len(made)
        /\ \A t \in 1 .. Len(made) :
             /\ made'[t].net = made[t].net
             /\ made'[t].phase = "closed" <=> made[t].phase = "closed"
        /\ at' = [at EXCEPT ![r] = "leaving"] /\ held' = [held EXCEPT ![r] = map[n]]
    BY <1>t, <2>1, <2>3, LeavingIs, SaversAre
  <2>5. /\ at'[r] = "leaving" /\ held'[r] = map[n]
        /\ \A q \in Savers : q # r => at'[q] = at[q] /\ held'[q] = held[q]
        /\ held[r] = None
    BY <1>t, <2>2, <2>4, SaversAre DEF TypeOK, ActorInv
  <2>6. \A q \in Requests, m \in Nets : q # r => (Serves(q, m)' <=> Serves(q, m))
    BY <2>2 DEF Serves
  <2>7. /\ \A m \in Nets : map[m] # None => map[m] \in 1 .. Len(made)
        /\ \A p \in Savers : held[p] # None => held[p] \in 1 .. Len(made)
    BY <1>b, <1>t DEF TypeOK, None
  <2>8. MapInv'
    <3>1. \A q \in Requests : held'[q] # None => made'[held'[q]].net = req'[q].net
      BY <1>i, <2>1, <2>2, <2>3, <2>4, <2>5, <2>7, SaversAre DEF MapInv
    <3>2. \A m \in done' : m \in Nets
      BY <1>t DEF TypeOK
    <3> QED
      BY <1>i, <2>1, <2>2, <2>4, <2>5, <2>7, <3>1, <3>2, SaversAre DEF MapInv
  <2>9. RaceInv'
    BY <1>i, <2>1, <2>2, <2>5, <2>6, SaversAre DEF RaceInv, Saving
  <2>10. OpenIsListed'
    BY <1>i, <2>1, <2>2, <2>4, <2>5 DEF OpenIsListed, None
  <2> QED
    BY <2>8, <2>9, <2>10 DEF ReachInv
<1>7. ASSUME NEW r \in Requests, DeleteLeft(r) PROVE ReachInv'
  <2> DEFINE n == req[r].net
  <2>1. /\ at[r] = "leaving" /\ held[r] # None /\ req[r] # NoRequest /\ n \in Nets
        /\ req[r].op = "delete" /\ Serves(r, n)
    BY <1>7, <1>t, RequestsAre, SaversAre DEF DeleteLeft, ActorInv, Serves
  <2>2. /\ made' = Left(r) /\ map' = [map EXCEPT ![n] = None] /\ done' = done \ {n}
        /\ config' = config \ {n}
        /\ at' = [at EXCEPT ![r] = "saving"] /\ held' = [held EXCEPT ![r] = None]
        /\ UNCHANGED <<stage, todo, req, raced, late>>
    BY <1>7 DEF DeleteLeft, ghostVars
  <2> HIDE DEF n
  <2>3. /\ Len(made') = Len(made)
        /\ \A t \in 1 .. Len(made) :
             /\ made'[t].net = made[t].net
             /\ made'[t].phase = IF t = held[r] THEN "closed" ELSE made[t].phase
    BY <1>t, <2>1, <2>2, LeftIs, SaversAre
  <2>4. map'[n] = None /\ \A m \in Nets : m # n => map'[m] = map[m]
    BY <1>t, <2>1, <2>2 DEF TypeOK
  <2>5. /\ at'[r] = "saving" /\ held'[r] = None
        /\ \A q \in Savers : q # r => at'[q] = at[q] /\ held'[q] = held[q]
    BY <1>t, <2>2, SaversAre DEF TypeOK
  <2>6. /\ \A m \in Nets : map[m] # None => map[m] \in 1 .. Len(made)
        /\ \A p \in Savers : held[p] # None => held[p] \in 1 .. Len(made)
    BY <1>b, <1>t DEF TypeOK, None
  <2>7. stage \notin {"down", "starting", "exiting"}
    BY <1>t, <2>1, SaversAre DEF ActorInv
  <2>8. n \in raced \/ map[n] \in {held[r], None}
    BY <1>i, <2>1 DEF RaceInv
  <2>9. MapInv'
    <3>1. \A q \in Requests : held'[q] # None => made'[held'[q]].net = req'[q].net
      BY <1>i, <2>2, <2>3, <2>5, <2>6, SaversAre DEF MapInv
    <3>2. \A m \in Nets : map'[m] # None => made'[map'[m]].net = m /\ m \in config'
      BY <1>i, <2>2, <2>3, <2>4, <2>6 DEF MapInv
    <3>3. \A m \in done' :
             /\ map'[m] # None
             /\ m \in raced' \/ made'[map'[m]].phase = "closed" \/ held'[Main] = map'[m]
      <4>1. \A m \in done' : m \in done /\ m \in Nets /\ m # n
        BY <1>t, <2>2 DEF TypeOK
      <4> QED
        BY <1>i, <2>2, <2>3, <2>4, <2>5, <2>6, <4>1, SaversAre DEF MapInv
    <3>4. stage' \in {"stopping", "closing", "exiting"} =>
              \A m \in Nets : map'[m] \in late' \cup {None}
      BY <1>i, <2>2, <2>4 DEF MapInv
    <3>5. stage' # "leaving" => done' = {}
      BY <1>i, <2>2 DEF MapInv
    <3> QED
      BY <2>2, <2>7, <3>1, <3>2, <3>3, <3>4, <3>5 DEF MapInv
  <2>10. RaceInv'
    <3>1. \A q \in Requests, m \in Nets : Serves(q, m)' <=> Serves(q, m)
      BY <2>2 DEF Serves
    <3>2. \A q \in Requests, m \in Nets \ raced :
              Serves(q, m) /\ (q = r \/ m = n) => q = r /\ m = n
      BY <1>i, <2>1, <2>2 DEF RaceInv, Serves, n
    <3> QED
      BY <1>i, <2>1, <2>2, <2>4, <2>5, <3>1, <3>2, SaversAre DEF RaceInv, Saving
  <2>11. OpenIsListed'
    <3> SUFFICES ASSUME NEW s \in 1 .. Len(made'), made'[s].phase # "closed"
                 PROVE  \/ map'[made'[s].net] = s
                        \/ \E p \in Savers : held'[p] = s
                        \/ made'[s].net \in raced'
                        \/ s \in late'
      BY DEF OpenIsListed
    <3>1. /\ s \in 1 .. Len(made) /\ s # held[r] /\ made[s].phase # "closed"
          /\ made'[s].net = made[s].net /\ made[s].net \in Nets
      BY <1>b, <2>3, NetOf
    <3>2. \/ map[made[s].net] = s \/ \E p \in Savers : held[p] = s
          \/ made[s].net \in raced \/ s \in late
      BY <1>i, <3>1 DEF OpenIsListed
    <3>3. map[made[s].net] = s => made[s].net # n \/ n \in raced
      BY <1>b, <2>8, <3>1 DEF None
    <3> QED
      BY <2>2, <2>4, <2>5, <3>1, <3>2, <3>3
  <2> QED
    BY <2>9, <2>10, <2>11 DEF ReachInv
<1>8. ASSUME NEW n \in Nets, LeaveNext(n) PROVE ReachInv'
  <2>1. /\ stage = "leaving" /\ at[Main] = "idle" /\ map[n] # None /\ done' = done \cup {n}
        /\ n \notin done /\ Leaving(Main, map[n])
        /\ UNCHANGED <<stage, todo, map, config, req, raced, late>>
    BY <1>8 DEF LeaveNext, Ahead, ghostVars
  <2>2. map[n] \in 1 .. Len(made)
    BY <1>b, <1>t, <2>1 DEF TypeOK, None
  <2>3. /\ Len(made') = Len(made)
        /\ \A t \in 1 .. Len(made) :
             /\ made'[t].net = made[t].net
             /\ made'[t].phase = "closed" <=> made[t].phase = "closed"
        /\ at' = [at EXCEPT ![Main] = "leaving"] /\ held' = [held EXCEPT ![Main] = map[n]]
    BY <1>t, <2>1, <2>2, LeavingIs, SaversAre
  <2>4. /\ held'[Main] = map[n] /\ held[Main] = None
        /\ \A q \in Requests : at'[q] = at[q] /\ held'[q] = held[q]
    BY <1>t, <2>1, <2>3, SaversAre DEF TypeOK, ActorInv
  <2>5. /\ \A m \in Nets : map[m] # None => map[m] \in 1 .. Len(made)
        /\ \A p \in Savers : held[p] # None => held[p] \in 1 .. Len(made)
    BY <1>b, <1>t DEF TypeOK, None
  <2>6. MapInv'
    <3>1. \A q \in Requests : held'[q] # None => made'[held'[q]].net = req'[q].net
      BY <1>i, <2>1, <2>3, <2>4, <2>5, SaversAre DEF MapInv
    <3>2. \A m \in done' :
             /\ map'[m] # None
             /\ m \in raced' \/ made'[map'[m]].phase = "closed" \/ held'[Main] = map'[m]
      <4>1. \A m \in done' : m \in Nets
        BY <1>t DEF TypeOK
      <4>2. held[Main] # map[n] /\ \A m \in done : held[Main] # map[m]
        BY <1>i, <2>1, <2>4 DEF MapInv
      <4> QED
        BY <1>i, <2>1, <2>3, <2>4, <2>5, <4>1, <4>2 DEF MapInv
    <3>3. \A m \in Nets : map'[m] # None => made'[map'[m]].net = m /\ m \in config'
      BY <1>i, <2>1, <2>3, <2>5 DEF MapInv
    <3> QED
      BY <2>1, <3>1, <3>2, <3>3 DEF MapInv
  <2>7. RaceInv'
    BY <1>i, <2>1, <2>4 DEF RaceInv, Serves, Saving
  <2>8. OpenIsListed'
    BY <1>i, <2>1, <2>3, <2>4, SaversAre DEF OpenIsListed, None
  <2> QED
    BY <2>6, <2>7, <2>8 DEF ReachInv
<1>9. CASE LeftNext
  <2>1. /\ stage = "leaving" /\ at[Main] = "leaving" /\ made' = Left(Main) /\ held[Main] # None
        /\ at' = [at EXCEPT ![Main] = "idle"] /\ held' = [held EXCEPT ![Main] = None]
        /\ UNCHANGED <<stage, todo, map, config, req, done, raced, late>>
    BY <1>9, <1>t, SaversAre DEF LeftNext, ghostVars, ActorInv
  <2>2. /\ Len(made') = Len(made)
        /\ \A t \in 1 .. Len(made) :
             /\ made'[t].net = made[t].net
             /\ made'[t].phase = IF t = held[Main] THEN "closed" ELSE made[t].phase
    BY <1>t, <2>1, LeftIs, SaversAre
  <2>3. /\ held'[Main] = None
        /\ \A q \in Requests : at'[q] = at[q] /\ held'[q] = held[q]
    BY <1>t, <2>1, SaversAre DEF TypeOK
  <2>4. /\ \A m \in Nets : map[m] # None => map[m] \in 1 .. Len(made)
        /\ \A p \in Savers : held[p] # None => held[p] \in 1 .. Len(made)
    BY <1>b, <1>t DEF TypeOK, None
  <2>5. MapInv'
    <3>1. \A q \in Requests : held'[q] # None => made'[held'[q]].net = req'[q].net
      BY <1>i, <2>1, <2>2, <2>3, <2>4, SaversAre DEF MapInv
    <3>2. \A m \in done' :
             /\ map'[m] # None
             /\ m \in raced' \/ made'[map'[m]].phase = "closed" \/ held'[Main] = map'[m]
      <4>1. \A m \in done' : m \in Nets
        BY <1>t DEF TypeOK
      <4> QED
        BY <1>i, <2>1, <2>2, <2>4, <4>1 DEF MapInv
    <3>3. \A m \in Nets : map'[m] # None => made'[map'[m]].net = m /\ m \in config'
      BY <1>i, <2>1, <2>2, <2>4 DEF MapInv
    <3> QED
      BY <2>1, <3>1, <3>2, <3>3 DEF MapInv
  <2>6. RaceInv'
    BY <1>i, <2>1, <2>3 DEF RaceInv, Serves, Saving
  <2>7. OpenIsListed'
    BY <1>i, <2>1, <2>2, <2>3, SaversAre DEF OpenIsListed
  <2> QED
    BY <2>5, <2>6, <2>7 DEF ReachInv
<1>10. CASE ClearSessions
  <2>1. /\ stage = "leaving" /\ at[Main] = "idle" /\ Ahead = {} /\ stage' = "stopping"
        /\ map' = [n \in Nets |-> None] /\ done' = {}
        /\ UNCHANGED <<todo, made, config, req, at, held, raced, late>>
    BY <1>10 DEF ClearSessions, ghostVars
  <2>2. held[Main] = None
    BY <1>t, <2>1, SaversAre DEF ActorInv
  <2>3. MapInv'
    BY <1>i, <2>1 DEF MapInv
  <2>4. RaceInv'
    BY <1>i, <2>1 DEF RaceInv, Serves, Saving
  <2>5. OpenIsListed'
    <3> SUFFICES ASSUME NEW s \in 1 .. Len(made), made[s].phase # "closed",
                        map[made[s].net] = s
                 PROVE  made[s].net \in raced
      BY <1>i, <2>1 DEF OpenIsListed
    <3>1. made[s].net \in Nets /\ s # None
      BY <1>b, NetOf DEF None
    <3>2. made[s].net \in done
      BY <2>1, <3>1 DEF Ahead
    <3> QED
      BY <1>i, <2>2, <3>1, <3>2 DEF MapInv
  <2> QED
    BY <2>3, <2>4, <2>5 DEF ReachInv
<1>11. CASE Down
  <2>1. /\ stage' = "down" /\ todo' = {} /\ done' = {}
        /\ made' = <<>> /\ Len(made') = 0 /\ map' = [n \in Nets |-> None]
        /\ req' = [r \in Requests |-> NoRequest] /\ held' = Nobody
    BY <1>11 DEF Down
  <2>2. MapInv'
    BY <2>1, SaversAre DEF MapInv, Nobody
  <2>3. RaceInv' /\ OpenIsListed'
    BY <2>1 DEF RaceInv, Serves, OpenIsListed
  <2> QED
    BY <2>2, <2>3 DEF ReachInv
<1> QED
  BY <1>1, <1>2, <1>3, <1>4, <1>5, <1>6, <1>7, <1>8, <1>9, <1>10, <1>11 DEF Next

-----------------------------------------------------------------------------
(***************************************************************************)
(* Sessions: what is answered, what is configured and what is on disk.     *)
(***************************************************************************)

Settled(n) == \A r \in Requests : Serves(r, n) => ~Saving(r)

KnownInv ==
    stage # "down" => \A n \in Nets \ raced : Settled(n) =>
        /\ known[n] = "joined" => n \in config
        /\ known[n] = "left" => n \notin config

\* A save that no other save overlaps has the configuration as its text, but
\* for the networks whose own save has not come as far as that.
SaveInv ==
    /\ \A p, q \in Underway : p # q => p \in mixed
    /\ \A p \in Underway \ mixed :
         /\ at[p] = "writing" => file = Empty
         /\ \A n \in Nets : (\A r \in Requests : Serves(r, n) => at[r] # "saving")
                                => (n \in text[p] <=> n \in config)

FileInv ==
    ~spoiled =>
        /\ stage = "down" => \A n \in Nets :
             /\ known[n] = "joined" => n \in file.nets
             /\ known[n] = "left" => n \notin file.nets
        /\ (stage # "down" /\ \A p \in Savers : at[p] # "writing") =>
             \A n \in Nets : Settled(n) => (n \in file.nets <=> n \in config)

ConfigInv == KnownInv /\ SaveInv /\ FileInv

\* A step that no save and no change of the configuration is part of.
LEMMA QuietStep ==
    ASSUME ConfigInv, stage # "down", stage' # "down", raced \subseteq raced',
           UNCHANGED <<config, file, text, mixed, spoiled>>,
           \A q \in Requests : Saving(q) \/ Saving(q)' => req'[q] = req[q] /\ at'[q] = at[q],
           \A p \in Savers : {at[p], at'[p]} \cap {"opening", "writing"} # {} => at'[p] = at[p],
           \A n \in Nets : known'[n] = known[n] \/ (known'[n] = "joined" /\ n \in config)
    PROVE  ConfigInv'
<1>1. \A n \in Nets : Settled(n)' => Settled(n)
  BY DEF Settled, Serves, Saving
<1>2. Underway' = Underway
  BY DEF Underway
<1>3. KnownInv'
  BY <1>1 DEF ConfigInv, KnownInv
<1>4. SaveInv'
  <2>1. ASSUME NEW n \in Nets, \A r \in Requests : Serves(r, n)' => at'[r] # "saving"
        PROVE  \A r \in Requests : Serves(r, n) => at[r] # "saving"
    BY <2>1 DEF Serves, Saving
  <2>2. \A p \in Underway : at'[p] = at[p]
    BY DEF Underway
  <2> QED
    BY <1>2, <2>1, <2>2 DEF ConfigInv, SaveInv
<1>5. FileInv'
  <2>1. (\A p \in Savers : at'[p] # "writing") => \A p \in Savers : at[p] # "writing"
    OBVIOUS
  <2> QED
    BY <1>1, <2>1 DEF ConfigInv, FileInv
<1> QED
  BY <1>3, <1>4, <1>5 DEF ConfigInv

\* A request changes the configuration and goes on to save it.
LEMMA ChangeStep ==
    ASSUME TypeOK, ConfigInv, stage # "down", NEW r \in Requests, NEW n \in Nets,
           Serves(r, n), at[r] \in {"joining", "leaving"},
           at' = [at EXCEPT ![r] = "saving"],
           \A m \in Nets \ {n} : m \in config' <=> m \in config,
           UNCHANGED <<stage, req, known, raced, file, text, mixed, spoiled>>
    PROVE  ConfigInv'
<1>1. at'[r] = "saving" /\ \A p \in Savers : p # r => at'[p] = at[p]
  BY SaversAre DEF TypeOK
<1>2. \A q \in Requests, m \in Nets : Serves(q, m)' <=> Serves(q, m)
  BY DEF Serves
<1>3. /\ \A m \in Nets : Settled(m)' => m # n /\ Settled(m)
      /\ \A m \in Nets : (\A q \in Requests : Serves(q, m)' => at'[q] # "saving") =>
             m # n /\ \A q \in Requests : Serves(q, m) => at[q] # "saving"
  BY <1>1, <1>2, SaversAre DEF Settled, Saving
<1>4. Underway' = Underway /\ \A p \in Underway : at'[p] = at[p]
  BY <1>1, SaversAre DEF Underway
<1>5. KnownInv'
  BY <1>3 DEF ConfigInv, KnownInv
<1>6. SaveInv'
  BY <1>3, <1>4 DEF ConfigInv, SaveInv
<1>7. FileInv'
  BY <1>1, <1>3, SaversAre DEF ConfigInv, FileInv
<1> QED
  BY <1>5, <1>6, <1>7 DEF ConfigInv

\* A save ends.
LEMMA OverStep ==
    ASSUME ActorsOK, ReachInv, ConfigInv, NEW p \in Savers, at[p] \in {"opening", "writing"},
           SaveOver(p),
           \/ spoiled'
           \/ at[p] = "writing" /\ file' = Over(file, text[p]) /\ spoiled' = (p \in mixed)
    PROVE  ConfigInv'
<1>1. /\ stage # "down" /\ stage' # "down"
      /\ at'[p] = "idle" /\ \A q \in Savers : q # p => at'[q] = at[q]
      /\ mixed' = mixed \ {p} /\ text' = [text EXCEPT ![p] = {}]
      /\ UNCHANGED <<config, raced>>
  BY SaversAre DEF SaveOver, ActorsOK, ActorInv, TypeOK, sessionVars
<1>2. \A q \in Requests \ {p} : req'[q] = req[q]
  BY DEF SaveOver, Answered, ActorsOK, TypeOK
<1>3. \A q \in Requests, n \in Nets : q # p => (Serves(q, n)' <=> Serves(q, n))
  BY <1>2 DEF Serves
<1>4. Underway' = Underway \ {p} /\ p \in Underway
  BY <1>1 DEF Underway
<1>5. KnownInv'
  <2> SUFFICES ASSUME NEW n \in Nets \ raced, Settled(n)'
               PROVE  /\ known'[n] = "joined" => n \in config
                      /\ known'[n] = "left" => n \notin config
    BY <1>1 DEF KnownInv
  <2>1. CASE p \in Requests /\ Serves(p, n)
    <3>1. /\ known' = [known EXCEPT ![n] = IF req[p].op = "post" THEN "joined" ELSE "left"]
          /\ req[p].op = "post" <=> n \in config
      BY <1>4, <2>1, SaversAre
      DEF SaveOver, Serves, ReachInv, RaceInv, Saving, Underway
    <3> QED
      BY <3>1 DEF ActorsOK, TypeOK
  <2>2. CASE ~(p \in Requests /\ Serves(p, n))
    <3>1. \A q \in Requests : Serves(q, n) => q # p
      BY <2>2
    <3>2. Settled(n)
      BY <1>1, <1>3, <3>1, SaversAre DEF Settled, Saving
    <3>3. known'[n] = known[n]
      <4>1. p \in Requests => req[p] # NoRequest
        BY <1>1, <1>4 DEF ActorsOK, ActorInv, Underway
      <4> QED
        BY <2>2, <4>1 DEF SaveOver, Serves, ActorsOK, TypeOK
    <3> QED
      BY <1>1, <3>2, <3>3 DEF ConfigInv, KnownInv
  <2> QED
    BY <2>1, <2>2
<1>6. SaveInv'
  <2>1. \A q \in Underway' : q \in mixed
    BY <1>4 DEF ConfigInv, SaveInv
  <2> QED
    BY <1>1, <1>4, <2>1 DEF SaveInv
<1>7. FileInv'
  <2> SUFFICES ASSUME ~spoiled', NEW n \in Nets, Settled(n)'
               PROVE  n \in file'.nets <=> n \in config
    BY <1>1 DEF FileInv
  <2>1. at[p] = "writing" /\ file' = Over(file, text[p]) /\ p \in Underway \ mixed
    BY <1>4
  <2>2. file = Empty /\ text[p] \in SUBSET Nets
    BY <2>1 DEF ConfigInv, SaveInv, ActorsOK, TypeOK
  <2>3. file'.nets = text[p]
    BY <2>1, <2>2, TextsAre
  <2>4. \A r \in Requests : Serves(r, n) => at[r] # "saving"
    BY <1>1, <1>3, <2>1, SaversAre DEF Settled, Saving
  <2> QED
    BY <2>1, <2>3, <2>4 DEF ConfigInv, SaveInv
<1> QED
  BY <1>5, <1>6, <1>7 DEF ConfigInv

LEMMA ConfigStep == ActorsOK /\ ReachInv /\ ConfigInv /\ [Next]_vars => ConfigInv'
<1> SUFFICES ASSUME ActorsOK, ReachInv, ConfigInv, [Next]_vars PROVE ConfigInv'
  OBVIOUS
<1>t. TypeOK /\ ActorInv
  BY DEF ActorsOK
<1>1. CASE Start
  <2>1. /\ stage = "down" /\ stage' = "starting" /\ config' = file.nets /\ ~spoiled'
        /\ known' = [n \in Nets |-> IF spoiled THEN "unknown" ELSE known[n]]
        /\ file' = file /\ at' = at /\ \A p \in Savers : at[p] = "idle"
    BY <1>1, <1>t DEF Start, ActorInv
  <2>2. KnownInv'
    BY <2>1 DEF KnownInv, ConfigInv, FileInv
  <2> QED
    BY <2>1, <2>2 DEF ConfigInv, SaveInv, FileInv, Underway
<1>2. CASE Listen \/ Signal \/ CloseApp \/ ClearSessions \/ UNCHANGED vars
           \/ \E n \in Nets : Rejoin(n)
  <2>1. CASE UNCHANGED vars
    BY <2>1 DEF vars, sessionVars, saveVars, ghostVars, ConfigInv, KnownInv, SaveInv, FileInv,
                Underway, Settled, Serves, Saving
  <2>2. CASE ~UNCHANGED vars
    <3>1. /\ stage # "down" /\ stage' # "down"
          /\ UNCHANGED <<config, file, text, mixed, spoiled, raced, req, at, known>>
      BY <1>2, <2>2 DEF Listen, Signal, CloseApp, ClearSessions, Rejoin, sessionVars,
                        saveVars, ghostVars
    <3> QED
      BY <3>1, QuietStep
  <2> QED
    BY <2>1, <2>2
<1>3. ASSUME NEW n \in Nets, LeaveNext(n) PROVE ConfigInv'
  <2>1. /\ stage = "leaving" /\ at[Main] = "idle" /\ at' = [at EXCEPT ![Main] = "leaving"]
        /\ UNCHANGED <<stage, config, file, text, mixed, spoiled, raced, req, known>>
    BY <1>3 DEF LeaveNext, Leaving, saveVars, ghostVars
  <2>2. at'[Main] = "leaving" /\ \A p \in Savers : p # Main => at'[p] = at[p]
    BY <1>t, <2>1, SaversAre DEF TypeOK
  <2> QED
    BY <2>1, <2>2, QuietStep, SaversAre
<1>4. CASE LeftNext \/ FinalSave
  <2>1. /\ at[Main] \in {"leaving", "idle"}
        /\ at' = [at EXCEPT ![Main] = "idle"] \/ at' = [at EXCEPT ![Main] = "saving"]
        /\ stage # "down" /\ stage' = stage
        /\ UNCHANGED <<config, file, text, mixed, spoiled, raced, req, known>>
    BY <1>4 DEF LeftNext, FinalSave, sessionVars, saveVars, ghostVars
  <2>2. at'[Main] \in {"idle", "saving"} /\ \A p \in Savers : p # Main => at'[p] = at[p]
    BY <1>t, <2>1, SaversAre DEF TypeOK
  <2> QED
    BY <2>1, <2>2, QuietStep, SaversAre
<1>5. ASSUME NEW r \in Requests, NEW n \in Nets, PostPresent(r, n) PROVE ConfigInv'
  <2>1. /\ stage # "down" /\ stage' = stage /\ raced \subseteq raced' /\ n \in config
        /\ UNCHANGED <<config, file, text, mixed, spoiled, req, at>>
        /\ known' = [known EXCEPT ![n] = "joined"]
    BY <1>5 DEF PostPresent, Asked, sessionVars, saveVars, ReachInv, MapInv
  <2>2. \A m \in Nets : known'[m] = known[m] \/ (known'[m] = "joined" /\ m \in config)
    BY <1>t, <2>1 DEF TypeOK
  <2> QED
    BY <2>1, <2>2, QuietStep
<1>6. ASSUME NEW r \in Requests, NEW n \in Nets, Post(r, n) \/ Delete(r, n) PROVE ConfigInv'
  <2>1. /\ stage # "down" /\ stage' = stage /\ raced \subseteq raced' /\ req[r] = NoRequest
        /\ UNCHANGED <<config, file, text, mixed, spoiled, known>>
        /\ \E v \in {"joining", "leaving"} : at' = [at EXCEPT ![r] = v]
        /\ \A q \in Requests : q # r => req'[q] = req[q]
    BY <1>6, <1>t DEF Post, Delete, Accepted, Asked, Leaving, sessionVars, saveVars, TypeOK
  <2>2. at'[r] \in {"joining", "leaving"} /\ \A p \in Savers : p # r => at'[p] = at[p]
    BY <1>t, <2>1, SaversAre DEF TypeOK
  <2>3. at[r] = "idle"
    BY <1>t, <2>1 DEF ActorInv
  <2>4. \A q \in Requests : Saving(q) \/ Saving(q)' => req'[q] = req[q] /\ at'[q] = at[q]
    BY <2>1, <2>2, <2>3, SaversAre DEF Saving
  <2> QED
    BY <2>1, <2>2, <2>3, <2>4, QuietStep
<1>7. ASSUME NEW r \in Requests,
             PostFails(r) \/ (PostJoined(r) /\ req[r].net \in config)
      PROVE  ConfigInv'
  <2>1. /\ stage' = stage /\ raced' = raced /\ at[r] = "joining"
        /\ UNCHANGED <<config, file, text, mixed, spoiled>>
        /\ at' = [at EXCEPT ![r] = "idle"]
        /\ \A q \in Requests : q # r => req'[q] = req[q]
        /\ \A m \in Nets : known'[m] = known[m] \/ (known'[m] = "joined" /\ m \in config)
    BY <1>7, <1>t DEF PostFails, PostJoined, Answered, sessionVars, saveVars, ghostVars, TypeOK
  <2>2. at'[r] = "idle" /\ \A p \in Savers : p # r => at'[p] = at[p]
    BY <1>t, <2>1, SaversAre DEF TypeOK
  <2>3. stage # "down"
    BY <1>t, <2>1, SaversAre DEF ActorInv
  <2>4. \A q \in Requests : Saving(q) \/ Saving(q)' => req'[q] = req[q] /\ at'[q] = at[q]
    BY <2>1, <2>2, SaversAre DEF Saving
  <2> QED
    BY <2>1, <2>2, <2>3, <2>4, QuietStep
<1>8. ASSUME NEW r \in Requests,
             DeleteLeft(r) \/ (PostJoined(r) /\ req[r].net \notin config)
      PROVE  ConfigInv'
  <2>1. /\ at[r] \in {"joining", "leaving"} /\ at' = [at EXCEPT ![r] = "saving"]
        /\ \A m \in Nets \ {req[r].net} : m \in config' <=> m \in config
        /\ UNCHANGED <<stage, req, known, raced, file, text, mixed, spoiled>>
    BY <1>8 DEF DeleteLeft, PostJoined, saveVars, ghostVars
  <2>2. Serves(r, req[r].net) /\ req[r].net \in Nets /\ stage # "down"
    BY <1>t, <2>1, RequestsAre, SaversAre DEF ActorInv, Serves
  <2> QED
    BY <1>t, <2>1, <2>2, ChangeStep
<1>9. ASSUME NEW p \in Savers, Stringify(p) PROVE ConfigInv'
  <2>1. /\ at[p] = "saving" /\ at'[p] = "opening" /\ text'[p] = config
        /\ \A q \in Savers : q # p => at'[q] = at[q]
        /\ mixed' = IF Underway = {} THEN mixed ELSE mixed \cup Underway \cup {p}
        /\ UNCHANGED <<stage, config, req, file, spoiled, raced, known>>
    BY <1>9, <1>t DEF Stringify, TypeOK, sessionVars, ghostVars
  <2>2. \A n \in Nets : Settled(n)' <=> Settled(n)
    BY <2>1, SaversAre DEF Settled, Serves, Saving
  <2>3. Underway' = Underway \cup {p}
    BY <2>1 DEF Underway
  <2>4. \A q \in Underway' \ mixed' : q = p
    BY <2>1, <2>3
  <2>5. \A q, s \in Underway' : q # s => q \in mixed'
    BY <2>1, <2>3 DEF ConfigInv, SaveInv
  <2> QED
    BY <2>1, <2>2, <2>4, <2>5 DEF ConfigInv, KnownInv, SaveInv, FileInv
<1>10. ASSUME NEW p \in Savers, Truncate(p) PROVE ConfigInv'
  <2>1. /\ at[p] = "opening" /\ at'[p] = "writing" /\ file' = Empty
        /\ \A q \in Savers : q # p => at'[q] = at[q]
        /\ UNCHANGED <<stage, config, req, text, mixed, spoiled, raced, known>>
    BY <1>10, <1>t DEF Truncate, TypeOK, sessionVars, ghostVars
  <2>2. \A n \in Nets : Settled(n)' <=> Settled(n)
    BY <2>1, SaversAre DEF Settled, Serves, Saving
  <2>3. Underway' = Underway
    BY <2>1 DEF Underway
  <2>4. \A q \in Requests, n \in Nets :
            (Serves(q, n)' => at'[q] # "saving") <=> (Serves(q, n) => at[q] # "saving")
    BY <2>1, SaversAre DEF Serves
  <2>5. SaveInv'
    BY <2>1, <2>3, <2>4 DEF ConfigInv, SaveInv
  <2>6. stage # "down"
    BY <1>t, <2>1 DEF ActorInv
  <2> QED
    BY <2>1, <2>2, <2>5, <2>6 DEF ConfigInv, KnownInv, FileInv
<1>11. ASSUME NEW p \in Savers, Write(p) \/ SaveFails(p) PROVE ConfigInv'
  BY <1>11, OverStep DEF Write, SaveFails
<1>12. CASE Down
  <2>1. /\ stage # "down" /\ stage' = "down" /\ file' = file
        /\ at' = [p \in Savers |-> "idle"]
        /\ known' = [n \in Nets |-> IF Busy(n) \/ n \in raced THEN "unknown" ELSE known[n]]
        /\ ~spoiled' => ~spoiled /\ \A p \in Savers : at[p] # "writing"
    BY <1>12 DEF Down
  <2>2. \A n \in Nets : ~Busy(n) => Settled(n)
    BY DEF Busy, Settled, Serves
  <2>3. FileInv'
    BY <2>1, <2>2 DEF ConfigInv, KnownInv, FileInv
  <2> QED
    BY <2>1, <2>3 DEF ConfigInv, KnownInv, SaveInv, Underway
<1> QED
  BY <1>1, <1>2, <1>3, <1>4, <1>5, <1>6, <1>7, <1>8, <1>9, <1>10, <1>11, <1>12 DEF Next

-----------------------------------------------------------------------------

SessionsInv == ActorsOK /\ ReachInv /\ ConfigInv

LEMMA SessionsHold == Spec => []SessionsInv
<1>1. Init => SessionsInv
  <2> SUFFICES ASSUME Init PROVE SessionsInv
    OBVIOUS
  <2>1. /\ stage = "down" /\ todo = {} /\ done = {} /\ raced = {} /\ late = {} /\ mixed = {}
        /\ made = <<>> /\ map = [n \in Nets |-> None] /\ config = {} /\ file = Empty
        /\ at = [p \in Savers |-> "idle"] /\ req = [r \in Requests |-> NoRequest]
        /\ held = [p \in Savers |-> None] /\ text = [p \in Savers |-> {}]
        /\ known = [n \in Nets |-> "unknown"] /\ spoiled = FALSE /\ restarts = 0 /\ faults = 0
    BY DEF Init, Nobody
  <2>2. made \in Seq(Session) /\ Len(made) = 0 /\ MaxSessions \in Nat
    BY <2>1, SessionsAssumption
  <2>3. TypeOK
    <3>1. /\ Len(made) <= MaxSessions /\ None \in 0 .. Len(made)
          /\ restarts \in 0 .. MaxRestarts /\ faults \in 0 .. MaxFaults
      BY <2>1, <2>2, SessionsAssumption DEF None
    <3>2. /\ map \in [Nets -> 0 .. Len(made)] /\ held \in [Savers -> 0 .. Len(made)]
          /\ at \in [Savers -> {"idle", "joining", "leaving", "saving", "opening", "writing"}]
          /\ req \in [Requests -> [op : {"post", "delete"}, net : Nets] \cup {NoRequest}]
          /\ text \in [Savers -> SUBSET Nets]
          /\ known \in [Nets -> {"unknown", "joined", "left"}]
      BY <2>1, <3>1
    <3> QED
      BY <2>1, <2>2, <3>1, <3>2, TextsAre DEF TypeOK, Stages, Session
  <2>4. ActorInv /\ MapInv /\ RaceInv
    BY <2>1, SaversAre DEF ActorInv, MapInv, RaceInv, Saving, Serves
  <2>5. OpenIsListed /\ ConfigInv
    BY <2>1, <2>2 DEF OpenIsListed, ConfigInv, KnownInv, SaveInv, FileInv, Underway
  <2> QED
    BY <2>3, <2>4, <2>5 DEF SessionsInv, ActorsOK, ReachInv
<1>2. SessionsInv /\ [Next]_vars => SessionsInv'
  BY ActorsStep, ReachStep, ConfigStep DEF SessionsInv
<1> QED
  BY <1>1, <1>2, PTL DEF Spec

\* Every session that is open is one that the Map has or that somebody is
\* leaving, and a daemon that ends by itself has closed them all, whatever
\* requests, saves and kills come in which order.
THEOREM NoneIsLost == Spec => []NoSessionIsLost
<1>1. SessionsInv => NoSessionIsLost
  <2> SUFFICES ASSUME SessionsInv PROVE NoSessionIsLost
    OBVIOUS
  <2>1. TypeOK /\ ActorInv /\ MapInv /\ OpenIsListed /\ made \in Seq(Session)
    BY DEF SessionsInv, ActorsOK, ReachInv, TypeOK, Session
  <2>2. ExitLeavesNone
    <3> SUFFICES ASSUME stage = "exiting", NEW s \in 1 .. Len(made), made[s].phase # "closed"
                 PROVE  made[s].net \in raced \/ s \in late
      BY DEF ExitLeavesNone
    <3>1. made[s].net \in Nets /\ s # None
      BY <2>1, NetOf DEF None
    <3>2. \A p \in Savers : held[p] = None
      BY <2>1 DEF ActorInv
    <3>3. map[made[s].net] \in late \cup {None}
      BY <2>1, <3>1 DEF MapInv
    <3> QED
      BY <2>1, <3>1, <3>2, <3>3 DEF OpenIsListed
  <2> QED
    BY <2>1, <2>2 DEF NoSessionIsLost
<1> QED
  BY <1>1, SessionsHold, PTL

\* What POST or DELETE of a network last answered holds, across restarts and
\* kills at any step of the save.
THEOREM AnswersOutlive == Spec => []LastAnswerHolds
<1>1. SessionsInv => LastAnswerHolds
  <2> SUFFICES ASSUME SessionsInv, NEW n \in Nets \ raced, stage \in {"starting", "serving"},
                      ~Busy(n)
               PROVE  /\ known[n] = "joined" => n \in config
                      /\ known[n] = "left" => n \notin config /\ map[n] = None
    BY DEF LastAnswerHolds
  <2>1. Settled(n)
    BY DEF Busy, Settled, Serves
  <2>2. map[n] # None => n \in config
    BY DEF SessionsInv, ReachInv, MapInv
  <2> QED
    BY <2>1, <2>2 DEF SessionsInv, ConfigInv, KnownInv
<1> QED
  BY <1>1, SessionsHold, PTL
=============================================================================
