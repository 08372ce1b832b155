----------------------------- MODULE Lifecycle ------------------------------
(***************************************************************************)
(* Daemon processes of one user, one data directory and one port, and the  *)
(* commands that start and stop them: packages/daemon/src/index.ts and     *)
(* lifecycle.ts, packages/cli/src/client.ts and commands/daemon.ts, and    *)
(* the identity file of packages/core/src/identity.ts.                     *)
(*                                                                         *)
(* A process looks for a PID file when it starts and writes its own when   *)
(* it listens, which is seconds later.  The port has one owner.            *)
(***************************************************************************)
EXTENDS Naturals, FiniteSets

CONSTANTS
    Clients,            \* commands that can run at a time
    MaxSpawns,          \* bound on the processes
    MaxKills            \* bound on processes killed without a signal handler

ASSUME LifecycleAssumption ==
    /\ IsFiniteSet(Clients)
    /\ MaxSpawns \in Nat /\ MaxKills \in Nat

Processes == 1 .. MaxSpawns
NoProcess == 0
Torn   == MaxSpawns + 1         \* identity.key was created and not written

VARIABLES
    pc,                 \* where a process is
    port,               \* the process that listens
    pidFile,            \* <dataDir>/daemon.pid
    samePath,           \* the commands look for that file, not for another
    idFile, ident,      \* the seed in identity.key and that of a process, told
                        \* by the process that drew it
    command,            \* where a command is
    overlapped,         \* history: two processes were starting up at a time
    swept,              \* history: a PID file was removed that nobody had read
    kills

fileVars == <<port, pidFile, idFile>>
lifecycleVars == <<pc, fileVars, samePath, ident, command, overlapped, swept, kills>>

Starting == {"sweeping", "identity", "generating", "writing", "joining", "listening"}
Up       == {"registering", "serving", "leaving", "closed"}
Phases   == {"unborn", "loading", "dead", "killed"} \cup Starting \cup Up

Alive(p)  == pc[p] \notin {"unborn", "dead", "killed"}
Open(p)   == pc[p] \in Up \cup {"joining", "listening"}

LifecycleTypeOK ==
    /\ pc \in [Processes -> Phases]
    /\ port \in Processes \cup {NoProcess}
    /\ pidFile \in Processes \cup {NoProcess}
    /\ samePath \in BOOLEAN
    /\ idFile \in Processes \cup {NoProcess, Torn}
    /\ ident \in [Processes -> Processes \cup {NoProcess}]
    /\ command \in [Clients -> {"idle", "stopping", "restarting", "ensuring", "polling"}]
    /\ overlapped \in BOOLEAN
    /\ swept \in BOOLEAN
    /\ kills \in 0 .. MaxKills

LifecycleInit ==
    /\ pc = [p \in Processes |-> "unborn"]
    /\ port = NoProcess /\ pidFile = NoProcess /\ idFile = NoProcess
    /\ samePath \in BOOLEAN
    /\ ident = [p \in Processes |-> NoProcess]
    /\ command = [c \in Clients |-> "idle"]
    /\ overlapped = FALSE
    /\ swept = FALSE
    /\ kills = 0

Goes(p, phase) == pc' = [pc EXCEPT ![p] = phase]
Frees(p) == port' = IF port = p THEN NoProcess ELSE port

-----------------------------------------------------------------------------
(***************************************************************************)
(* Start-up.                                                               *)
(***************************************************************************)

\* isDaemonRunning, up to the unlink of a file that names a dead process.
Check(p) ==
    /\ pc[p] = "loading"
    /\ \/ pidFile = NoProcess /\ Goes(p, "identity")
       \/ pidFile # NoProcess /\ Alive(pidFile) /\ Goes(p, "dead")
       \/ pidFile # NoProcess /\ ~Alive(pidFile) /\ Goes(p, "sweeping")
    /\ overlapped' = (overlapped \/ \E q \in Processes : pc[q] \in Starting)
    /\ UNCHANGED <<fileVars, samePath, ident, command, swept, kills>>

Sweep(p) ==
    /\ pc[p] = "sweeping"
    /\ pidFile' = NoProcess
    /\ swept' = (swept \/ (pidFile # NoProcess /\ Alive(pidFile)))
    /\ Goes(p, "identity")
    /\ UNCHANGED <<port, idFile, samePath, ident, command, overlapped, kills>>

\* loadOrCreateIdentity: a file of any other length is corrupt.
LoadIdentity(p) ==
    /\ pc[p] = "identity"
    /\ \/ /\ idFile \in Processes
          /\ ident' = [ident EXCEPT ![p] = idFile]
          /\ Goes(p, "joining")
       \/ /\ idFile \in {NoProcess, Torn}
          /\ Goes(p, "generating")
          /\ UNCHANGED ident
    /\ UNCHANGED <<fileVars, samePath, command, overlapped, swept, kills>>

CreateIdentity(p) ==
    /\ pc[p] = "generating"
    /\ idFile' = Torn
    /\ Goes(p, "writing")
    /\ UNCHANGED <<port, pidFile, samePath, ident, command, overlapped, swept, kills>>

WriteIdentity(p) ==
    /\ pc[p] = "writing"
    /\ idFile' = p
    /\ ident' = [ident EXCEPT ![p] = p]
    /\ Goes(p, "joining")
    /\ UNCHANGED <<port, pidFile, samePath, command, overlapped, swept, kills>>

\* Mutant of Bind: the PID file is written before app.listen().
BindNamed(p) ==
    /\ pc[p] = "joining"
    /\ pidFile' = p
    /\ \/ port = NoProcess /\ port' = p /\ Goes(p, "listening")
       \/ port # NoProcess /\ Goes(p, "dead") /\ UNCHANGED port
    /\ UNCHANGED <<idFile, samePath, ident, command, overlapped, swept, kills>>

\* The engine runs and the networks are joined; then app.listen().
Bind(p) ==
    /\ pc[p] = "joining"
    /\ \/ port = NoProcess /\ port' = p /\ Goes(p, "listening")
       \/ port # NoProcess /\ Goes(p, "dead") /\ UNCHANGED port
    /\ UNCHANGED <<pidFile, idFile, samePath, ident, command, overlapped, swept, kills>>

WritePid(p) ==
    /\ pc[p] = "listening"
    /\ pidFile' = p
    /\ Goes(p, "registering")
    /\ UNCHANGED <<port, idFile, samePath, ident, command, overlapped, swept, kills>>

\* The mailbox protocol is registered, and then the signal handlers are.
Ready(p) ==
    /\ pc[p] = "registering"
    /\ Goes(p, "serving")
    /\ UNCHANGED <<fileVars, samePath, ident, command, overlapped, swept, kills>>

-----------------------------------------------------------------------------
(***************************************************************************)
(* The end of a process.                                                   *)
(***************************************************************************)

\* SIGTERM.  The handlers are registered late and run once.
Signalled(p) ==
    \/ pc[p] = "serving" /\ Goes(p, "leaving") /\ UNCHANGED port
    \/ Alive(p) /\ pc[p] # "serving" /\ Goes(p, "killed") /\ Frees(p)

Terminate(p) ==
    /\ Signalled(p)
    /\ pc[p] = "serving" \/ kills < MaxKills
    /\ kills' = IF pc[p] = "serving" THEN kills ELSE kills + 1
    /\ UNCHANGED <<pidFile, idFile, samePath, ident, command, overlapped, swept>>

Kill(p) ==
    /\ Alive(p) /\ kills < MaxKills
    /\ kills' = kills + 1
    /\ Goes(p, "killed")
    /\ Frees(p)
    /\ UNCHANGED <<pidFile, idFile, samePath, ident, command, overlapped, swept>>

\* Mutant of Shutdown: the PID file goes first.
ShutdownCleared(p) ==
    /\ pc[p] = "leaving"
    /\ Goes(p, "closed")
    /\ Frees(p)
    /\ pidFile' = NoProcess
    /\ UNCHANGED <<idFile, samePath, ident, command, overlapped, swept, kills>>

\* The networks are left, then app.close() gives up the port.
Shutdown(p) ==
    /\ pc[p] = "leaving"
    /\ Goes(p, "closed")
    /\ Frees(p)
    /\ UNCHANGED <<pidFile, idFile, samePath, ident, command, overlapped, swept, kills>>

\* saveConfig, clearPid, exit.
Exit(p) ==
    /\ pc[p] = "closed"
    /\ Goes(p, "dead")
    /\ pidFile' = NoProcess
    /\ swept' = (swept \/ (pidFile \notin {NoProcess, p} /\ Alive(pidFile)))
    /\ UNCHANGED <<port, idFile, samePath, ident, command, overlapped, kills>>

-----------------------------------------------------------------------------
(***************************************************************************)
(* Commands.  Most of them begin with ensureDaemon.                        *)
(***************************************************************************)

Healthy == port # NoProcess

Ensure(c) ==
    /\ command[c] = "idle"
    /\ command' = [command EXCEPT ![c] = "ensuring"]
    /\ UNCHANGED <<pc, fileVars, samePath, ident, overlapped, swept, kills>>

\* ensureDaemon finds a daemon that answers, at once or when it polls.
Found(c) ==
    /\ command[c] \in {"ensuring", "polling"}
    /\ Healthy
    /\ command' = [command EXCEPT ![c] = "idle"]
    /\ UNCHANGED <<pc, fileVars, samePath, ident, overlapped, swept, kills>>

Spawn(c) ==
    /\ command[c] = "ensuring"
    /\ ~Healthy
    /\ \E p \in Processes :
          /\ pc[p] = "unborn" /\ \A q \in 1 .. p - 1 : pc[q] # "unborn"
          /\ Goes(p, "loading")
    /\ command' = [command EXCEPT ![c] = "polling"]
    /\ UNCHANGED <<fileVars, samePath, ident, overlapped, swept, kills>>

\* Ten seconds have passed.
GiveUp(c) ==
    /\ command[c] = "polling"
    /\ ~Healthy
    /\ command' = [command EXCEPT ![c] = "idle"]
    /\ UNCHANGED <<pc, fileVars, samePath, ident, overlapped, swept, kills>>

\* The PID file where commands/daemon.ts looks for it.
SeenPid == IF samePath THEN pidFile ELSE NoProcess

\* daemon stop and daemon restart up to the wait that follows the signal.
Stop(c, next) ==
    /\ command[c] = "idle"
    /\ \/ /\ SeenPid # NoProcess
          /\ Signalled(SeenPid)
          /\ command' = [command EXCEPT ![c] = next]
       \/ /\ SeenPid = NoProcess /\ next = "restarting"
          /\ command' = [command EXCEPT ![c] = next]
          /\ UNCHANGED <<pc, port>>
    /\ UNCHANGED <<pidFile, idFile, samePath, ident, overlapped, swept, kills>>

\* 1.5 s later stop has "stopped" the daemon, 2 s later restart ensures one.
Waited(c) ==
    /\ command[c] \in {"stopping", "restarting"}
    /\ command' = [command EXCEPT ![c] = IF @ = "stopping" THEN "idle" ELSE "ensuring"]
    /\ UNCHANGED <<pc, fileVars, samePath, ident, overlapped, swept, kills>>

Run(p) ==
    \/ Check(p) \/ Sweep(p) \/ LoadIdentity(p) \/ CreateIdentity(p) \/ WriteIdentity(p)
    \/ Bind(p) \/ WritePid(p) \/ Ready(p) \/ Shutdown(p) \/ Exit(p)

Command(c) == Found(c) \/ Spawn(c) \/ GiveUp(c) \/ Waited(c)

LifecycleNext ==
    \/ \E p \in Processes : Run(p) \/ Terminate(p) \/ Kill(p)
    \/ \E c \in Clients : Command(c) \/ Ensure(c) \/ Stop(c, "stopping") \/ Stop(c, "restarting")

LifecycleSpec == LifecycleInit /\ [][LifecycleNext]_lifecycleVars

-----------------------------------------------------------------------------
(***************************************************************************)
(* Properties.                                                             *)
(***************************************************************************)

\* No two processes have the stores of the data directory open, unless two
\* were starting up at a time: whichever way the ones before it ended, and
\* while one is still closing, a new one comes up only into an empty house.
OneOwner ==
    ~overlapped => \A p, q \in Processes : Open(p) /\ Open(q) => p = q

\* The PID file names the process that serves, so that it can be stopped, even
\* when others that started with it gave up at the port.
PidNamesServer ==
    \A p \in Processes : pc[p] = "serving" /\ ~swept => pidFile = p

\* A daemon that serves has the identity that the file has, and that the next
\* one will have, unless two of them drew one at a time.
IdentityIsKept ==
    ~overlapped => \A p \in Processes : pc[p] = "serving" => idFile = ident[p]

\* Daemons that start up one after the other, whatever became of the ones
\* before, are as one: one at a time, with one identity.
OneAfterTheOther == LifecycleTypeOK /\ OneOwner /\ IdentityIsKept

\* What the code says and does not do.

\* Repeated calls of loadOrCreateIdentity return one identity (identity.ts:224).
SameIdentity ==
    \A p, q \in Processes : pc[p] = "serving" /\ ident[q] # NoProcess => ident[p] = ident[q]
=============================================================================
