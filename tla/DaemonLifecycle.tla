--------------------------- MODULE DaemonLifecycle ---------------------------
(***************************************************************************)
(* How the background daemon of a project is started, found and stopped:   *)
(* src/src/runtime/ultra_daemon.cpp, the POSIX halves of ultra_ipc_server  *)
(* and ultra_ipc_client (src/src/ipc), and the commands wake_ai, sleep_ai  *)
(* and clean of CLIEngine.cpp.                                             *)
(*                                                                         *)
(* Processes share two files of .ultra_daemon: the pid file, which says    *)
(* whether a daemon lives, and the socket, through which it is reached.    *)
(* Each file operation is a step.  Nothing locks either file.  A command   *)
(* here is one process of a user or an editor; a daemon is named by its    *)
(* pid, and pids are not reused.                                           *)
(***************************************************************************)
EXTENDS Naturals, FiniteSets

CONSTANTS Daemons,    \* pids daemons get, in any order
          Clients,    \* processes that run commands, one at a time each
          Commands,   \* the commands they run
          None,       \* no file
          Racers,     \* bound: the clients of the behaviours that are not calm
          RacePids    \* bound: the pids daemons get in them

ASSUME DaemonAssumption ==
    /\ None \notin Daemons
    /\ Commands \subseteq {"wake", "stop", "sleep", "clean"}
    /\ Racers \subseteq Clients /\ RacePids \subseteq Daemons

VARIABLES
    calm,       \* commands come one by one, each on a settled system, and
                \* no time limit expires on a daemon that makes progress
    pidFile,    \* the pid in daemon.pid
    sock,       \* the daemon whose socket daemon.sock is
    phase,      \* daemon -> where UltraDaemon::run is
    nameless,   \* living daemons whose pid never reached the file, unnoticed
    inbox,      \* daemon -> requests in the backlog of its socket
    cmd,        \* client -> command it runs
    pc,         \* client -> where the command is
    conn        \* client -> daemon it waits for

files   == <<pidFile, sock>>
daemons == <<phase, nameless, inbox>>
clients == <<cmd, pc, conn>>
system  == <<files, daemons, clients>>
vars    == <<calm, system>>

Over   == {"exited", "failed", "crashed"}
Phases == {"unborn", "boot", "bind", "listen", "pid", "flush", "serve", "abort",
           "stopping", "cleanPid", "cleanSock"} \cup Over
Steps  == {"idle", "check", "sweepPid", "sweepSock", "spawn", "ask", "asked",
           "answered", "probe", "await", "cleaning"}

\* What a command asks of the daemon.  clean asks for "sleep_ai", which
\* handleRequest does not know and passes on like any runtime request.
RequestOf(command) ==
    IF command = "wake" THEN "wake"
    ELSE IF command \in {"stop", "sleep"} THEN "shutdown" ELSE "other"

Requests == Clients \X {"wake", "shutdown", "other"}

TypeOK ==
    /\ calm \in BOOLEAN
    /\ {pidFile, sock} \subseteq Daemons \cup {None}
    /\ phase \in [Daemons -> Phases]
    /\ nameless \subseteq Daemons
    /\ inbox \in [Daemons -> SUBSET Requests]
    /\ cmd \in [Clients -> Commands \cup {"none"}]
    /\ pc \in [Clients -> Steps]
    /\ conn \in [Clients -> Daemons \cup {None}]

Init ==
    /\ calm \in BOOLEAN
    /\ pidFile = None /\ sock = None
    /\ phase = [d \in Daemons |-> "unborn"]
    /\ nameless = {}
    /\ inbox = [d \in Daemons |-> {}]
    /\ cmd = [c \in Clients |-> "none"]
    /\ pc = [c \in Clients |-> "idle"]
    /\ conn = [c \in Clients |-> None]

-----------------------------------------------------------------------------
Living(d)    == phase[d] \notin Over \cup {"unborn"}
Listening(d) == phase[d] \in {"pid", "flush", "serve", "abort", "stopping"}

\* isDaemonAlive: the pid file names a process that exists.
Alive == pidFile # None /\ Living(pidFile)

Settled == \A d \in Daemons : Living(d) => phase[d] = "serve"

Advance(d, next) == phase' = [phase EXCEPT ![d] = next]

-----------------------------------------------------------------------------
(* The daemon process: UltraDaemon::run.                                   *)

\* UltraIPCServer::start removes whatever socket is there, binds and listens.
\* Each call may fail, and then run returns at once: nothing is cleaned up.
StartFails(d) ==
    /\ phase[d] \in {"boot", "bind", "listen"}
    /\ Advance(d, "failed")
    /\ UNCHANGED <<files, nameless, inbox, clients>>

RemoveOldSocket(d) ==
    /\ phase[d] = "boot"
    /\ sock' = None
    /\ Advance(d, "bind")
    /\ UNCHANGED <<pidFile, nameless, inbox, clients>>

\* bind fails when another daemon has put its socket there meanwhile.
Bind(d) ==
    /\ phase[d] = "bind" /\ sock = None
    /\ sock' = d
    /\ Advance(d, "listen")
    /\ UNCHANGED <<pidFile, nameless, inbox, clients>>

Listen(d) ==
    /\ phase[d] = "listen"
    /\ Advance(d, "pid")
    /\ UNCHANGED <<files, nameless, inbox, clients>>

\* Mutant of OpenPid: the daemon serves though the file cannot be opened.
OpenPidUnchecked(d) ==
    /\ phase[d] = "pid"
    /\ \/ pidFile' = None /\ Advance(d, "flush")
       \/ UNCHANGED pidFile /\ Advance(d, "serve")
    /\ UNCHANGED <<sock, nameless, inbox, clients>>

\* writePidFile truncates the file; if it cannot open it, run gives up.  An
\* empty pid file names nobody, like one that is not there.
OpenPid(d) ==
    /\ phase[d] = "pid"
    /\ \/ pidFile' = None /\ Advance(d, "flush")
       \/ UNCHANGED pidFile /\ Advance(d, "abort")
    /\ UNCHANGED <<sock, nameless, inbox, clients>>

\* The stream is tested before its buffer is flushed: a write that fails then,
\* or goes to a file that was removed meanwhile, is noticed by nobody.
WritePid(d) ==
    /\ phase[d] = "flush"
    /\ \/ pidFile' = d /\ UNCHANGED nameless
       \/ nameless' = nameless \cup {d} /\ UNCHANGED pidFile
    /\ Advance(d, "serve")
    /\ UNCHANGED <<sock, inbox, clients>>

\* Mutant of Serve: a shutdown is acknowledged and no more.
ServeIgnoresShutdown(d, r) ==
    /\ phase[d] = "serve" /\ r \in inbox[d]
    /\ inbox' = [inbox EXCEPT ![d] = @ \ {r}]
    /\ pc' = [pc EXCEPT ![r[1]] =
                IF @ = "asked" /\ conn[r[1]] = d THEN "answered" ELSE @]
    /\ UNCHANGED <<files, phase, nameless, cmd, conn>>

\* One turn of the loop.  A reply reaches its client if that still waits.
Serve(d, r) ==
    /\ phase[d] = "serve" /\ r \in inbox[d]
    /\ inbox' = [inbox EXCEPT ![d] = @ \ {r}]
    /\ IF r[2] = "shutdown" THEN Advance(d, "stopping") ELSE UNCHANGED phase
    /\ pc' = [pc EXCEPT ![r[1]] =
                IF @ = "asked" /\ conn[r[1]] = d THEN "answered" ELSE @]
    /\ UNCHANGED <<files, nameless, cmd, conn>>

\* UltraIPCServer::stop: the backlog is lost, and the path removed.
StopServer(d) ==
    /\ phase[d] \in {"stopping", "abort"}
    /\ sock' = None
    /\ inbox' = [inbox EXCEPT ![d] = {}]
    /\ Advance(d, IF phase[d] = "abort" THEN "exited" ELSE "cleanPid")
    /\ UNCHANGED <<pidFile, nameless, clients>>

\* Mutant of CleanPid: the pid file is left to the next wake.
CleanPidSkipped(d) ==
    /\ phase[d] = "cleanPid"
    /\ Advance(d, "cleanSock")
    /\ UNCHANGED <<files, nameless, inbox, clients>>

\* cleanupState removes the pid file and the socket, whoever wrote them.
CleanPid(d) ==
    /\ phase[d] = "cleanPid"
    /\ pidFile' = None
    /\ Advance(d, "cleanSock")
    /\ UNCHANGED <<sock, nameless, inbox, clients>>

CleanSock(d) ==
    /\ phase[d] = "cleanSock"
    /\ sock' = None
    /\ Advance(d, "exited")
    /\ nameless' = nameless \ {d}
    /\ UNCHANGED <<pidFile, inbox, clients>>

Run(d) == \/ StartFails(d) \/ RemoveOldSocket(d) \/ Bind(d) \/ Listen(d)
          \/ OpenPid(d) \/ WritePid(d)
          \/ StopServer(d) \/ CleanPid(d) \/ CleanSock(d)

\* The process is killed; its files stay.
Crash(d) ==
    /\ Living(d)
    /\ Advance(d, "crashed")
    /\ inbox' = [inbox EXCEPT ![d] = {}]
    /\ nameless' = nameless \ {d}
    /\ UNCHANGED <<files, clients>>

-----------------------------------------------------------------------------
(* The commands.                                                           *)

Goto(c, step) ==
    /\ pc' = [pc EXCEPT ![c] = step]
    /\ cmd' = [cmd EXCEPT ![c] = IF step = "idle" THEN "none" ELSE @]

Begin(c, command) ==
    /\ pc[c] = "idle"
    /\ IF calm THEN Settled /\ \A other \in Clients : pc[other] = "idle"
       ELSE c \in Racers
    /\ cmd' = [cmd EXCEPT ![c] = command]
    /\ pc' = [pc EXCEPT ![c] = IF command = "wake" THEN "check" ELSE "ask"]
    /\ UNCHANGED <<files, daemons, conn>>

\* Mutant of Check: a new daemon in any case.
CheckSkipped(c) ==
    /\ pc[c] = "check"
    /\ Goto(c, "sweepPid")
    /\ UNCHANGED <<files, daemons, conn>>

\* wake: a daemon that lives is left alone.
Check(c) ==
    /\ pc[c] = "check"
    /\ Goto(c, IF Alive THEN "idle" ELSE "sweepPid")
    /\ UNCHANGED <<files, daemons, conn>>

\* wake, before it spawns, and sleep, when no daemon is alive, remove the pid
\* file and the socket.
SweepPid(c) ==
    /\ pc[c] = "sweepPid"
    /\ pidFile' = None
    /\ Goto(c, "sweepSock")
    /\ UNCHANGED <<sock, daemons, conn>>

SweepSock(c) ==
    /\ pc[c] = "sweepSock"
    /\ sock' = None
    /\ Goto(c, IF cmd[c] = "wake" THEN "spawn" ELSE "idle")
    /\ UNCHANGED <<pidFile, daemons, conn>>

Pids == IF calm THEN Daemons ELSE RacePids

\* spawnDetached: fork may fail, and then wake returns false.
SpawnDetached(c) ==
    /\ pc[c] = "spawn"
    /\ \/ \E d \in Pids : phase[d] = "unborn" /\ Advance(d, "boot")
          /\ Goto(c, "ask")
       \/ UNCHANGED phase /\ Goto(c, "idle")
    /\ UNCHANGED <<files, nameless, inbox, conn>>

\* Where a command goes when its request got no answer: wake asks again, sleep
\* looks whether a daemon is alive, sleep_ai reports an error, clean goes on.
Unanswered(c) ==
    IF cmd[c] = "wake" THEN "ask"
    ELSE IF cmd[c] = "sleep" THEN "probe"
    ELSE IF cmd[c] = "stop" THEN "idle" ELSE "cleaning"

\* sendRequest: connect and send.
Ask(c) ==
    /\ pc[c] = "ask"
    /\ IF sock # None /\ Listening(sock)
       THEN /\ inbox' = [inbox EXCEPT ![sock] =
                           @ \cup {<<c, RequestOf(cmd[c])>>}]
            /\ conn' = [conn EXCEPT ![c] = sock]
            /\ Goto(c, "asked")
       ELSE Goto(c, Unanswered(c)) /\ UNCHANGED <<inbox, conn>>
    /\ UNCHANGED <<files, phase, nameless>>

Answered(c) ==
    /\ pc[c] = "answered"
    /\ conn' = [conn EXCEPT ![c] = None]
    /\ Goto(c, IF cmd[c] \in {"wake", "stop"} THEN "idle"
               ELSE IF cmd[c] = "sleep" THEN "await" ELSE "cleaning")
    /\ UNCHANGED <<files, daemons>>

\* The daemon closed the connection, or the receive timeout expired: then the
\* request stays in the backlog.
NoAnswer(c) ==
    /\ pc[c] = "asked"
    /\ calm => ~Listening(conn[c])
    /\ conn' = [conn EXCEPT ![c] = None]
    /\ Goto(c, Unanswered(c))
    /\ UNCHANGED <<files, daemons>>

\* sleep without an answer: no daemon alive means there is nothing to wait for.
Probe(c) ==
    /\ pc[c] = "probe"
    /\ Goto(c, IF Alive THEN "await" ELSE "sweepPid")
    /\ UNCHANGED <<files, daemons, conn>>

\* Mutant of AwaitExit: an acknowledged shutdown is taken for an exit.
AwaitNothing(c) ==
    /\ pc[c] = "await"
    /\ Goto(c, "sweepPid")
    /\ UNCHANGED <<files, daemons, conn>>

AwaitExit(c) ==
    /\ pc[c] = "await" /\ ~Alive
    /\ Goto(c, "sweepPid")
    /\ UNCHANGED <<files, daemons, conn>>

\* The deadline of wake or sleep: what is alive now decides the result.  Calm:
\* no daemon that could still be reached is at work.
Deadline(c) ==
    /\ \/ pc[c] = "await"
       \/ pc[c] = "ask" /\ cmd[c] = "wake"
    /\ calm => \A d \in Daemons : Living(d) => d \in nameless
    /\ Goto(c, "idle")
    /\ UNCHANGED <<files, daemons, conn>>

CleanDone(c) ==
    /\ pc[c] = "cleaning"
    /\ Goto(c, "idle")
    /\ UNCHANGED <<files, daemons, conn>>

Command(c) == \/ Check(c) \/ SweepPid(c) \/ SweepSock(c) \/ SpawnDetached(c)
              \/ Ask(c) \/ Answered(c) \/ NoAnswer(c) \/ Probe(c)
              \/ AwaitExit(c) \/ Deadline(c) \/ CleanDone(c)

-----------------------------------------------------------------------------
Next ==
    /\ \/ \E d \in Daemons : \/ Run(d) \/ Crash(d)
                             \/ \E r \in Requests : Serve(d, r)
       \/ \E c \in Clients : \/ Command(c)
                             \/ \E command \in Commands : Begin(c, command)
    /\ UNCHANGED calm

\* A process that can take a step takes it, and the backlog is a queue, so
\* every request in it is served in the end; it matters for shutdowns.
Fairness ==
    /\ \A d \in Daemons : WF_system(Run(d))
    /\ \A d \in Daemons, c \in Clients : WF_system(Serve(d, <<c, "shutdown">>))
    /\ \A c \in Clients : WF_system(Command(c))

Spec == Init /\ [][Next]_vars /\ Fairness

-----------------------------------------------------------------------------
\* Daemons that can be found: their pid reached the file.
Named(d) == Living(d) /\ d \notin nameless

(* With calm commands a project has two daemons only if one of them has    *)
(* failed, unnoticed, to write its pid, whatever files crashed daemons     *)
(* left behind (wake's check, its sweep and start's).                      *)
AtMostOneDaemon ==
    calm => \A d, e \in Daemons : Named(d) /\ Named(e) => d = e

(* With calm commands a daemon that serves and has written its pid can be  *)
(* found and reached: no sweep of a command, no cleanup of an earlier      *)
(* daemon and no end of one that was lost from sight took its files.       *)
ServingIsReachable ==
    calm => \A d \in Daemons :
        Named(d) /\ phase[d] = "serve" => pidFile = d /\ sock = d

(* When sleep ends having swept the files, no daemon listens any more but  *)
(* one whose pid file stayed empty, for which sleep does not wait.         *)
SleepLeavesNoServer ==
    [][calm => \A c \in Clients :
          SweepSock(c) /\ cmd[c] = "sleep" =>
              \A d \in Daemons : Listening(d) => d \in nameless]_vars

(* A daemon that has listened and ends by itself, for a shutdown or having *)
(* failed to open its pid file, among any other commands and daemons,      *)
(* leaves neither a pid file nor a socket of its own; one whose start has  *)
(* failed leaves no pid file.  Whose files it may take with it is another  *)
(* matter: see ServingIsReachable.                                         *)
CleanExitLeavesNoTrace ==
    \A d \in Daemons :
        /\ phase[d] \in {"exited", "failed"} => pidFile # d
        /\ phase[d] = "exited" => sock # d

(* With calm commands sleep returns, without the help of its deadline,     *)
(* also when the daemon dies while it shuts down.                          *)
SleepReturns ==
    \A c \in Clients : cmd[c] = "sleep" ~> pc[c] = "idle"

(* A shutdown request in a daemon's backlog ends that daemon, also when it *)
(* was sent before the pid file existed or its sender has given up.        *)
ShutdownEndsDaemon ==
    \A d \in Daemons : (\E c \in Clients : <<c, "shutdown">> \in inbox[d])
                           ~> phase[d] \in Over

=============================================================================
