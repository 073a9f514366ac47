------------------------ MODULE DaemonLifecycle_proofs ------------------------
(***************************************************************************)
(* Proofs about the daemon's life, for any number of pids and clients.     *)
(***************************************************************************)
EXTENDS DaemonLifecycle, TLAPS

\* Which command is where.
CommandsInPlace ==
    \A c \in Clients :
        /\ pc[c] # "idle" => cmd[c] \in Commands
        /\ pc[c] \in {"check", "spawn"} => cmd[c] = "wake"
        /\ pc[c] \in {"sweepPid", "sweepSock"} => cmd[c] \in {"wake", "sleep"}
        /\ pc[c] \in {"probe", "await"} => cmd[c] = "sleep"
        /\ pc[c] = "asked" => conn[c] \in Daemons

Typed == TypeOK /\ CommandsInPlace

LEMMA InitTyped == Init => Typed
BY DaemonAssumption
   DEF Init, Typed, TypeOK, CommandsInPlace, Phases, Over, Steps, Requests

\* The steps of a daemon move its phase within the phases.
LEMMA DaemonStepsTyped ==
    ASSUME Typed, NEW d \in Daemons, Run(d) \/ Crash(d), UNCHANGED calm
    PROVE  Typed'
  <1>1. UNCHANGED clients
    BY DEF Run, Crash, StartFails, RemoveOldSocket, Bind, Listen, OpenPid, WritePid, StopServer, CleanPid, CleanSock
  <1>2. /\ phase' \in [Daemons -> Phases] /\ inbox' \in [Daemons -> SUBSET Requests]
        /\ nameless' \subseteq Daemons
    BY DEF Typed, TypeOK, Run, Crash, StartFails, RemoveOldSocket, Bind, Listen, OpenPid, WritePid, StopServer,
           CleanPid, CleanSock, Advance, Phases, Over, daemons
  <1>3. {pidFile', sock'} \subseteq Daemons \cup {None}
    BY DEF Typed, TypeOK, Run, Crash, StartFails, RemoveOldSocket, Bind, Listen, OpenPid, WritePid, StopServer,
           CleanPid, CleanSock, files
  <1> QED
    BY <1>1, <1>2, <1>3 DEF Typed, TypeOK, CommandsInPlace, clients

LEMMA ServeTyped ==
    ASSUME Typed, NEW d \in Daemons, NEW r \in Requests, Serve(d, r), UNCHANGED calm
    PROVE  Typed'
  <1>1. phase' \in [Daemons -> Phases] /\ inbox' \in [Daemons -> SUBSET Requests]
    BY DEF Typed, TypeOK, Serve, Advance, Phases, Over
  <1>2. pc' \in [Clients -> Steps]
    BY DEF Typed, TypeOK, Serve, Steps
  <1>3. \A c \in Clients : \/ pc'[c] = pc[c]
                           \/ (pc[c] = "asked" /\ pc'[c] = "answered")
    BY DEF Typed, TypeOK, Serve
  <1> QED
    BY <1>1, <1>2, <1>3 DEF Typed, TypeOK, CommandsInPlace, Serve, files

\* A command that goes on stays the same command.
LEMMA GotoTyped ==
    ASSUME Typed, NEW c \in Clients, NEW step \in Steps, Goto(c, step)
    PROVE  /\ pc' = [pc EXCEPT ![c] = step] /\ pc' \in [Clients -> Steps]
           /\ cmd' \in [Clients -> Commands \cup {"none"}]
           /\ pc'[c] = step
           /\ step # "idle" => cmd' = cmd
           /\ \A e \in Clients \ {c} : pc'[e] = pc[e] /\ cmd'[e] = cmd[e]
BY DEF Typed, TypeOK, Goto

LEMMA CommandTyped ==
    ASSUME Typed, NEW c \in Clients, Command(c), UNCHANGED calm
    PROVE  Typed'
  <1> USE DEF Typed, TypeOK
  <1>1. cmd[c] \in {"wake", "stop", "sleep", "clean"} /\ cmd[c] \in Commands
    BY DaemonAssumption
    DEF CommandsInPlace, Command, Check, SweepPid, SweepSock, SpawnDetached, Ask, Answered,
        NoAnswer, Probe, AwaitExit, Deadline, CleanDone
  <1>2. CASE Check(c)
    <2>1. PICK step \in {"idle", "sweepPid"} : Goto(c, step)
      BY <1>2 DEF Check
    <2>2. step \in Steps
      BY DEF Steps
    <2> QED
      BY <1>2, <2>1, <2>2, GotoTyped DEF Check, CommandsInPlace, files, daemons
  <1>3. CASE SweepPid(c)
    <2>1. Goto(c, "sweepSock") /\ "sweepSock" \in Steps
      BY <1>3 DEF SweepPid, Steps
    <2> QED
      BY <1>3, <2>1, GotoTyped DEF SweepPid, CommandsInPlace, daemons
  <1>4. CASE SweepSock(c)
    <2>1. PICK step \in {"idle", "spawn"} : Goto(c, step) /\ (step = "spawn" => cmd[c] = "wake")
      BY <1>4 DEF SweepSock
    <2>2. step \in Steps
      BY DEF Steps
    <2> QED
      BY <1>4, <2>1, <2>2, GotoTyped DEF SweepSock, CommandsInPlace, daemons
  <1>5. CASE SpawnDetached(c)
    <2>1. PICK step \in {"idle", "ask"} : Goto(c, step)
      BY <1>5 DEF SpawnDetached
    <2>2. step \in Steps
      BY DEF Steps
    <2>3. phase' \in [Daemons -> Phases]
      BY <1>5 DEF SpawnDetached, Advance, Phases
    <2> QED
      BY <1>5, <2>1, <2>2, <2>3, GotoTyped DEF SpawnDetached, CommandsInPlace, files
  <1>6. Unanswered(c) \in {"ask", "probe", "idle", "cleaning"}
        /\ (Unanswered(c) = "probe" => cmd[c] = "sleep")
    BY <1>1 DEF Unanswered
  <1>7. CASE Ask(c)
    <2>1. CASE sock # None /\ Listening(sock)
      <3>1. Goto(c, "asked") /\ "asked" \in Steps
        BY <1>7, <2>1 DEF Ask, Steps
      <3>2. <<c, RequestOf(cmd[c])>> \in Requests
        BY <1>1 DEF RequestOf, Requests
      <3>3. inbox' \in [Daemons -> SUBSET Requests] /\ conn' \in [Clients -> Daemons \cup {None}]
        BY <1>7, <2>1, <3>2 DEF Ask
      <3>4. sock \in Daemons /\ conn' = [conn EXCEPT ![c] = sock]
        BY <1>7, <2>1 DEF Ask
      <3> QED
        BY <1>7, <3>1, <3>3, <3>4, GotoTyped DEF Ask, CommandsInPlace, files
    <2>2. CASE ~(sock # None /\ Listening(sock))
      <3>1. Goto(c, Unanswered(c)) /\ Unanswered(c) \in Steps
        BY <1>6, <1>7, <2>2 DEF Ask, Steps
      <3> QED
        BY <1>6, <1>7, <2>2, <3>1, GotoTyped DEF Ask, CommandsInPlace, files
    <2> QED
      BY <2>1, <2>2
  <1>8. CASE Answered(c)
    <2>1. PICK step \in {"idle", "await", "cleaning"} :
              Goto(c, step) /\ (step = "await" => cmd[c] = "sleep")
      BY <1>1, <1>8 DEF Answered
    <2>2. step \in Steps
      BY DEF Steps
    <2> QED
      BY <1>8, <2>1, <2>2, GotoTyped DEF Answered, CommandsInPlace, files, daemons
  <1>9. CASE NoAnswer(c)
    <2>1. Goto(c, Unanswered(c)) /\ Unanswered(c) \in Steps
      BY <1>6, <1>9 DEF NoAnswer, Steps
    <2> QED
      BY <1>6, <1>9, <2>1, GotoTyped DEF NoAnswer, CommandsInPlace, files, daemons
  <1>10. CASE Probe(c)
    <2>1. PICK step \in {"await", "sweepPid"} : Goto(c, step)
      BY <1>10 DEF Probe
    <2>2. step \in Steps
      BY DEF Steps
    <2> QED
      BY <1>10, <2>1, <2>2, GotoTyped DEF Probe, CommandsInPlace, files, daemons
  <1>11. CASE AwaitExit(c)
    <2>1. Goto(c, "sweepPid") /\ "sweepPid" \in Steps
      BY <1>11 DEF AwaitExit, Steps
    <2> QED
      BY <1>11, <2>1, GotoTyped DEF AwaitExit, CommandsInPlace, files, daemons
  <1>12. CASE Deadline(c) \/ CleanDone(c)
    <2>1. Goto(c, "idle") /\ "idle" \in Steps
      BY <1>12 DEF Deadline, CleanDone, Steps
    <2> QED
      BY <1>12, <2>1, GotoTyped DEF Deadline, CleanDone, CommandsInPlace, files, daemons
  <1> QED
    BY <1>2, <1>3, <1>4, <1>5, <1>7, <1>8, <1>9, <1>10, <1>11, <1>12 DEF Command

LEMMA BeginTyped ==
    ASSUME Typed, NEW c \in Clients, NEW command \in Commands, Begin(c, command), UNCHANGED calm
    PROVE  Typed'
BY DEF Typed, TypeOK, CommandsInPlace, Begin, Steps, files, daemons

LEMMA NextTyped == Typed /\ [Next]_vars => Typed'
<1> SUFFICES ASSUME Typed, [Next]_vars PROVE Typed'
    OBVIOUS
<1>1. CASE UNCHANGED vars
    BY <1>1 DEF Typed, TypeOK, CommandsInPlace, vars, system, files, daemons, clients
<1>2. CASE Next
    BY <1>2, DaemonStepsTyped, ServeTyped, CommandTyped, BeginTyped DEF Next
<1> QED
    BY <1>1, <1>2

-----------------------------------------------------------------------------
(* A daemon's files, whatever else happens: it has them only in some of its *)
(* phases, and it leaves those phases by removing the file or by a crash.   *)

FilesOwned ==
    \A d \in Daemons :
        /\ pidFile = d => phase[d] \in {"serve", "stopping", "cleanPid", "crashed"}
        /\ sock = d => phase[d] \in {"listen", "failed", "pid", "flush", "serve", "abort",
                                    "stopping", "crashed"}

\* Only a daemon that has got past its pid file can be nameless.
NamelessLate ==
    \A d \in nameless :
        phase[d] \in {"serve", "stopping", "cleanPid", "cleanSock"} \cup Over

\* Only a daemon that listens has a backlog.
Quiet == \A d \in Daemons : ~Listening(d) => inbox[d] = {}

Owned == FilesOwned /\ NamelessLate /\ Quiet

LEMMA InitOwned == Init => Owned
BY DaemonAssumption DEF Init, Owned, FilesOwned, NamelessLate, Quiet

LEMMA DaemonStepsOwned ==
    ASSUME Typed, Owned, NEW d \in Daemons, Run(d) \/ Crash(d)
    PROVE  Owned'
  <1> USE DaemonAssumption
      DEF Typed, TypeOK, Owned, FilesOwned, NamelessLate, Quiet, Listening, Living, Over, Advance
  <1>0. CASE StartFails(d)
    BY <1>0 DEF StartFails, files
  <1>1. CASE RemoveOldSocket(d)
    BY <1>1 DEF RemoveOldSocket
  <1>2. CASE Bind(d)
    BY <1>2 DEF Bind
  <1>3. CASE Listen(d)
    BY <1>3 DEF Listen, files
  <1>4. CASE OpenPid(d)
    BY <1>4 DEF OpenPid
  <1>9. CASE WritePid(d)
    BY <1>9 DEF WritePid
  <1>5. CASE StopServer(d)
    BY <1>5 DEF StopServer
  <1>6. CASE CleanPid(d)
    BY <1>6 DEF CleanPid
  <1>7. CASE CleanSock(d)
    BY <1>7 DEF CleanSock
  <1>8. CASE Crash(d)
    BY <1>8 DEF Crash, files
  <1> QED
    BY <1>0, <1>1, <1>2, <1>3, <1>4, <1>5, <1>6, <1>7, <1>8, <1>9 DEF Run

LEMMA ServeOwned ==
    ASSUME Typed, Owned, NEW d \in Daemons, NEW r \in Requests, Serve(d, r)
    PROVE  Owned'
BY DEF Typed, TypeOK, Owned, FilesOwned, NamelessLate, Quiet, Listening, Advance, Serve, Over, files

LEMMA CommandOwned ==
    ASSUME Typed, Owned, NEW c \in Clients, Command(c)
    PROVE  Owned'
  <1> USE DaemonAssumption DEF Typed, TypeOK, Owned, FilesOwned, NamelessLate, Quiet, Listening
  <1>1. CASE SweepPid(c)
    BY <1>1 DEF SweepPid, daemons
  <1>2. CASE SweepSock(c)
    BY <1>2 DEF SweepSock, daemons
  <1>3. CASE SpawnDetached(c)
    BY <1>3 DEF SpawnDetached, Advance, Over, files
  <1>4. CASE Ask(c)
    BY <1>4 DEF Ask, files
  <1>5. CASE \/ Check(c) \/ Answered(c) \/ NoAnswer(c) \/ Probe(c)
             \/ AwaitExit(c) \/ Deadline(c) \/ CleanDone(c)
    <2>1. UNCHANGED <<files, daemons>>
      BY <1>5 DEF Check, Answered, NoAnswer, Probe, AwaitExit, Deadline, CleanDone
    <2> QED
      BY <2>1 DEF files, daemons
  <1> QED
    BY <1>1, <1>2, <1>3, <1>4, <1>5 DEF Command

LEMMA NextOwned == Typed /\ Owned /\ [Next]_vars => Owned'
<1> SUFFICES ASSUME Typed, Owned, [Next]_vars PROVE Owned'
    OBVIOUS
<1>1. CASE UNCHANGED <<files, daemons>>
    BY <1>1 DEF Owned, FilesOwned, NamelessLate, Quiet, Listening, files, daemons
<1>2. ASSUME NEW c \in Clients, NEW command \in Commands, Begin(c, command)
      PROVE  UNCHANGED <<files, daemons>>
    BY <1>2 DEF Begin
<1>3. UNCHANGED vars => UNCHANGED <<files, daemons>>
    BY DEF vars, system
<1> QED
    BY <1>1, <1>2, <1>3, DaemonStepsOwned, ServeOwned, CommandOwned DEF Next

-----------------------------------------------------------------------------
(* Nothing of the state has more than its type, in every behaviour.        *)
THEOREM TypeCorrect == Spec => []TypeOK
<1>1. Typed => TypeOK
    BY DEF Typed
<1> QED
    BY <1>1, InitTyped, NextTyped, PTL DEF Spec

(* A daemon that has listened and ends by itself leaves neither of its      *)
(* files, and one whose start has failed no pid file, for any number of     *)
(* daemons and commands and in any interleaving of their steps              *)
(* (cleanupState, the ends of run and UltraIPCServer::stop).                *)
THEOREM CleanExit == Spec => []CleanExitLeavesNoTrace
<1>1. Owned => CleanExitLeavesNoTrace
    BY DEF Owned, FilesOwned, Typed, TypeOK, CleanExitLeavesNoTrace
<1> QED
    BY <1>1, InitTyped, NextTyped, InitOwned, NextOwned, PTL DEF Spec

-----------------------------------------------------------------------------
(* Calm behaviours.  AtMostOneDaemon needs more than itself: that the one   *)
(* daemon with a pid file keeps its files while it needs them, what each    *)
(* step of the one command that runs may assume of the daemon's phase, and  *)
(* that a nameless daemon shuts down only when there is no other, so that   *)
(* its cleanup takes nobody's files.                                        *)

OneDaemon  == \A d, e \in Daemons : Named(d) /\ Named(e) => d = e
OneCommand == \A c, e \in Clients : pc[c] # "idle" /\ pc[e] # "idle" => c = e

\* A nameless daemon serves, or else it is the only kind there is.
NamelessApart ==
    \A d \in nameless : Living(d) /\ phase[d] # "serve" => \A e \in Daemons : ~Named(e)

FilesKept ==
    \A d \in Daemons : Named(d) =>
        /\ phase[d] \in {"boot", "bind"} => sock = None
        /\ phase[d] \in {"listen", "pid", "flush", "serve", "abort", "stopping"} => sock = d
        /\ phase[d] \in {"serve", "stopping", "cleanPid"} => pidFile = d

\* A request in a backlog is the one its sender waits for.
RequestsAwaited ==
    \A d \in Daemons : \A r \in inbox[d] :
        pc[r[1]] = "asked" /\ conn[r[1]] = d /\ r[2] = RequestOf(cmd[r[1]])

NamedIn(S) == \A d \in Daemons : Named(d) => phase[d] \in S

Starting == {"boot", "bind", "listen", "pid", "flush", "serve", "abort"}
Stopping == {"stopping", "cleanPid", "cleanSock"}

DaemonWhere(c) ==
    /\ pc[c] # "idle" /\ cmd[c] = "wake" =>
           \A d \in nameless : Living(d) => phase[d] = "serve"
    /\ pc[c] = "check" => NamedIn({"serve"})
    /\ pc[c] \in {"sweepPid", "sweepSock"} =>
           NamedIn(IF cmd[c] = "wake" THEN {} ELSE {"cleanSock"})
    /\ pc[c] \in {"spawn", "probe"} => NamedIn({})
    /\ pc[c] = "spawn" => sock = None
    /\ pc[c] \in {"ask", "asked"} => NamedIn(IF cmd[c] = "wake" THEN Starting ELSE {"serve"})
    /\ pc[c] = "asked" => \A d \in Daemons : Named(d) => d = conn[c]
    /\ pc[c] \in {"answered", "await"} /\ cmd[c] = "sleep" => NamedIn(Stopping)

Orderly ==
    /\ OneDaemon /\ OneCommand /\ NamelessApart /\ FilesKept /\ RequestsAwaited
    /\ \A c \in Clients : DaemonWhere(c)

LEMMA InitOrderly == Init => Orderly
BY DaemonAssumption
   DEF Init, Orderly, OneDaemon, OneCommand, NamelessApart, FilesKept, RequestsAwaited,
       DaemonWhere, Named, Living, Over, NamedIn

\* A step of a daemon moves no command, and the daemon only within the phases
\* the command allows.
LEMMA DaemonStepsOrderly ==
    ASSUME Typed, Owned, Orderly, NEW d \in Daemons, Run(d) \/ Crash(d)
    PROVE  Orderly'
  <1> USE DaemonAssumption
      DEF Typed, TypeOK, Living, Over, Advance
  <1>0. UNCHANGED clients
    BY DEF Run, Crash, StartFails, RemoveOldSocket, Bind, Listen, OpenPid, WritePid, StopServer,
           CleanPid, CleanSock
  <1>1. PICK next \in Phases : /\ Advance(d, next) /\ next # "unborn" /\ Living(d)
                               /\ phase[d] = "boot" => next \in {"bind", "failed", "crashed"}
                               /\ phase[d] = "bind" => next \in {"listen", "failed", "crashed"}
                               /\ phase[d] = "listen" => next \in {"pid", "failed", "crashed"}
                               /\ phase[d] = "pid" => next \in {"flush", "abort", "crashed"}
                               /\ phase[d] = "flush" => next \in {"serve", "crashed"}
                               /\ phase[d] = "serve" => next = "crashed"
                               /\ phase[d] = "abort" => next \in Over
                               /\ phase[d] = "stopping" => next \in {"cleanPid", "crashed"}
                               /\ phase[d] = "cleanPid" => next \in {"cleanSock", "crashed"}
                               /\ phase[d] = "cleanSock" => next \in Over
    BY DEF Run, Crash, StartFails, RemoveOldSocket, Bind, Listen, OpenPid, WritePid, StopServer,
           CleanPid, CleanSock, Phases
  <1>2. /\ nameless \ {d} \subseteq nameless'
        /\ d \in nameless \ nameless' => phase'[d] \in Over
        /\ nameless' \subseteq nameless \cup {d}
        /\ d \in nameless' \ nameless => phase'[d] = "serve"
    BY DEF Run, Crash, StartFails, RemoveOldSocket, Bind, Listen, OpenPid, WritePid, StopServer,
           CleanPid, CleanSock
  <1>3. \A e \in Daemons : Named(e)' => Named(e)
    BY <1>1, <1>2 DEF Named
  <1>4. OneDaemon' /\ OneCommand'
    BY <1>0, <1>3 DEF Orderly, OneDaemon, OneCommand, clients
  <1>5. NamelessApart'
    BY <1>1, <1>2, <1>3 DEF Orderly, NamelessApart, Named, Owned, NamelessLate
  <1>6. \A e \in Daemons : Named(e) => e = d \/ phase[d] = "serve"
    BY <1>1 DEF Orderly, OneDaemon, NamelessApart, Named
  <1>7. FilesKept'
    <2> SUFFICES ASSUME NEW e \in Daemons, Named(e)'
                 PROVE  /\ phase'[e] \in {"boot", "bind"} => sock' = None
                        /\ phase'[e] \in {"listen", "pid", "flush", "serve", "abort", "stopping"}
                              => sock' = e
                        /\ phase'[e] \in {"serve", "stopping", "cleanPid"} => pidFile' = e
      BY DEF FilesKept
    <2>1. /\ Named(e)
          /\ phase[e] \in {"boot", "bind"} => sock = None
          /\ phase[e] \in {"listen", "pid", "flush", "serve", "abort", "stopping"} => sock = e
          /\ phase[e] \in {"serve", "stopping", "cleanPid"} => pidFile = e
      BY <1>3 DEF Orderly, FilesKept
    <2>2. CASE e = d
      BY <2>1, <2>2 DEF Named, Run, Crash, StartFails, RemoveOldSocket, Bind, Listen, OpenPid,
                        WritePid, StopServer, CleanPid, CleanSock, files
    <2>3. CASE e # d
      <3>1. phase[d] = "serve"
        BY <1>6, <2>1, <2>3
      <3>2. UNCHANGED files
        BY <3>1 DEF Run, Crash, StartFails, RemoveOldSocket, Bind, Listen, OpenPid,
                    WritePid, StopServer, CleanPid, CleanSock
      <3> QED
        BY <1>1, <2>1, <2>3, <3>2 DEF files
    <2> QED
      BY <2>2, <2>3
  <1>8. RequestsAwaited'
    <2>1. \A e \in Daemons : inbox'[e] \subseteq inbox[e]
      BY DEF Run, Crash, StartFails, RemoveOldSocket, Bind, Listen, OpenPid, WritePid,
             StopServer, CleanPid, CleanSock, files
    <2> QED
      BY <1>0, <2>1 DEF Orderly, RequestsAwaited, clients, RequestOf
  <1>9. ASSUME NEW c \in Clients PROVE DaemonWhere(c)'
    <2>1. DaemonWhere(c) /\ UNCHANGED <<cmd, pc, conn>>
      BY <1>0 DEF Orderly, clients
    <2>2. pc[c] # "idle" /\ cmd[c] = "wake" =>
              \A e \in nameless' : Living(e)' => phase'[e] = "serve"
      BY <1>1, <1>2, <2>1 DEF DaemonWhere
    <2>3. ASSUME NEW S, NamedIn(S), S \in {{}, {"serve"}, {"cleanSock"}, Stopping, Starting}
          PROVE  NamedIn(S)'
      BY <1>1, <1>3, <2>3 DEF NamedIn, Starting, Stopping, Named, Phases
    <2>4. pc[c] = "spawn" => sock' = None
      <3>1. CASE pc[c] = "spawn"
        <4>1. ~Named(d) /\ sock = None
          BY <2>1, <3>1 DEF DaemonWhere, NamedIn
        <4>2. phase[d] \in {"serve", "stopping", "cleanPid", "cleanSock"}
          BY <1>1, <4>1 DEF Named, Owned, NamelessLate
        <4> QED
          BY <4>1, <4>2 DEF Run, Crash, StartFails, RemoveOldSocket, Bind, Listen, OpenPid,
                            WritePid, StopServer, CleanPid, CleanSock, files
      <3> QED
        BY <3>1
    <2> QED
      BY <1>3, <2>1, <2>2, <2>3, <2>4 DEF DaemonWhere
  <1> QED
    BY <1>4, <1>5, <1>7, <1>8, <1>9 DEF Orderly

\* The loop serves the one command that runs, and stops for sleep and stop.
LEMMA ServeOrderly ==
    ASSUME Typed, Owned, Orderly, NEW d \in Daemons, NEW r \in Requests, Serve(d, r)
    PROVE  Orderly'
  <1> USE DEF Typed, TypeOK, Orderly, Living, Over, Advance
  <1>1. /\ r[1] \in Clients /\ pc[r[1]] = "asked" /\ conn[r[1]] = d
        /\ r[2] = RequestOf(cmd[r[1]]) /\ r = <<r[1], r[2]>>
    BY DEF Serve, RequestsAwaited, Requests
  <1>2. /\ pc' = [pc EXCEPT ![r[1]] = "answered"]
        /\ UNCHANGED <<cmd, conn, pidFile, sock, nameless>>
    BY <1>1 DEF Serve, files
  <1>3. /\ \A e \in Daemons : Named(e) => e = d
        /\ phase[d] = "serve"
        /\ phase' = [phase EXCEPT ![d] = IF cmd[r[1]] \in {"stop", "sleep"} THEN "stopping" ELSE @]
        /\ \A e \in Daemons : Living(e)' <=> Living(e)
        /\ \A e \in Daemons : Named(e)' <=> Named(e)
    BY <1>1, <1>2 DEF Serve, DaemonWhere, RequestOf, Named
  <1>4. OneDaemon' /\ OneCommand'
    BY <1>1, <1>2, <1>3 DEF OneDaemon, OneCommand
  <1>5. FilesKept'
    BY <1>2, <1>3 DEF FilesKept
  <1>6. RequestsAwaited'
    <2>1. \A e \in Daemons : \A q \in inbox[e] : q[1] = r[1] => e = d /\ q = r
      BY <1>1 DEF RequestsAwaited, Requests
    <2>2. \A e \in Daemons : \A q \in inbox'[e] : q \in inbox[e] /\ q[1] # r[1]
      BY <2>1 DEF Serve
    <2> QED
      BY <1>1, <1>2, <2>2 DEF RequestsAwaited, RequestOf, Requests
  <1>7. NamelessApart'
    BY <1>2, <1>3 DEF NamelessApart, Named
  <1>8. ASSUME NEW c \in Clients PROVE DaemonWhere(c)'
    BY <1>1, <1>2, <1>3, <1>4 DEF OneCommand, DaemonWhere, NamedIn, Starting, Stopping
  <1> QED
    BY <1>4, <1>5, <1>6, <1>7, <1>8

\* A command on a settled system, with no other command about.
LEMMA BeginOrderly ==
    ASSUME Typed, Orderly, calm, NEW c \in Clients, NEW command \in Commands, Begin(c, command)
    PROVE  Orderly'
  <1> USE DEF Typed, TypeOK, Orderly, Living, Over
  <1>1. /\ \A e \in Clients : pc[e] = "idle"
        /\ NamedIn({"serve"}) /\ \A d \in Daemons : Living(d) => phase[d] = "serve"
        /\ UNCHANGED <<phase, nameless, inbox, pidFile, sock, conn>>
    BY DEF Begin, Settled, NamedIn, Named, files, daemons
  <1>2. /\ \A e \in Clients \ {c} : pc'[e] = "idle"
        /\ pc'[c] = IF command = "wake" THEN "check" ELSE "ask"
        /\ cmd'[c] = command
    BY <1>1 DEF Begin
  <1>3. OneDaemon' /\ OneCommand' /\ NamelessApart' /\ FilesKept'
    BY <1>1, <1>2 DEF OneDaemon, OneCommand, NamelessApart, FilesKept, Named
  <1>4. \A d \in Daemons : inbox[d] = {}
    BY <1>1 DEF RequestsAwaited, Requests
  <1>5. RequestsAwaited'
    BY <1>1, <1>4 DEF RequestsAwaited
  <1>6. ASSUME NEW e \in Clients PROVE DaemonWhere(e)'
    BY <1>1, <1>2 DEF DaemonWhere, NamedIn, Named
  <1> QED
    BY <1>3, <1>5, <1>6

\* A daemon that keeps its files is found alive, and reached when it serves.
LEMMA Found ==
    ASSUME Typed, Orderly, NEW d \in Daemons, Named(d)
    PROVE  /\ phase[d] \in {"serve", "stopping", "cleanPid"} => Alive
           /\ phase[d] = "serve" => sock = d /\ sock # None /\ Listening(sock)
BY DaemonAssumption
   DEF Orderly, FilesKept, Alive, Named, Living, Listening, Over

\* What a step of a command at c changes of the clients, when no request is
\* left behind in a backlog.
LEMMA MovedOrderly ==
    ASSUME Typed, Orderly, NEW c \in Clients, NEW step \in Steps, Goto(c, step),
           pc[c] # "idle",
           \A e \in Clients \ {c} : conn'[e] = conn[e],
           OneDaemon', NamelessApart', FilesKept', RequestsAwaited', DaemonWhere(c)'
    PROVE  Orderly'
  <1>1. /\ pc'[c] = step
        /\ \A e \in Clients \ {c} : pc'[e] = pc[e] /\ pc[e] = "idle"
    BY GotoTyped DEF Orderly, OneCommand
  <1>2. OneCommand'
    BY <1>1 DEF OneCommand
  <1>3. \A e \in Clients \ {c} : DaemonWhere(e)'
    BY <1>1 DEF DaemonWhere
  <1> QED
    BY <1>2, <1>3 DEF Orderly

\* The requests in the backlogs are those of the command that runs.
LEMMA BacklogEmpty ==
    ASSUME Typed, Orderly, NEW c \in Clients, pc[c] \notin {"idle", "asked"}
    PROVE  \A d \in Daemons : inbox[d] = {}
  <1> SUFFICES ASSUME NEW d \in Daemons, NEW r \in inbox[d] PROVE FALSE
    OBVIOUS
  <1>1. r[1] \in Clients /\ pc[r[1]] = "asked"
    BY DEF Typed, TypeOK, Requests, Orderly, RequestsAwaited
  <1> QED
    BY <1>1 DEF Orderly, OneCommand

LEMMA StepAside ==
    ASSUME Typed, Orderly, NEW c \in Clients, NEW step \in Steps, Goto(c, step),
           pc[c] \notin {"idle", "asked"}, UNCHANGED <<files, daemons>>,
           \A e \in Clients \ {c} : conn'[e] = conn[e],
           DaemonWhere(c)'
    PROVE  Orderly'
  <1>1. OneDaemon' /\ NamelessApart' /\ FilesKept'
    BY DEF Orderly, OneDaemon, NamelessApart, FilesKept, Named, Living, files, daemons
  <1>2. RequestsAwaited'
    BY BacklogEmpty DEF RequestsAwaited, daemons
  <1> QED
    BY <1>1, <1>2, MovedOrderly

LEMMA CommandOrderly ==
    ASSUME Typed, Owned, Orderly, calm, NEW c \in Clients, Command(c)
    PROVE  Orderly'
  <1> USE DEF Typed, TypeOK
  <1>0. /\ DaemonWhere(c) /\ OneDaemon /\ pc[c] # "idle"
        /\ \A d, e \in Daemons : Named(d) /\ Named(e) => d = e
    BY DEF Orderly, OneDaemon, Command, Check, SweepPid, SweepSock, SpawnDetached, Ask, Answered,
           NoAnswer, Probe, AwaitExit, Deadline, CleanDone
  <1>1. CASE Check(c)
    <2>1. PICK step \in {"idle", "sweepPid"} : Goto(c, step) /\ (step = "sweepPid" => ~Alive)
      BY <1>1 DEF Check
    <2>2. step = "sweepPid" => NamedIn({})
      BY <1>0, <1>1, <2>1, Found DEF Check, DaemonWhere, NamedIn
    <2>3. pc'[c] = step /\ (step = "sweepPid" => cmd'[c] = cmd[c])
      BY <2>1 DEF Goto
    <2>4. DaemonWhere(c)'
      BY <1>0, <1>1, <2>2, <2>3 DEF Check, DaemonWhere, NamedIn, Named, Living, daemons
    <2> QED
      BY <1>1, <2>1, <2>4, StepAside DEF Check, Steps
  <1>2. CASE SweepPid(c)
    <2>1. Goto(c, "sweepSock") /\ UNCHANGED <<phase, nameless, inbox, sock, conn>> /\ pc[c] = "sweepPid"
      BY <1>2 DEF SweepPid, daemons
    <2>2. OneDaemon' /\ NamelessApart' /\ FilesKept'
      BY <1>0, <2>1 DEF Orderly, OneDaemon, NamelessApart, FilesKept, Named, DaemonWhere, NamedIn, Named, Living, Over
    <2>3. RequestsAwaited'
      BY <2>1, BacklogEmpty DEF RequestsAwaited
    <2>4. DaemonWhere(c)'
      BY <1>0, <2>1 DEF DaemonWhere, NamedIn, Named, Living, Goto
    <2> QED
      BY <1>0, <2>1, <2>2, <2>3, <2>4, MovedOrderly DEF Steps
  <1>3. CASE SweepSock(c)
    <2>1. PICK step \in {"idle", "spawn"} : Goto(c, step) /\ (step = "spawn" => cmd[c] = "wake")
      BY <1>3 DEF SweepSock
    <2>2. UNCHANGED <<phase, nameless, inbox, pidFile, conn>> /\ pc[c] = "sweepSock" /\ sock' = None
      BY <1>3 DEF SweepSock, daemons
    <2>3. OneDaemon' /\ NamelessApart' /\ FilesKept'
      BY <1>0, <2>2 DEF Orderly, OneDaemon, NamelessApart, FilesKept, Named, DaemonWhere, NamedIn, Named, Living, Over
    <2>4. RequestsAwaited'
      BY <2>2, BacklogEmpty DEF RequestsAwaited
    <2>5. DaemonWhere(c)'
      BY <1>0, <2>1, <2>2 DEF DaemonWhere, NamedIn, Named, Living, Goto
    <2> QED
      BY <1>0, <2>1, <2>2, <2>3, <2>4, <2>5, MovedOrderly DEF Steps
  <1>4. CASE SpawnDetached(c)
    <2>1. NamedIn({}) /\ sock = None /\ pc[c] = "spawn" /\ cmd[c] = "wake"
          /\ UNCHANGED <<nameless, inbox, pidFile, sock, conn>>
      BY <1>0, <1>4 DEF SpawnDetached, DaemonWhere, CommandsInPlace, files
    <2>2. CASE UNCHANGED phase /\ Goto(c, "idle")
      <3>1. DaemonWhere(c)'
        BY <2>2 DEF DaemonWhere, Goto
      <3> QED
        BY <2>1, <2>2, <3>1, StepAside DEF Steps, files, daemons
    <2>3. CASE ~(UNCHANGED phase /\ Goto(c, "idle"))
      <3>1. PICK d \in Daemons : phase[d] = "unborn" /\ phase' = [phase EXCEPT ![d] = "boot"]
        BY <1>4, <2>3, DaemonAssumption DEF SpawnDetached, Pids, Advance
      <3>2. Goto(c, "ask")
        BY <1>4, <2>3 DEF SpawnDetached
      <3>3. /\ \A e \in Daemons : Named(e)' => e = d
            /\ d \notin nameless
            /\ \A e \in nameless : Living(e) => phase[e] = "serve"
        BY <1>0, <2>1, <3>1 DEF NamedIn, Named, Living, Over, Owned, NamelessLate, DaemonWhere
      <3>4. OneDaemon' /\ NamelessApart' /\ FilesKept'
        BY <2>1, <3>1, <3>3 DEF OneDaemon, NamelessApart, FilesKept, Named, Living, Over
      <3>5. RequestsAwaited'
        BY <2>1, BacklogEmpty DEF RequestsAwaited
      <3>6. DaemonWhere(c)'
        BY <2>1, <3>1, <3>2, <3>3 DEF DaemonWhere, NamedIn, Named, Living, Goto, Starting
      <3> QED
        BY <1>0, <2>1, <3>2, <3>4, <3>5, <3>6, MovedOrderly DEF Steps
    <2> QED
      BY <2>2, <2>3
  <1>5. Unanswered(c) \in {"ask", "probe", "idle", "cleaning"}
        /\ (Unanswered(c) = "ask" <=> cmd[c] = "wake")
        /\ (Unanswered(c) = "probe" <=> cmd[c] = "sleep")
    BY DEF Unanswered
  <1>6. ASSUME pc[c] \in {"ask", "asked"}, Goto(c, Unanswered(c)), UNCHANGED <<phase, nameless>>,
               cmd[c] = "sleep" => NamedIn({})
        PROVE  DaemonWhere(c)'
    BY <1>0, <1>5, <1>6 DEF DaemonWhere, NamedIn, Named, Living, Goto
  <1>7. CASE Ask(c)
    <2>1. CASE sock # None /\ Listening(sock)
      <3>1. /\ Goto(c, "asked") /\ UNCHANGED <<phase, nameless, pidFile, sock>> /\ sock \in Daemons
            /\ conn' = [conn EXCEPT ![c] = sock] /\ pc[c] = "ask"
            /\ inbox' = [inbox EXCEPT ![sock] = @ \cup {<<c, RequestOf(cmd[c])>>}]
        BY <1>7, <2>1 DEF Ask, files
      <3>2. OneDaemon' /\ NamelessApart' /\ FilesKept'
        BY <3>1 DEF Orderly, OneDaemon, NamelessApart, FilesKept, Named, Living
      <3>3. pc'[c] = "asked" /\ cmd' = cmd /\ conn'[c] = sock
        BY <3>1, GotoTyped DEF Steps
      <3>4. \A d \in Daemons : inbox[d] = {}
        BY <3>1, BacklogEmpty
      <3>5. RequestsAwaited'
        BY <3>1, <3>3, <3>4 DEF RequestsAwaited, RequestOf
      <3>6. \A d \in Daemons : Named(d) => d = sock
        BY <1>0, <2>1, <3>1 DEF Orderly, FilesKept, DaemonWhere, NamedIn, Starting
      <3>7. DaemonWhere(c)'
        BY <1>0, <3>1, <3>3, <3>6 DEF DaemonWhere, NamedIn, Named, Living
      <3> QED
        BY <1>0, <3>1, <3>2, <3>5, <3>7, MovedOrderly DEF Steps
    <2>2. CASE ~(sock # None /\ Listening(sock))
      <3>1. /\ Goto(c, Unanswered(c)) /\ UNCHANGED <<files, daemons, conn>> /\ pc[c] = "ask"
        BY <1>7, <2>2 DEF Ask, files, daemons
      <3>2. cmd[c] = "sleep" => NamedIn({})
        BY <1>0, <2>2, <3>1, Found DEF DaemonWhere, NamedIn
      <3>3. DaemonWhere(c)'
        BY <1>6, <3>1, <3>2 DEF daemons
      <3> QED
        BY <1>5, <3>1, <3>3, StepAside DEF Steps
    <2> QED
      BY <2>1, <2>2
  <1>8. CASE Answered(c)
    <2>1. PICK step \in {"idle", "await", "cleaning"} :
              Goto(c, step) /\ (step = "await" => cmd[c] = "sleep")
      BY <1>8 DEF Answered
    <2>2. DaemonWhere(c)'
      BY <1>0, <1>8, <2>1 DEF Answered, DaemonWhere, NamedIn, Named, Living, Goto, daemons
    <2> QED
      BY <1>8, <2>1, <2>2, StepAside DEF Answered, Steps
  <1>9. CASE NoAnswer(c)
    <2>1. /\ Goto(c, Unanswered(c)) /\ UNCHANGED <<phase, nameless, inbox, pidFile, sock>>
          /\ pc[c] = "asked" /\ ~Listening(conn[c])
          /\ \A e \in Clients \ {c} : conn'[e] = conn[e]
      BY <1>9 DEF NoAnswer, files, daemons
    <2>2. OneDaemon' /\ NamelessApart' /\ FilesKept'
      BY <2>1 DEF Orderly, OneDaemon, NamelessApart, FilesKept, Named, Living
    <2>3. \A d \in Daemons : inbox[d] = {}
      <3> SUFFICES ASSUME NEW d \in Daemons, NEW r \in inbox[d] PROVE FALSE
        OBVIOUS
      <3>1. r[1] \in Clients /\ pc[r[1]] = "asked" /\ conn[r[1]] = d
        BY DEF Requests, Orderly, RequestsAwaited
      <3>2. r[1] = c
        BY <2>1, <3>1 DEF Orderly, OneCommand
      <3> QED
        BY <2>1, <3>1, <3>2 DEF Owned, Quiet
    <2>4. RequestsAwaited'
      BY <2>1, <2>3 DEF RequestsAwaited
    <2>5. cmd[c] = "sleep" => NamedIn({})
      BY <1>0, <2>1 DEF DaemonWhere, NamedIn, Listening
    <2>6. DaemonWhere(c)'
      BY <1>6, <2>1, <2>5
    <2> QED
      BY <1>0, <1>5, <2>1, <2>2, <2>4, <2>6, MovedOrderly DEF Steps
  <1>10. CASE Probe(c)
    <2>1. PICK step \in {"await", "sweepPid"} : Goto(c, step)
      BY <1>10 DEF Probe
    <2>2. DaemonWhere(c)'
      BY <1>0, <1>10, <2>1 DEF Probe, DaemonWhere, NamedIn, Named, Living, Goto, daemons
    <2> QED
      BY <1>10, <2>1, <2>2, StepAside DEF Probe, Steps
  <1>11. CASE AwaitExit(c)
    <2>1. Goto(c, "sweepPid") /\ pc[c] = "await" /\ cmd[c] = "sleep" /\ ~Alive
      BY <1>11 DEF AwaitExit, CommandsInPlace
    <2>2. NamedIn({"cleanSock"})
      BY <1>0, <2>1, Found DEF DaemonWhere, NamedIn, Stopping
    <2>3. DaemonWhere(c)'
      BY <1>11, <2>1, <2>2 DEF AwaitExit, DaemonWhere, NamedIn, Named, Living, Goto, daemons
    <2> QED
      BY <1>11, <2>1, <2>3, StepAside DEF AwaitExit, Steps
  <1>12. CASE Deadline(c) \/ CleanDone(c)
    <2>1. /\ Goto(c, "idle") /\ pc[c] \notin {"idle", "asked"}
          /\ UNCHANGED <<files, daemons, conn>>
      BY <1>12 DEF Deadline, CleanDone
    <2>2. DaemonWhere(c)'
      BY <2>1 DEF DaemonWhere, Goto
    <2> QED
      BY <2>1, <2>2, StepAside DEF Steps
  <1> QED
    BY <1>1, <1>2, <1>3, <1>4, <1>7, <1>8, <1>9, <1>10, <1>11, <1>12 DEF Command

-----------------------------------------------------------------------------
IInv == Typed /\ Owned /\ (calm => Orderly)

LEMMA NextOrderly == IInv /\ [Next]_vars => (calm => Orderly)'
<1> SUFFICES ASSUME Typed, Owned, [Next]_vars, calm => Orderly, calm'
             PROVE  Orderly'
    BY DEF IInv
<1>1. calm
    BY DEF Next, vars
<1>2. CASE UNCHANGED vars
    <2>1. UNCHANGED <<pidFile, sock, phase, nameless, inbox, cmd, pc, conn>>
        BY <1>2 DEF vars, system, files, daemons, clients
    <2> QED
        BY <1>1, <2>1 DEF Orderly, OneDaemon, OneCommand, NamelessApart, FilesKept, RequestsAwaited,
                          DaemonWhere, NamedIn, Named, Living
<1>3. CASE Next
    BY <1>1, <1>3, DaemonStepsOrderly, ServeOrderly, CommandOrderly, BeginOrderly DEF Next
<1> QED
    BY <1>2, <1>3

LEMMA Invariant == Spec => []IInv
<1>1. Init => IInv
    BY InitTyped, InitOwned, InitOrderly DEF IInv
<1>2. IInv /\ [Next]_vars => IInv'
    BY NextTyped, NextOwned, NextOrderly DEF IInv
<1> QED
    BY <1>1, <1>2, PTL DEF Spec

(* With calm commands a project has never two daemons whose pids reached    *)
(* the pid file or still may, for any number of pids and clients and        *)
(* whatever crashed daemons left and lost ones still do (wake's check, its  *)
(* sweep, and the daemon's own start).                                      *)
THEOREM OneDaemonAtATime == Spec => []AtMostOneDaemon
<1>1. IInv => AtMostOneDaemon
    BY DEF IInv, Orderly, OneDaemon, AtMostOneDaemon
<1> QED
    BY <1>1, Invariant, PTL

(* With calm commands a daemon that serves and has written its pid is the   *)
(* one both files name: no sweep and no cleanup of an earlier daemon        *)
(* removed them.                                                            *)
THEOREM Reachable == Spec => []ServingIsReachable
<1>1. IInv => ServingIsReachable
    BY DEF IInv, Orderly, FilesKept, ServingIsReachable
<1> QED
    BY <1>1, Invariant, PTL

(* With calm commands, sleep has swept the files only when no daemon        *)
(* listens but those whose pid file stayed empty: what it waited for was    *)
(* the daemon's cleanup, not its reply.                                     *)
THEOREM SleepSweepsLast == Spec => SleepLeavesNoServer
<1>1. IInv /\ [Next]_vars =>
          [calm => \A c \in Clients :
              SweepSock(c) /\ cmd[c] = "sleep" =>
                  \A d \in Daemons : Listening(d) => d \in nameless]_vars
    BY DEF IInv, Orderly, DaemonWhere, NamedIn, Named, Living, Listening, SweepSock, Over
<1> QED
    BY <1>1, Invariant, PTL DEF Spec, SleepLeavesNoServer
=============================================================================
