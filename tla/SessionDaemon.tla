---------------------------- MODULE SessionDaemon ----------------------------
(***************************************************************************)
(* The life of session daemons under `session start`, `session stop` and   *)
(* the daemon part of `server stop`: short-lived command line processes    *)
(* and daemons that see each other only through a socket, a pid file and   *)
(* signals.  The current-session file names the session that reported      *)
(* ready last.                                                             *)
(*                                                                         *)
(* A pid is the daemon itself: reuse of pids by the operating system is    *)
(* left out.  Time is left out too: a deadline may pass whenever the       *)
(* command looks at the clock.                                             *)
(***************************************************************************)
EXTENDS Naturals

CONSTANTS
  Daemons,     \* daemon processes, each spawned at most once
  Clis,        \* command line processes that may run at the same time
  Commands,    \* the commands that are given
  None,        \* no daemon: an absent file, an unset variable
  MaxDeaths,   \* bound: command line processes that are killed
  MaxCrashes   \* bound: daemons that die by themselves

ASSUME NoneAssumption == None \notin Daemons
ASSUME CommandsAssumption == Commands \subseteq {"start", "stop", "server_stop"}
ASSUME FaultsAssumption == MaxDeaths \in Nat /\ MaxCrashes \in Nat

VARIABLES
  daemon,      \* the phase of each daemon
  socketFile,  \* the daemon that bound the socket path
  pidFile,     \* the pid in session.pid
  current,     \* the session in current-session
  cli,         \* what each command line process is doing
  deaths, crashes

files == <<socketFile, pidFile, current>>
faults == <<deaths, crashes>>
vars == <<daemon, files, cli, faults>>

-----------------------------------------------------------------------------
(* Daemons: main creates the driver ("creating"), serve removes an old      *)
(* socket ("starting"), writes its pid ("naming"), binds ("binding") and    *)
(* handles one request at a time ("serving", "busy" inside a tool).  After  *)
(* the shutdown request it removes the socket ("closing") and the pid file  *)
(* ("closed"), and main quits the driver ("quitting").                      *)

Phases == {"unborn", "creating", "starting", "naming", "binding", "serving",
           "busy", "closing", "closed", "quitting", "dead"}

Alive(d) == d # None /\ daemon[d] \notin {"unborn", "dead"}

\* Connections are accepted, or wait in the backlog while a tool runs.
Listening(d) == d # None /\ daemon[d] \in {"serving", "busy"}

Outcomes == {"none", "already_running", "started", "failed", "not_running",
             "stopped", "died"}

Idle(outcome) == [cmd |-> "none", pc |-> "idle", target |-> None, pid |-> None,
                  own |-> None, outcome |-> outcome]

Init ==
  /\ daemon = [d \in Daemons |-> "unborn"]
  /\ socketFile = None /\ pidFile = None /\ current = None
  /\ cli = [c \in Clis |-> Idle("none")]
  /\ deaths = 0 /\ crashes = 0

Move(d, from, to) ==
  /\ daemon[d] = from
  /\ daemon' = [daemon EXCEPT ![d] = to]

CreateDriver(d) ==
  /\ Move(d, "creating", "starting") \/ Move(d, "creating", "dead")
  /\ UNCHANGED <<files, cli, faults>>

RemoveOldSocket(d) ==
  /\ Move(d, "starting", "naming")
  /\ socketFile' = None
  /\ UNCHANGED <<pidFile, current, cli, faults>>

WritePid(d) ==
  /\ Move(d, "naming", "binding")
  /\ pidFile' = d
  /\ UNCHANGED <<socketFile, current, cli, faults>>

Bind(d) ==
  /\ socketFile = None
  /\ Move(d, "binding", "serving")
  /\ socketFile' = d
  /\ UNCHANGED <<pidFile, current, cli, faults>>

\* The path exists again: the pid file is removed, whoever wrote it last.
BindFails(d) ==
  /\ socketFile # None
  /\ Move(d, "binding", "quitting")
  /\ pidFile' = None
  /\ UNCHANGED <<socketFile, current, cli, faults>>

\* Other clients run tools; the driver call may never return.  Connections are
\* handled in the order of arrival: "busy" lasts until every request that came
\* before a command's is handled.
Awaited(d) == \E c \in Clis : cli[c].pc \in {"pong", "shutting"} /\ cli[c].target = d

ToolStarts(d) ==
  /\ ~Awaited(d)
  /\ Move(d, "serving", "busy")
  /\ UNCHANGED <<files, cli, faults>>

ToolReturns(d) == Move(d, "busy", "serving") /\ UNCHANGED <<files, cli, faults>>

RemoveSocket(d) ==
  /\ Move(d, "closing", "closed")
  /\ socketFile' = None
  /\ UNCHANGED <<pidFile, current, cli, faults>>

RemovePid(d) ==
  /\ Move(d, "closed", "quitting")
  /\ pidFile' = None
  /\ UNCHANGED <<socketFile, current, cli, faults>>

QuitDriver(d) == Move(d, "quitting", "dead") /\ UNCHANGED <<files, cli, faults>>

Crash(d) ==
  /\ Alive(d)
  /\ crashes < MaxCrashes
  /\ daemon' = [daemon EXCEPT ![d] = "dead"]
  /\ crashes' = crashes + 1
  /\ UNCHANGED <<files, cli, deaths>>

-----------------------------------------------------------------------------
(* Commands. *)

At(c, pc) == cli[c].pc = pc
Go(c, pc) == cli' = [cli EXCEPT ![c].pc = pc]
Finish(c, outcome) == cli' = [cli EXCEPT ![c] = Idle(outcome)]

\* The first check of start, as against the one that waits for its daemon.
FirstCheck(c) == cli[c].cmd = "start" /\ cli[c].own = None
Stopping(c) == cli[c].cmd \in {"stop", "server_stop"}

Begin(c, cmd) ==
  /\ At(c, "idle")
  /\ cli' = [cli EXCEPT ![c] = [Idle("none") EXCEPT !.cmd = cmd, !.pc = "ping"]]
  /\ UNCHANGED <<daemon, files, faults>>

\* _daemon_running is false.
NotRunning(c) ==
  /\ IF FirstCheck(c) THEN Go(c, "unlink_socket")
     ELSE IF Stopping(c) THEN Finish(c, "not_running")
     ELSE Go(c, "sleep")
  /\ UNCHANGED current

\* Mutant: start forgets to record the session.
RunningUnrecorded(c) ==
  /\ IF FirstCheck(c) THEN Finish(c, "already_running")
     ELSE IF Stopping(c) THEN Go(c, "shutdown")
     ELSE Finish(c, "started")
  /\ UNCHANGED current

\* _daemon_running is true.
IsRunning(c) ==
  IF FirstCheck(c) THEN Finish(c, "already_running") /\ UNCHANGED current
  ELSE IF Stopping(c) THEN Go(c, "shutdown") /\ UNCHANGED current
  ELSE Finish(c, "started") /\ current' = cli[c].own

\* Mutant: a daemon that does not answer at once counts as not running.
PingGivesUp(c) ==
  /\ At(c, "ping")
  /\ IF Listening(socketFile) /\ daemon[socketFile] = "serving"
       THEN cli' = [cli EXCEPT ![c].pc = "pong", ![c].target = socketFile]
            /\ UNCHANGED current
       ELSE NotRunning(c)
  /\ UNCHANGED <<daemon, socketFile, pidFile, faults>>

\* request("ping") connects to whatever listens at the socket path.
Ping(c) ==
  /\ At(c, "ping")
  /\ IF Listening(socketFile)
       THEN cli' = [cli EXCEPT ![c].pc = "pong", ![c].target = socketFile]
            /\ UNCHANGED current
       ELSE NotRunning(c)
  /\ UNCHANGED <<daemon, socketFile, pidFile, faults>>

\* Mutant: the client does not notice that the daemon is gone.
PongWaits(c) ==
  /\ At(c, "pong")
  /\ daemon[cli[c].target] = "serving"
  /\ IsRunning(c)
  /\ UNCHANGED <<daemon, socketFile, pidFile, faults>>

\* The client waits without a timeout, until the daemon answers or is gone.
Pong(c) ==
  /\ At(c, "pong")
  /\ \/ daemon[cli[c].target] = "serving" /\ IsRunning(c)
     \/ ~Listening(cli[c].target) /\ NotRunning(c)
  /\ UNCHANGED <<daemon, socketFile, pidFile, faults>>

\* The request fails: session stop ends with the exception, server stop
\* ignores it.
ShutdownFails(c) ==
  IF cli[c].cmd = "stop" THEN Finish(c, "failed") ELSE Go(c, "read_pid")

Shutdown(c) ==
  /\ At(c, "shutdown")
  /\ IF Listening(socketFile)
       THEN cli' = [cli EXCEPT ![c].pc = "shutting", ![c].target = socketFile]
       ELSE ShutdownFails(c)
  /\ UNCHANGED <<daemon, files, faults>>

ShutdownAnswered(c) ==
  /\ At(c, "shutting")
  /\ \/ Move(cli[c].target, "serving", "closing") /\ Go(c, "read_pid")
     \/ ~Listening(cli[c].target) /\ ShutdownFails(c) /\ UNCHANGED daemon
  /\ UNCHANGED <<files, faults>>

\* Mutant: start kills without looking whether there was a pid file.
ReadPidUnchecked(c) ==
  /\ At(c, "read_pid")
  /\ cli' = [cli EXCEPT ![c].pid = pidFile,
                        ![c].pc = IF Stopping(c) THEN "wait" ELSE "kill"]
  /\ UNCHANGED <<daemon, files, faults>>

ReadPid(c) ==
  /\ At(c, "read_pid")
  /\ cli' = [cli EXCEPT ![c].pid = pidFile,
                        ![c].pc = IF Stopping(c) THEN "wait"
                                  ELSE IF pidFile = None THEN "spawn"
                                  ELSE "kill"]
  /\ UNCHANGED <<daemon, files, faults>>

\* start kills the daemon that did not answer; SIGTERM ends it at once, and
\* nothing of its own cleaning up is done.
Kill(c) ==
  /\ At(c, "kill")
  /\ daemon' = [daemon EXCEPT ![cli[c].pid] = "dead"]
  /\ Go(c, "unlink_pid")
  /\ UNCHANGED <<files, faults>>

\* stop waits for the daemon of the pid file, if there is one, to end.
WaitForEnd(c) ==
  /\ At(c, "wait")
  /\ ~Alive(cli[c].pid)
  /\ Go(c, "unlink_socket")
  /\ UNCHANGED <<daemon, files, faults>>

WaitTimesOut(c) ==
  /\ At(c, "wait")
  /\ Alive(cli[c].pid)
  /\ daemon' = [daemon EXCEPT ![cli[c].pid] = "dead"]
  /\ Go(c, "unlink_socket")
  /\ UNCHANGED <<files, faults>>

UnlinkSocket(c) ==
  /\ At(c, "unlink_socket")
  /\ socketFile' = None
  /\ Go(c, IF Stopping(c) THEN "unlink_pid" ELSE "read_pid")
  /\ UNCHANGED <<daemon, pidFile, current, faults>>

UnlinkPid(c) ==
  /\ At(c, "unlink_pid")
  /\ pidFile' = None
  /\ Go(c, IF Stopping(c) THEN "clear" ELSE "spawn")
  /\ UNCHANGED <<daemon, socketFile, current, faults>>

ClearSession(c) ==
  /\ At(c, "clear")
  /\ current' = None
  /\ Finish(c, "stopped")
  /\ UNCHANGED <<daemon, socketFile, pidFile, faults>>

Spawn(c, d) ==
  /\ At(c, "spawn")
  /\ Move(d, "unborn", "creating")
  /\ cli' = [cli EXCEPT ![c].own = d, ![c].pc = "poll"]
  /\ UNCHANGED <<files, faults>>

\* No Appium server can be started, or no device is connected.
SpawnFails(c) ==
  /\ At(c, "spawn")
  /\ Finish(c, "failed")
  /\ UNCHANGED <<daemon, files, faults>>

Poll(c) ==
  /\ At(c, "poll")
  /\ IF Alive(cli[c].own) THEN Go(c, "ping") ELSE Finish(c, "failed")
  /\ UNCHANGED <<daemon, files, faults>>

Sleep(c) ==
  /\ At(c, "sleep")
  /\ Go(c, "poll")
  /\ UNCHANGED <<daemon, files, faults>>

\* Mutant: the daemon that is not ready in time is left running.
StartTimesOutLeaves(c) ==
  /\ At(c, "sleep")
  /\ Finish(c, "failed")
  /\ UNCHANGED <<daemon, files, faults>>

\* 60 s have passed: process.terminate().
StartTimesOut(c) ==
  /\ At(c, "sleep")
  /\ daemon' = [daemon EXCEPT ![cli[c].own] = "dead"]
  /\ Finish(c, "failed")
  /\ UNCHANGED <<files, faults>>

Die(c) ==
  /\ ~At(c, "idle")
  /\ deaths < MaxDeaths
  /\ Finish(c, "died")
  /\ deaths' = deaths + 1
  /\ UNCHANGED <<daemon, files, crashes>>

-----------------------------------------------------------------------------
\* What a daemon does without waiting for the driver.
DaemonStep(d) ==
  RemoveOldSocket(d) \/ WritePid(d) \/ Bind(d) \/ BindFails(d)
    \/ RemoveSocket(d) \/ RemovePid(d)

DriverStep(d) == CreateDriver(d) \/ ToolReturns(d) \/ QuitDriver(d)

\* What a command does without waiting for a daemon.
CliStep(c) ==
  \/ Ping(c) \/ Shutdown(c) \/ ReadPid(c) \/ Kill(c) \/ WaitForEnd(c)
  \/ UnlinkSocket(c) \/ UnlinkPid(c) \/ ClearSession(c) \/ SpawnFails(c)
  \/ Poll(c) \/ Sleep(c)
  \/ \E d \in Daemons : Spawn(c, d)

CliProgress(c) ==
  CliStep(c) \/ Pong(c) \/ ShutdownAnswered(c) \/ WaitTimesOut(c)

Next ==
  \/ \E d \in Daemons : DaemonStep(d) \/ DriverStep(d) \/ ToolStarts(d) \/ Crash(d)
  \/ \E c \in Clis : \/ CliProgress(c) \/ StartTimesOut(c) \/ Die(c)
                     \/ \E cmd \in Commands : Begin(c, cmd)

\* Processes run and deadlines pass, that of a start also when the start looks
\* at the clock only between two pings.  That a driver call returns is not
\* assumed.
Spec ==
  /\ Init /\ [][Next]_vars
  /\ \A d \in Daemons : WF_vars(DaemonStep(d))
  /\ \A c \in Clis : WF_vars(CliProgress(c)) /\ SF_vars(StartTimesOut(c))

-----------------------------------------------------------------------------
(* Properties. *)

Pcs == {"idle", "ping", "pong", "shutdown", "shutting", "read_pid", "kill",
        "wait", "unlink_socket", "unlink_pid", "clear", "spawn", "poll", "sleep"}

\* The variables hold values of their kinds; a command kills and waits only
\* with a pid, a start waits only for a daemon it spawned, and a reply is only
\* awaited from a daemon.
TypeOK ==
  /\ daemon \in [Daemons -> Phases]
  /\ {socketFile, pidFile, current} \subseteq Daemons \cup {None}
  /\ cli \in [Clis -> [cmd : Commands \cup {"none"}, pc : Pcs,
                       target : Daemons \cup {None}, pid : Daemons \cup {None},
                       own : Daemons \cup {None}, outcome : Outcomes]]
  /\ \A c \in Clis :
       /\ At(c, "kill") => cli[c].pid # None
       /\ cli[c].pc \in {"poll", "sleep"} => cli[c].own # None
       /\ cli[c].pc \in {"pong", "shutting"} => cli[c].target # None
  /\ deaths \in 0..MaxDeaths /\ crashes \in 0..MaxCrashes

\* With one command at a time, a daemon that takes requests can be reached and
\* stopped: socket and pid file name it, whatever daemon died, was killed or
\* timed out before (serve, start and stop unlink both files by name).
ServingIsNamed ==
  \A d \in Daemons : Listening(d) => socketFile = d /\ pidFile = d

\* With one command at a time, a start only reports success for the daemon it
\* spawned: the answer to its ping comes from no other daemon, so the pid and
\* the session it prints are right (start's readiness loop).
StartedIsOwn ==
  [][\A c \in Clis : At(c, "pong") /\ cli'[c].outcome = "started"
                       => cli[c].target = cli[c].own]_vars

\* With one command at a time, a daemon that takes requests is killed by no
\* command but the start that spawned it and ran out of time: the session of a
\* running daemon is not lost to a second start, and a stop asks first.
NoServingDaemonKilled ==
  [][\A d \in Daemons : Listening(d) /\ daemon'[d] = "dead" =>
       crashes' # crashes \/ \E c \in Clis : cli[c].own = d]_vars

\* With one command at a time, no two daemons take part in the hand-over of the
\* socket and the pid file: when one is between its driver and its requests, no
\* other holds or is about to remove the files.
OneOnTheFiles ==
  \A d, e \in Daemons :
    daemon[d] \in {"creating", "starting", "naming", "binding", "serving", "busy",
                   "closing", "closed"}
      /\ daemon[e] \in {"creating", "starting", "naming", "binding", "serving",
                        "busy", "closing", "closed"}
      => d = e

\* With one command at a time, between commands the current-session file names
\* the daemon that takes requests: screenshots go to the directory of the
\* running session (write_current_session, screenshot_path).
SessionFileIsCurrent ==
  \A d \in Daemons :
    Listening(d) /\ (\A c \in Clis : At(c, "idle")) => current = d

\* The command waits for the answer of a daemon that is in a tool.
Stuck(c) == cli[c].pc \in {"pong", "shutting"} /\ daemon[cli[c].target] = "busy"

\* Every command ends, also when two overlap, when one is killed or kills the
\* daemon the other waits for, and when creating or quitting a driver never
\* returns.  The one way not to end is a tool that never returns: the client
\* waits for the daemon without a limit (client.py, request).
CommandEnds == \A c \in Clis : []<>At(c, "idle") \/ <>[]Stuck(c)

(* A statement of the documentation that the code does not keep. *)

\* session.py:373: a daemon still alive is killed by stop, or "the orphaned
\* daemon keeps running and races with any subsequent session start".
StopEndsItsDaemon ==
  [][\A c \in Clis : At(c, "clear") /\ cli'[c].outcome = "stopped"
                       => ~Alive(cli[c].target)]_vars

=============================================================================
