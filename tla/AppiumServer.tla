----------------------------- MODULE AppiumServer -----------------------------
(***************************************************************************)
(* `server start`, `server stop` and `server status`: command line         *)
(* processes that manage one local Appium server.  What one command leaves *)
(* to the next is server.json: an ownership, a port and a pid.  All that a *)
(* command learns of a server is whether its port answers within a second  *)
(* and whether a pid exists.                                               *)
(*                                                                         *)
(* Time is left out: a deadline may pass whenever a command looks at the   *)
(* clock.  Reading server.json, the request to the port and the look at    *)
(* the pid are one step.                                                   *)
(***************************************************************************)
EXTENDS Naturals, FiniteSets

CONSTANTS
  Procs,     \* pids of Appium servers, each given to one server
  Ports,
  Clis,      \* command line processes that may run at the same time
  None,      \* no pid, no port
  MaxFaults  \* bound: faults of any kind

ASSUME NoneAssumption == None \notin Procs \cup Ports
ASSUME FaultsAssumption == MaxFaults \in Nat

VARIABLES
  proc,     \* the operating system: phase, port and origin of each pid
  saved,    \* server.json
  cli,      \* what each command line process is doing
  faults,   \* how often each fault has happened
  overlap,  \* history: a command began while another was running
  mistaken  \* history: a start took another server's answer for its server's

history == <<overlap, mistaken>>
vars == <<proc, saved, cli, faults, history>>

-----------------------------------------------------------------------------
(* Appium processes.  A server that got SIGTERM may answer for some time    *)
(* ("closing") before it closes its port ("ending") and is gone ("dead").   *)

Listening(p) == proc[p].phase \in {"up", "closing"}

Runs(p) == p # None /\ proc[p].phase \notin {"unborn", "dead"}

Listeners(port) == {p \in Procs : proc[p].port = port /\ Listening(p)}

\* Servers that `server start` has spawned and nobody has told to end.
OurServers == {p \in Procs : proc[p].ours /\ proc[p].phase \in {"booting", "up"}}

Move(p, from, to) ==
  /\ proc[p].phase = from
  /\ proc' = [proc EXCEPT ![p].phase = to]

\* Appium exits early when its port is in use.
Boot(p) ==
  /\ \/ Listeners(proc[p].port) = {} /\ Move(p, "booting", "up")
     \/ Listeners(proc[p].port) # {} /\ Move(p, "booting", "ending")
  /\ UNCHANGED <<saved, cli, faults, history>>

Close(p) == Move(p, "closing", "ending") /\ UNCHANGED <<saved, cli, faults, history>>

Exit(p) == Move(p, "ending", "dead") /\ UNCHANGED <<saved, cli, faults, history>>

\* A server started by someone else.
StartsElsewhere(p) ==
  /\ proc[p].phase = "unborn"
  /\ \E port \in Ports :
       proc' = [proc EXCEPT ![p] = [phase |-> "booting", port |-> port, ours |-> FALSE]]
  /\ UNCHANGED <<saved, cli, faults, history>>

\* A check that a listening server answers too late, a command that is
\* interrupted, a server that ends by itself, a pid given to another program.
Count(fault) ==
  /\ faults.slow + faults.killed + faults.deaths + faults.reused < MaxFaults
  /\ faults' = [faults EXCEPT ![fault] = @ + 1]

Dies(p) ==
  /\ Count("deaths")
  /\ Move(p, "booting", "dead") \/ Move(p, "up", "dead")
  /\ UNCHANGED <<saved, cli, history>>

Reuse(p) ==
  /\ Count("reused")
  /\ proc[p].phase = "dead"
  /\ proc' = [proc EXCEPT ![p].phase = "other", ![p].ours = FALSE]
  /\ UNCHANGED <<saved, cli, history>>

\* SIGTERM, whatever the pid stands for by now.
Terminated(p) ==
  CASE proc[p].phase = "up" -> "closing"
    [] proc[p].phase \in {"booting", "other"} -> "ending"
    [] OTHER -> proc[p].phase

Signal(p) == proc' = [proc EXCEPT ![p].phase = Terminated(p)]

-----------------------------------------------------------------------------
(* Status.  The port asked is the saved one, when there is one.  The        *)
(* answer may come too late: then the server counts as not running.         *)

NoFile == [owner |-> "none", port |-> None, pid |-> None]

AskedPort(port) == IF saved.port = None THEN port ELSE saved.port

\* Mutant: the pid is kept though it is not running.
FoundKeepsPid(port) ==
  LET self == saved.owner = "self" /\ Runs(saved.pid)
  IN [owner |-> IF self THEN "self" ELSE "external",
      port  |-> AskedPort(port),
      pid   |-> saved.pid]

\* _get_local_status, as what start_server saves when the server answers.
Found(port) ==
  LET self == saved.owner = "self" /\ Runs(saved.pid)
  IN [owner |-> IF self THEN "self" ELSE "external",
      port  |-> AskedPort(port),
      pid   |-> IF self THEN saved.pid ELSE None]

Answers(port) == Listeners(port) # {} /\ UNCHANGED faults

\* No server listens, or it takes longer than the second it is given.
Silent(port) ==
  \/ Listeners(port) = {} /\ UNCHANGED faults
  \/ Listeners(port) # {} /\ Count("slow")

-----------------------------------------------------------------------------
(* Commands. *)

\* A command leaves nothing but its exit code.
Idle(exit) ==
  [cmd |-> "none", pc |-> "idle", port |-> None, pid |-> None, exit |-> exit]

Init ==
  /\ proc = [p \in Procs |-> [phase |-> "unborn", port |-> None, ours |-> FALSE]]
  /\ saved = NoFile
  /\ cli = [c \in Clis |-> Idle("none")]
  /\ faults = [slow |-> 0, killed |-> 0, deaths |-> 0, reused |-> 0]
  /\ overlap = FALSE /\ mistaken = FALSE

At(c, cmd, pc) == cli[c].cmd = cmd /\ cli[c].pc = pc
Go(c, pc) == cli' = [cli EXCEPT ![c].pc = pc]
Finish(c, exit) == cli' = [cli EXCEPT ![c] = Idle(exit)]

Begin(c, cmd, port) ==
  /\ cli[c].pc = "idle"
  /\ cli' = [cli EXCEPT ![c] = [cmd |-> cmd, pc |-> "first", port |-> port,
                                pid |-> None, exit |-> "none"]]
  /\ overlap' = (overlap \/ \E d \in Clis \ {c} : cli[d].pc # "idle")
  /\ UNCHANGED <<proc, saved, faults, mistaken>>

\* APPIUM_SERVER_URL names a server elsewhere: start and status only ask it.
Elsewhere(c) ==
  /\ \E cmd \in {"start", "status"} : At(c, cmd, "first")
  /\ Finish(c, "ok") \/ Finish(c, "failed")
  /\ UNCHANGED <<proc, saved, faults, history>>

Status(c) ==
  /\ At(c, "status", "first")
  /\ \/ Answers(AskedPort(cli[c].port))
        /\ Finish(c, "ok")
     \/ Silent(AskedPort(cli[c].port)) /\ Finish(c, "failed")
  /\ UNCHANGED <<proc, saved, history>>

\* start asks once for what it will report ...
AskFirst(c) ==
  /\ At(c, "start", "first")
  /\ \/ Answers(AskedPort(cli[c].port)) \/ Silent(AskedPort(cli[c].port))
  /\ Go(c, "check")
  /\ UNCHANGED <<proc, saved, history>>

\* ... and start_server once more for what it does.
ReuseServer(c) ==
  /\ At(c, "start", "check")
  /\ Answers(AskedPort(cli[c].port))
  /\ saved' = Found(cli[c].port)
  /\ Finish(c, "ok")
  /\ UNCHANGED <<proc, history>>

SpawnServer(c) ==
  /\ At(c, "start", "check")
  /\ Silent(AskedPort(cli[c].port))
  /\ \E p \in Procs :
       /\ proc[p].phase = "unborn"
       /\ proc' = [proc EXCEPT ![p] =
            [phase |-> "booting", port |-> cli[c].port, ours |-> TRUE]]
       /\ cli' = [cli EXCEPT ![c].pc = "wait", ![c].pid = p]
  /\ UNCHANGED <<saved, history>>

\* appium is not on the PATH.
NoAppium(c) ==
  /\ At(c, "start", "check")
  /\ Silent(AskedPort(cli[c].port))
  /\ Finish(c, "failed")
  /\ UNCHANGED <<proc, saved, history>>

ExitedEarly(c) ==
  /\ At(c, "start", "wait") /\ ~Runs(cli[c].pid)
  /\ Finish(c, "failed")
  /\ UNCHANGED <<proc, saved, faults, history>>

\* Mutant: server.json is not written.
ReadyUnsaved(c) ==
  /\ At(c, "start", "wait") /\ Runs(cli[c].pid)
  /\ Answers(cli[c].port)
  /\ Finish(c, "ok")
  /\ UNCHANGED <<proc, saved, history>>

\* The port answers: the spawned process is taken to be the one that does.
Ready(c) ==
  /\ At(c, "start", "wait") /\ Runs(cli[c].pid)
  /\ Answers(cli[c].port)
  /\ saved' = [owner |-> "self", port |-> cli[c].port, pid |-> cli[c].pid]
  /\ Finish(c, "ok")
  /\ mistaken' = (mistaken \/ ~Listening(cli[c].pid))
  /\ UNCHANGED <<proc, overlap>>

\* Mutant: the process that is not ready is left behind.
NotReadyLeaves(c) ==
  /\ At(c, "start", "wait")
  /\ Finish(c, "failed")
  /\ UNCHANGED <<proc, saved, faults, history>>

NotReady(c) ==
  /\ At(c, "start", "wait")
  /\ Signal(cli[c].pid)
  /\ Finish(c, "failed")
  /\ UNCHANGED <<saved, faults, history>>

\* stop, after the session daemon (SessionDaemon).
StopNothing(c) ==
  /\ At(c, "stop", "first") /\ saved.owner # "self"
  /\ Finish(c, "ok")
  /\ UNCHANGED <<proc, saved, faults, history>>

AlreadyStopped(c) ==
  /\ At(c, "stop", "first") /\ saved.owner = "self" /\ ~Runs(saved.pid)
  /\ saved' = NoFile
  /\ Finish(c, "ok")
  /\ UNCHANGED <<proc, faults, history>>

\* Mutant: any process on the saved port will do.
FindPidOfAny(c) ==
  /\ At(c, "stop", "first")
  /\ \E p \in Procs : /\ Runs(p) /\ proc[p].port = saved.port
                      /\ cli' = [cli EXCEPT ![c].pc = "signal", ![c].pid = p]
  /\ UNCHANGED <<proc, saved, faults, history>>

FindPid(c) ==
  /\ At(c, "stop", "first") /\ saved.owner = "self" /\ Runs(saved.pid)
  /\ cli' = [cli EXCEPT ![c].pc = "signal", ![c].pid = saved.pid]
  /\ UNCHANGED <<proc, saved, faults, history>>

SignalServer(c) ==
  /\ At(c, "stop", "signal")
  /\ \/ Runs(cli[c].pid) /\ Signal(cli[c].pid) /\ Go(c, "ended")
     \/ ~Runs(cli[c].pid) /\ UNCHANGED proc /\ Finish(c, "failed")
  /\ UNCHANGED <<saved, faults, history>>

Stopped(c) ==
  /\ At(c, "stop", "ended") /\ ~Runs(cli[c].pid)
  /\ saved' = NoFile
  /\ Finish(c, "ok")
  /\ UNCHANGED <<proc, faults, history>>

DoesNotEnd(c) ==
  /\ At(c, "stop", "ended") /\ Runs(cli[c].pid)
  /\ Finish(c, "failed")
  /\ UNCHANGED <<proc, saved, faults, history>>

Interrupt(c) ==
  /\ cli[c].pc # "idle"
  /\ Count("killed")
  /\ Finish(c, "failed")
  /\ UNCHANGED <<proc, saved, history>>

-----------------------------------------------------------------------------
Commands == {"start", "stop", "status"}

Command(c) ==
  \/ \E cmd \in Commands, port \in Ports : Begin(c, cmd, port)
  \/ Elsewhere(c) \/ Status(c)
  \/ AskFirst(c) \/ ReuseServer(c) \/ SpawnServer(c) \/ NoAppium(c)
  \/ ExitedEarly(c) \/ Ready(c) \/ NotReady(c)
  \/ StopNothing(c) \/ AlreadyStopped(c) \/ FindPid(c) \/ SignalServer(c)
  \/ Stopped(c) \/ DoesNotEnd(c)
  \/ Interrupt(c)

Server(p) == Boot(p) \/ Close(p) \/ Exit(p) \/ StartsElsewhere(p) \/ Dies(p) \/ Reuse(p)

Next == (\E c \in Clis : Command(c)) \/ (\E p \in Procs : Server(p))

Spec == Init /\ [][Next]_vars

-----------------------------------------------------------------------------
Phases == {"unborn", "booting", "up", "closing", "ending", "dead", "other"}

\* Types; a pid is saved exactly for a server of one's own.
TypeOK ==
  /\ proc \in [Procs -> [phase : Phases, port : Ports \cup {None}, ours : BOOLEAN]]
  /\ saved \in [owner : {"none", "self", "external"}, port : Ports \cup {None},
                pid : Procs \cup {None}]
  /\ (saved.owner = "self") <=> (saved.pid # None)
  /\ (saved.owner = "none") <=> (saved.port = None)
  /\ cli \in [Clis -> [cmd : Commands \cup {"none"},
                       pc : {"idle", "first", "check", "wait", "signal", "ended"},
                       port : Ports \cup {None}, pid : Procs \cup {None},
                       exit : {"none", "ok", "failed"}]]
  /\ faults \in [{"slow", "killed", "deaths", "reused"} -> Nat]
  /\ overlap \in BOOLEAN /\ mistaken \in BOOLEAN

\* One command at a time, none interrupted, servers that answer in time, and no
\* port taken by another server during a start: what the code does not defend
\* itself against.
Undisturbed ==
  /\ ~overlap /\ ~mistaken
  /\ faults.slow = 0 /\ faults.killed = 0

\* The server that `server start` has started is the one server.json names, so
\* that a later stop finds it, and there is only one: servers of others come
\* and go on every port, start with any port, starts that time out, stops that
\* give up and pids that are given to other programs in between.
OurServerOnFile ==
  Undisturbed =>
    \A p \in OurServers :
      \/ saved.owner = "self" /\ saved.pid = p
      \/ \E c \in Clis : At(c, "start", "wait") /\ cli[c].pid = p

\* Undisturbed, a stop that reports no failure leaves no server of ours running,
\* whatever starts, failed starts and stops that gave up came before it.  Not so
\* otherwise: after one answer later than a second a start on another port
\* spawns a second server and forgets the first, and a stop reports success with
\* that one running (_get_local_status).
StopStops ==
  [][\A c \in Clis : (Undisturbed' /\ cli[c].cmd = "stop"
                      /\ cli'[c].exit = "ok")
                     => OurServers' = {}]_vars

\* README.md, "Externally started Appium servers are reused but never killed":
\* only processes that `server start` spawned are sent SIGTERM, whatever else
\* happens short of a pid that was given to another program.
OnlyOursSignalled ==
  [][\A p \in Procs :
       (proc[p].phase \in {"booting", "up", "other"} /\ proc'[p].phase \in {"closing", "ending"}
        /\ cli' # cli /\ faults.reused = 0)
       => proc[p].ours]_vars
=============================================================================
