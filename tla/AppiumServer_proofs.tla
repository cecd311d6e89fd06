------------------------ MODULE AppiumServer_proofs ------------------------
(***************************************************************************)
(* Proofs about AppiumServer for any number of pids, ports and commands.   *)
(*                                                                         *)
(* The inductive invariant says whose the pids are that a command or the   *)
(* file remembers, and, as long as nothing disturbs the commands, that the *)
(* file is true: its pid has booted and listens to its port, and what a    *)
(* start waits for is the only server of ours.                             *)
(***************************************************************************)
EXTENDS AppiumServer, TLAPS

\* What a command remembers at each of its points.
ShapeOf(r) ==
  /\ (r.pc = "idle") <=> (r.cmd = "none")
  /\ r.cmd # "none" => r.exit = "none" /\ r.port \in Ports
  /\ r.pc \in {"idle", "first", "check"} => r.pid = None
  /\ r.pc \in {"wait", "signal", "ended"} => r.pid # None
  /\ r.pc \in {"check", "wait"} => r.cmd = "start"
  /\ r.pc \in {"signal", "ended"} => r.cmd = "stop"

CliShape == \A c \in Clis : ShapeOf(cli[c])

OursAreBorn == \A p \in Procs : proc[p].ours => proc[p].phase # "unborn"

\* Until a pid is given away, the pids that are remembered are of our servers.
PidsAreOurs ==
  faults.reused = 0 =>
    /\ saved.pid # None => proc[saved.pid].ours
    /\ \A c \in Clis : cli[c].pid # None => proc[cli[c].pid].ours

OneAtATime ==
  ~overlap => \A c, d \in Clis : c # d => cli[c].pc = "idle" \/ cli[d].pc = "idle"

\* The file speaks of a server that has booted, and of its port; a stop is
\* about the server on file, a start about the only server of ours.
FileIsTrue ==
  Undisturbed =>
    /\ saved.owner = "self" => /\ proc[saved.pid].phase \notin {"unborn", "booting"}
                               /\ proc[saved.pid].port = saved.port
    /\ \A c \in Clis :
         /\ cli[c].pc \in {"signal", "ended"} => cli[c].pid = saved.pid
         /\ cli[c].pc = "wait" => /\ proc[cli[c].pid].phase # "unborn"
                                  /\ proc[cli[c].pid].port = cli[c].port
                                  /\ OurServers \subseteq {cli[c].pid}

IInv ==
  /\ TypeOK
  /\ CliShape
  /\ OursAreBorn
  /\ PidsAreOurs
  /\ OneAtATime
  /\ FileIsTrue
  /\ OurServerOnFile

-----------------------------------------------------------------------------
(* Faults are only ever added. *)

Faults == {"slow", "killed", "deaths", "reused"}

FaultsGrow ==
  faults' \in [Faults -> Nat] /\ \A f \in Faults : faults'[f] >= faults[f]

LEMMA CountGrows ==
  ASSUME TypeOK, NEW f \in Faults, Count(f)
  PROVE  FaultsGrow /\ faults'[f] > 0
BY DEF TypeOK, Count, FaultsGrow, Faults

LEMMA SameGrows ==
  ASSUME TypeOK, UNCHANGED faults
  PROVE  FaultsGrow
BY DEF TypeOK, FaultsGrow, Faults

LEMMA LookGrows ==
  ASSUME TypeOK, NEW port, Answers(port) \/ Silent(port)
  PROVE  FaultsGrow
BY CountGrows, SameGrows DEF Answers, Silent, Faults

\* What is undisturbed now was so before.
LEMMA DisturbedStays ==
  ASSUME TypeOK, FaultsGrow, overlap => overlap', mistaken => mistaken'
  PROVE  /\ Undisturbed' => Undisturbed
         /\ faults'.reused = 0 => faults.reused = 0
BY DEF TypeOK, FaultsGrow, Undisturbed, Faults

-----------------------------------------------------------------------------
(* Steps of the processes. *)

ProcRecords == [phase : Phases, port : Ports \cup {None}, ours : BOOLEAN]

\* A process moves on, is started by others, or its pid is given away.
ServerEffect(p) ==
  /\ UNCHANGED <<saved, cli, overlap, mistaken>>
  /\ FaultsGrow
  /\ \E r \in ProcRecords :
       /\ proc' = [proc EXCEPT ![p] = r]
       /\ \/ /\ proc[p].phase # "unborn" /\ r.phase \notin {"unborn", "booting"}
             /\ r.phase = "up" => proc[p].phase = "booting"
             /\ r.port = proc[p].port /\ r.ours = proc[p].ours
          \/ proc[p].phase = "unborn" /\ r.phase # "unborn" /\ ~r.ours
          \/ /\ faults'.reused > 0 /\ proc[p].phase # "unborn" /\ ~r.ours
             /\ r.phase \notin {"unborn", "booting"} /\ r.port = proc[p].port

\* A move is a change of phase.
LEMMA MoveRecord ==
  ASSUME TypeOK, NEW p \in Procs, NEW from, NEW to \in Phases, Move(p, from, to)
  PROVE  \E r \in ProcRecords :
           /\ proc' = [proc EXCEPT ![p] = r]
           /\ proc[p].phase = from /\ r.phase = to
           /\ r.port = proc[p].port /\ r.ours = proc[p].ours
<1> DEFINE r == [proc[p] EXCEPT !.phase = to]
<1>1. proc[p] \in ProcRecords
  BY DEF TypeOK, ProcRecords
<1>2. r \in ProcRecords /\ r.phase = to /\ r.port = proc[p].port /\ r.ours = proc[p].ours
  BY <1>1 DEF ProcRecords
<1>3. proc' = [proc EXCEPT ![p] = r] /\ proc[p].phase = from
  BY DEF Move
<1> QED BY <1>2, <1>3

LEMMA ServerHasEffect ==
  ASSUME TypeOK, NEW p \in Procs, Server(p)
  PROVE  ServerEffect(p)
<1> USE DEF history
<1>1. CASE Boot(p)
  <2>1. Move(p, "booting", "up") \/ Move(p, "booting", "ending")
    BY <1>1 DEF Boot
  <2>2. "up" \in Phases /\ "ending" \in Phases
    BY DEF Phases
  <2> QED BY <1>1, <2>1, <2>2, MoveRecord, SameGrows DEF Boot, ServerEffect
<1>2. CASE Close(p)
  <2>1. Move(p, "closing", "ending") /\ "ending" \in Phases
    BY <1>2 DEF Close, Phases
  <2> QED BY <1>2, <2>1, MoveRecord, SameGrows DEF Close, ServerEffect
<1>3. CASE Exit(p)
  <2>1. Move(p, "ending", "dead") /\ "dead" \in Phases
    BY <1>3 DEF Exit, Phases
  <2> QED BY <1>3, <2>1, MoveRecord, SameGrows DEF Exit, ServerEffect
<1>4. CASE StartsElsewhere(p)
  <2>1. PICK port \in Ports :
          proc' = [proc EXCEPT ![p] = [phase |-> "booting", port |-> port, ours |-> FALSE]]
    BY <1>4 DEF StartsElsewhere
  <2>2. [phase |-> "booting", port |-> port, ours |-> FALSE] \in ProcRecords
    BY DEF ProcRecords, Phases
  <2> QED BY <1>4, <2>1, <2>2, SameGrows DEF StartsElsewhere, ServerEffect
<1>5. CASE Dies(p)
  <2>1. /\ Move(p, "booting", "dead") \/ Move(p, "up", "dead")
        /\ "dead" \in Phases
    BY <1>5 DEF Dies, Phases
  <2>2. FaultsGrow
    BY <1>5, CountGrows DEF Dies, Faults
  <2> QED BY <1>5, <2>1, <2>2, MoveRecord DEF Dies, ServerEffect
<1>6. CASE Reuse(p)
  <2> DEFINE r == [[proc[p] EXCEPT !.phase = "other"] EXCEPT !.ours = FALSE]
  <2>1. proc[p] \in ProcRecords /\ proc \in [Procs -> ProcRecords]
    BY DEF TypeOK, ProcRecords
  <2>2. r \in ProcRecords /\ r.phase = "other" /\ ~r.ours /\ r.port = proc[p].port
    BY <2>1 DEF ProcRecords, Phases
  <2>3. proc' = [proc EXCEPT ![p] = r]
    BY <1>6, <2>1 DEF Reuse
  <2>4. FaultsGrow /\ faults'.reused > 0
    BY <1>6, CountGrows DEF Reuse, Faults
  <2> QED BY <1>6, <2>2, <2>3, <2>4 DEF Reuse, ServerEffect
<1> QED BY <1>1, <1>2, <1>3, <1>4, <1>5, <1>6 DEF Server

LEMMA ServerKeeps ==
  ASSUME IInv, NEW p \in Procs, Server(p)
  PROVE  IInv'
<1>0. /\ TypeOK /\ CliShape /\ OursAreBorn /\ PidsAreOurs /\ OneAtATime /\ FileIsTrue
      /\ OurServerOnFile
      /\ ServerEffect(p)
  BY ServerHasEffect DEF IInv
<1>1. PICK r \in ProcRecords :
        /\ proc' = [proc EXCEPT ![p] = r]
        /\ \/ /\ proc[p].phase # "unborn" /\ r.phase \notin {"unborn", "booting"}
              /\ r.phase = "up" => proc[p].phase = "booting"
              /\ r.port = proc[p].port /\ r.ours = proc[p].ours
           \/ proc[p].phase = "unborn" /\ r.phase # "unborn" /\ ~r.ours
           \/ /\ faults'.reused > 0 /\ proc[p].phase # "unborn" /\ ~r.ours
              /\ r.phase \notin {"unborn", "booting"} /\ r.port = proc[p].port
  BY <1>0 DEF ServerEffect
<1>2. /\ proc \in [Procs -> ProcRecords] /\ proc'[p] = r
      /\ \A q \in Procs \ {p} : proc'[q] = proc[q]
      /\ UNCHANGED <<saved, cli, overlap, mistaken>> /\ FaultsGrow
  BY <1>0, <1>1 DEF TypeOK, ProcRecords, ServerEffect
<1>3. (Undisturbed' => Undisturbed) /\ (faults'.reused = 0 => faults.reused = 0)
  BY <1>0, <1>2, DisturbedStays
<1>4. TypeOK'
  BY <1>0, <1>1, <1>2 DEF TypeOK, ProcRecords, FaultsGrow, Faults
<1>5. CliShape' /\ OneAtATime'
  BY <1>0, <1>2 DEF CliShape, OneAtATime
<1>6. OursAreBorn'
  BY <1>0, <1>1, <1>2 DEF OursAreBorn
<1>7. PidsAreOurs'
  <2>1. \A q \in Procs : faults'.reused = 0 /\ proc[q].ours => proc'[q].ours
    BY <1>0, <1>1, <1>2 DEF OursAreBorn, FaultsGrow, Faults
  <2>2. \A c \in Clis : cli[c].pid # None => cli[c].pid \in Procs
    BY <1>0 DEF TypeOK
  <2>3. saved.pid # None => saved.pid \in Procs
    BY <1>0 DEF TypeOK
  <2> QED BY <1>0, <1>2, <1>3, <2>1, <2>2, <2>3 DEF PidsAreOurs
<1>8. Undisturbed' => OurServers' \subseteq OurServers
  BY <1>1, <1>2, <1>3 DEF OurServers, Undisturbed
<1>9. FileIsTrue'
  <2> SUFFICES ASSUME Undisturbed' PROVE FileIsTrue'
    BY DEF FileIsTrue
  <2>1. Undisturbed
    BY <1>3
  <2>2. ASSUME NEW q \in Procs, proc[q].phase # "unborn"
        PROVE  /\ proc'[q].port = proc[q].port /\ proc'[q].phase # "unborn"
               /\ proc[q].phase # "booting" => proc'[q].phase # "booting"
    BY <1>1, <1>2, <2>2
  <2>3. saved.owner = "self" => saved.pid \in Procs /\ proc[saved.pid].phase # "unborn"
    BY <1>0, <2>1 DEF FileIsTrue, TypeOK
  <2>4. \A c \in Clis : cli[c].pc = "wait" => cli[c].pid \in Procs /\ proc[cli[c].pid].phase # "unborn"
    BY <1>0, <2>1 DEF FileIsTrue, TypeOK, CliShape, ShapeOf
  <2> QED BY <1>0, <1>2, <1>8, <2>1, <2>2, <2>3, <2>4 DEF FileIsTrue
<1>10. OurServerOnFile'
  BY <1>0, <1>2, <1>3, <1>8 DEF OurServerOnFile, At
<1> QED BY <1>4, <1>5, <1>6, <1>7, <1>9, <1>10 DEF IInv

-----------------------------------------------------------------------------
(* Steps of the commands. *)

CliRecords ==
  [cmd : Commands \cup {"none"}, pc : {"idle", "first", "check", "wait", "signal", "ended"},
   port : Ports \cup {None}, pid : Procs \cup {None}, exit : {"none", "ok", "failed"}]

\* What a command knows after a step it takes, and that no other one begins.
Becomes(c, r) ==
  /\ cli' = [cli EXCEPT ![c] = r]
  /\ r \in CliRecords /\ ShapeOf(r)
  /\ overlap => overlap'
  /\ \/ cli[c].pc # "idle" \/ r.pc = "idle"
     \/ ~overlap' => \A d \in Clis \ {c} : cli[d].pc = "idle"

LEMMA BecomesKeeps ==
  ASSUME TypeOK, CliShape, OneAtATime, NEW c \in Clis, NEW r, Becomes(c, r)
  PROVE  /\ cli' \in [Clis -> CliRecords] /\ cli'[c] = r
         /\ \A d \in Clis \ {c} : cli'[d] = cli[d]
         /\ CliShape' /\ OneAtATime'
<1>1. /\ cli' \in [Clis -> CliRecords] /\ cli'[c] = r
      /\ \A d \in Clis \ {c} : cli'[d] = cli[d]
  BY DEF TypeOK, CliRecords, Becomes
<1>2. CliShape'
  <2>1. \A d \in Clis : ShapeOf(cli'[d])
    BY <1>1 DEF Becomes, CliShape
  <2> QED BY <2>1 DEF CliShape, ShapeOf
<1>3. OneAtATime'
  BY <1>1 DEF OneAtATime, Becomes
<1> QED BY <1>1, <1>2, <1>3

\* Some other command is not in the middle of anything.
LEMMA OthersIdle ==
  ASSUME IInv, Undisturbed, NEW c \in Clis, NEW d \in Clis, cli[c].pc # "idle", c # d
  PROVE  cli[d].pc = "idle" /\ cli[d].pid = None
BY DEF IInv, CliShape, ShapeOf, OneAtATime, Undisturbed

LEMMA IdleRecord ==
  ASSUME NEW exit \in {"ok", "failed"}
  PROVE  Idle(exit) \in CliRecords /\ ShapeOf(Idle(exit)) /\ Idle(exit).pc = "idle"
BY DEF Idle, CliRecords, ShapeOf

LEMMA FinishBecomes ==
  ASSUME NEW c \in Clis, NEW exit \in {"ok", "failed"}, Finish(c, exit), overlap => overlap'
  PROVE  Becomes(c, Idle(exit))
BY IdleRecord DEF Finish, Becomes

\* A step that leaves processes and file alone.
Watches ==
  /\ UNCHANGED <<proc, saved>> /\ FaultsGrow
  /\ overlap => overlap'
  /\ mistaken' = mistaken

LEMMA WatchKeeps ==
  ASSUME IInv, Watches
  PROVE  /\ OursAreBorn'
         /\ (Undisturbed' => Undisturbed) /\ (faults'.reused = 0 => faults.reused = 0)
         /\ OurServers' = OurServers
<1>1. (Undisturbed' => Undisturbed) /\ (faults'.reused = 0 => faults.reused = 0)
  BY DisturbedStays DEF IInv, Watches
<1> QED BY <1>1 DEF IInv, Watches, OursAreBorn, OurServers

\* ... and ends a command that is not waiting for a server.
LEMMA FinishKeeps ==
  ASSUME IInv, Watches, NEW c \in Clis, NEW exit \in {"ok", "failed"}, Finish(c, exit),
         overlap' \in BOOLEAN,
         Undisturbed' /\ cli[c].pc = "wait" => OurServers = {}
  PROVE  IInv'
<1>0. /\ TypeOK /\ CliShape /\ OneAtATime /\ PidsAreOurs /\ FileIsTrue /\ OurServerOnFile
      /\ Becomes(c, Idle(exit))
  BY FinishBecomes DEF IInv, Watches
<1>1. /\ cli' \in [Clis -> CliRecords] /\ cli'[c] = Idle(exit)
      /\ \A d \in Clis \ {c} : cli'[d] = cli[d]
      /\ CliShape' /\ OneAtATime'
  BY <1>0, BecomesKeeps
<1>2. TypeOK'
  BY <1>0, <1>1 DEF TypeOK, Watches, FaultsGrow, CliRecords, Faults
<1>3. cli'[c].pc = "idle" /\ cli'[c].pid = None
  BY <1>1 DEF Idle
<1>4. PidsAreOurs'
  BY <1>0, <1>1, <1>3, WatchKeeps DEF PidsAreOurs, Watches
<1>5. FileIsTrue'
  BY <1>0, <1>1, <1>3, WatchKeeps DEF FileIsTrue, Watches
<1>6. OurServerOnFile'
  <2> SUFFICES ASSUME Undisturbed', NEW p \in OurServers'
               PROVE  \/ saved'.owner = "self" /\ saved'.pid = p
                      \/ \E d \in Clis : At(d, "start", "wait")' /\ cli'[d].pid = p
    BY DEF OurServerOnFile
  <2>1. Undisturbed /\ p \in OurServers
    BY WatchKeeps
  <2>2. CASE saved.owner = "self" /\ saved.pid = p
    BY <2>2 DEF Watches
  <2>3. ASSUME NEW d \in Clis, At(d, "start", "wait"), cli[d].pid = p
        PROVE  d # c
    BY <2>1, <2>3 DEF At
  <2> QED BY <1>0, <1>1, <2>1, <2>2, <2>3 DEF OurServerOnFile, At
<1> QED BY <1>1, <1>2, <1>4, <1>5, <1>6, WatchKeeps DEF IInv

\* ... or sends one that knows no pid to a point where it knows none.
LEMMA GoKeeps ==
  ASSUME IInv, Watches, NEW c \in Clis, NEW r, Becomes(c, r), overlap' \in BOOLEAN,
         cli[c].pc \in {"idle", "first"}, r.pc \in {"first", "check"}
  PROVE  IInv'
<1>0. /\ TypeOK /\ CliShape /\ OneAtATime /\ PidsAreOurs /\ FileIsTrue /\ OurServerOnFile
  BY DEF IInv
<1>1. /\ cli' \in [Clis -> CliRecords] /\ cli'[c] = r
      /\ \A d \in Clis \ {c} : cli'[d] = cli[d]
      /\ CliShape' /\ OneAtATime'
  BY <1>0, BecomesKeeps
<1>2. TypeOK'
  BY <1>0, <1>1 DEF TypeOK, Watches, FaultsGrow, CliRecords, Faults
<1>3. r.pid = None /\ r.pc \notin {"wait", "signal", "ended"}
  BY DEF Becomes, ShapeOf
<1>4. PidsAreOurs'
  BY <1>0, <1>1, <1>3, WatchKeeps DEF PidsAreOurs, Watches
<1>5. FileIsTrue'
  BY <1>0, <1>1, <1>3, WatchKeeps DEF FileIsTrue, Watches
<1>6. OurServerOnFile'
  BY <1>0, <1>1, <1>3, WatchKeeps DEF OurServerOnFile, Watches, At
<1> QED BY <1>1, <1>2, <1>4, <1>5, <1>6, WatchKeeps DEF IInv

LEMMA BeginKeeps ==
  ASSUME IInv, NEW c \in Clis, NEW cmd \in Commands, NEW port \in Ports, Begin(c, cmd, port)
  PROVE  IInv'
<1> DEFINE r == [cmd |-> cmd, pc |-> "first", port |-> port, pid |-> None, exit |-> "none"]
<1>1. r \in CliRecords /\ ShapeOf(r)
  BY DEF CliRecords, ShapeOf, Commands
<1>2. Becomes(c, r) /\ cli[c].pc = "idle" /\ r.pc = "first"
  BY <1>1 DEF Begin, Becomes
<1>3. Watches /\ overlap' \in BOOLEAN
  BY SameGrows DEF Begin, Watches, IInv
<1> HIDE DEF r
<1> QED BY <1>2, <1>3, GoKeeps

\* Commands that end, with the processes and the file as they are.
JustEnds(c) ==
  \/ Elsewhere(c) \/ Status(c) \/ NoAppium(c) \/ ExitedEarly(c) \/ StopNothing(c)
  \/ DoesNotEnd(c) \/ Interrupt(c)

LEMMA LookWatches ==
  ASSUME IInv, NEW port, Answers(port) \/ Silent(port), UNCHANGED <<proc, saved, history>>
  PROVE  Watches /\ overlap' \in BOOLEAN
BY LookGrows DEF IInv, TypeOK, Watches, history

LEMMA StillWatches ==
  ASSUME IInv, UNCHANGED <<proc, saved, faults, history>>
  PROVE  Watches /\ overlap' \in BOOLEAN
BY SameGrows DEF IInv, TypeOK, Watches, history

LEMMA JustEndsKeeps ==
  ASSUME IInv, NEW c \in Clis, JustEnds(c)
  PROVE  IInv'
<1>1. CASE Elsewhere(c)
  <2>1. Watches /\ overlap' \in BOOLEAN
    BY <1>1, StillWatches DEF Elsewhere
  <2> QED BY <1>1, <2>1, FinishKeeps DEF Elsewhere, At
<1>2. CASE Status(c)
  <2>1. Watches /\ overlap' \in BOOLEAN
    BY <1>2, LookWatches DEF Status
  <2> QED BY <1>2, <2>1, FinishKeeps DEF Status, At
<1>3. CASE NoAppium(c)
  <2>1. Watches /\ overlap' \in BOOLEAN
    BY <1>3, LookWatches DEF NoAppium
  <2> QED BY <1>3, <2>1, FinishKeeps DEF NoAppium, At
<1>4. CASE ExitedEarly(c)
  <2>1. Watches /\ overlap' \in BOOLEAN
    BY <1>4, StillWatches DEF ExitedEarly
  <2>2. Undisturbed' => OurServers = {}
    <3>1. cli[c].pid \in Procs /\ ~Runs(cli[c].pid)
      BY <1>4 DEF ExitedEarly, At, IInv, TypeOK, CliShape, ShapeOf
    <3>2. Undisturbed' => OurServers \subseteq {cli[c].pid}
      BY <1>4, <2>1, WatchKeeps DEF ExitedEarly, At, IInv, FileIsTrue
    <3>3. cli[c].pid \notin OurServers
      BY <3>1, NoneAssumption DEF OurServers, Runs, IInv, TypeOK
    <3> QED BY <3>2, <3>3
  <2> QED BY <1>4, <2>1, <2>2, FinishKeeps DEF ExitedEarly
<1>5. CASE StopNothing(c)
  <2>1. Watches /\ overlap' \in BOOLEAN
    BY <1>5, StillWatches DEF StopNothing
  <2> QED BY <1>5, <2>1, FinishKeeps DEF StopNothing, At
<1>6. CASE DoesNotEnd(c)
  <2>1. Watches /\ overlap' \in BOOLEAN
    BY <1>6, StillWatches DEF DoesNotEnd
  <2> QED BY <1>6, <2>1, FinishKeeps DEF DoesNotEnd, At
<1>7. CASE Interrupt(c)
  <2>1. FaultsGrow /\ faults'.killed > 0
    BY <1>7, CountGrows DEF Interrupt, IInv, Faults
  <2>2. Watches /\ overlap' \in BOOLEAN /\ ~Undisturbed'
    BY <1>7, <2>1 DEF Interrupt, Watches, history, Undisturbed, IInv, TypeOK
  <2> QED BY <1>7, <2>2, FinishKeeps DEF Interrupt
<1> QED BY <1>1, <1>2, <1>3, <1>4, <1>5, <1>6, <1>7 DEF JustEnds

\* The record of a command with another place.
Placed(c, pc, pid) == [[cli[c] EXCEPT !.pc = pc] EXCEPT !.pid = pid]

LEMMA PlaceRecord ==
  ASSUME TypeOK, CliShape, NEW c \in Clis, cli[c].pc # "idle",
         NEW pc \in {"first", "check", "wait", "signal", "ended"},
         NEW pid \in Procs \cup {None}
  PROVE  /\ Placed(c, pc, pid) \in CliRecords
         /\ Placed(c, pc, pid).pc = pc /\ Placed(c, pc, pid).pid = pid
         /\ Placed(c, pc, pid).cmd = cli[c].cmd /\ Placed(c, pc, pid).port = cli[c].port
         /\ Placed(c, pc, pid).exit = "none"
         /\ cli[c].port \in Ports /\ cli[c].cmd # "none"
<1>1. cli[c] \in CliRecords
  BY DEF TypeOK, CliRecords
<1>2. /\ Placed(c, pc, pid) \in CliRecords
      /\ Placed(c, pc, pid).pc = pc /\ Placed(c, pc, pid).pid = pid
      /\ Placed(c, pc, pid).cmd = cli[c].cmd /\ Placed(c, pc, pid).port = cli[c].port
      /\ Placed(c, pc, pid).exit = cli[c].exit
  BY <1>1 DEF CliRecords, Placed
<1>3. cli[c].exit = "none" /\ cli[c].port \in Ports /\ cli[c].cmd # "none"
  BY DEF CliShape, ShapeOf
<1> QED BY <1>2, <1>3

LEMMA AskFirstKeeps ==
  ASSUME IInv, NEW c \in Clis, AskFirst(c)
  PROVE  IInv'
<1>1. Watches /\ overlap' \in BOOLEAN /\ At(c, "start", "first")
  BY LookWatches DEF AskFirst
<1>2. /\ TypeOK /\ CliShape /\ cli[c].pid = None /\ cli[c] \in CliRecords
      /\ cli \in [Clis -> CliRecords]
  BY <1>1 DEF IInv, CliShape, ShapeOf, At, TypeOK, CliRecords
<1> DEFINE r == [cli[c] EXCEPT !.pc = "check"]
<1>3. r \in CliRecords /\ ShapeOf(r) /\ r.pc = "check"
  BY <1>1, <1>2 DEF CliRecords, ShapeOf, CliShape, At
<1>4. Becomes(c, r)
  BY <1>1, <1>2, <1>3 DEF Becomes, AskFirst, Go, At, Watches
<1> HIDE DEF r
<1> QED BY <1>1, <1>3, <1>4, GoKeeps DEF At

-----------------------------------------------------------------------------
(* Steps of a command that write the file or touch a process. *)

\* A command that ends is idle, and the others are where they were.
LEMMA FinishShape ==
  ASSUME IInv, NEW c \in Clis, NEW exit \in {"ok", "failed"}, Finish(c, exit),
         overlap' = overlap
  PROVE  /\ cli' \in [Clis -> CliRecords] /\ CliShape' /\ OneAtATime'
         /\ cli'[c].pc = "idle" /\ cli'[c].pid = None
         /\ \A d \in Clis \ {c} : cli'[d] = cli[d]
<1>1. Becomes(c, Idle(exit))
  BY FinishBecomes
<1> QED BY <1>1, BecomesKeeps DEF IInv, Idle

\* While one command runs undisturbed no other one waits for, or remembers, a pid.
LEMMA OthersWait ==
  ASSUME IInv, NEW c \in Clis, cli[c].pc # "idle"
  PROVE  /\ Undisturbed => \A d \in Clis \ {c} : cli[d].pc = "idle" /\ cli[d].pid = None
         /\ Undisturbed /\ cli[c].pc # "wait" =>
              \A p \in OurServers : saved.owner = "self" /\ saved.pid = p
<1>1. Undisturbed => \A d \in Clis \ {c} : cli[d].pc = "idle" /\ cli[d].pid = None
  BY OthersIdle
<1> QED BY <1>1 DEF IInv, OurServerOnFile, At

LEMMA OurServersRun == \A p \in OurServers : Runs(p)
BY NoneAssumption DEF OurServers, Runs

LEMMA ReuseServerKeeps ==
  ASSUME IInv, NEW c \in Clis, ReuseServer(c)
  PROVE  IInv'
<1>0. /\ TypeOK /\ PidsAreOurs /\ FileIsTrue /\ OursAreBorn
      /\ UNCHANGED <<proc, faults, overlap, mistaken>>
      /\ saved' = Found(cli[c].port) /\ Finish(c, "ok")
      /\ cli[c].pc = "check" /\ cli[c].port \in Ports
  BY DEF IInv, ReuseServer, At, Answers, history, CliShape, ShapeOf
<1>1. /\ cli' \in [Clis -> CliRecords] /\ CliShape' /\ OneAtATime'
      /\ cli'[c].pc = "idle" /\ cli'[c].pid = None
      /\ \A d \in Clis \ {c} : cli'[d] = cli[d]
  BY <1>0, FinishShape
<1> DEFINE self == saved.owner = "self" /\ Runs(saved.pid)
<1>2. /\ saved'.owner = (IF self THEN "self" ELSE "external")
      /\ saved'.port = AskedPort(cli[c].port)
      /\ saved'.pid = (IF self THEN saved.pid ELSE None)
      /\ saved' \in [owner : {"none", "self", "external"}, port : Ports \cup {None},
                     pid : Procs \cup {None}]
  BY <1>0 DEF Found, AskedPort, TypeOK
<1>3. /\ saved'.port \in Ports
      /\ saved.owner = "self" => saved'.port = saved.port
  BY <1>0, <1>2 DEF AskedPort, TypeOK
<1>4. TypeOK'
  <2>1. /\ (saved'.owner = "self") <=> (saved'.pid # None)
        /\ (saved'.owner = "none") <=> (saved'.port = None)
    BY <1>0, <1>2, <1>3, NoneAssumption DEF TypeOK
  <2> QED BY <1>0, <1>1, <1>2, <2>1 DEF TypeOK, CliRecords
<1>5. (Undisturbed' <=> Undisturbed) /\ OurServers' = OurServers
  BY <1>0 DEF Undisturbed, OurServers
<1>6. PidsAreOurs' /\ OursAreBorn'
  BY <1>0, <1>1, <1>2 DEF PidsAreOurs, OursAreBorn
<1>7. FileIsTrue'
  <2> SUFFICES ASSUME Undisturbed' PROVE FileIsTrue'
    BY DEF FileIsTrue
  <2>1. \A d \in Clis : cli'[d].pc = "idle"
    BY <1>0, <1>1, <1>5, OthersWait
  <2>2. saved'.owner = "self" => /\ proc[saved'.pid].phase \notin {"unborn", "booting"}
                                 /\ proc[saved'.pid].port = saved'.port
    BY <1>0, <1>2, <1>3, <1>5 DEF FileIsTrue
  <2> QED BY <1>0, <2>1, <2>2 DEF FileIsTrue
<1>8. OurServerOnFile'
  BY <1>0, <1>2, <1>5, OthersWait, OurServersRun DEF OurServerOnFile
<1> QED BY <1>1, <1>4, <1>6, <1>7, <1>8 DEF IInv

LEMMA SpawnServerKeeps ==
  ASSUME IInv, NEW c \in Clis, SpawnServer(c)
  PROVE  IInv'
<1>0. /\ TypeOK /\ CliShape /\ PidsAreOurs /\ FileIsTrue /\ OursAreBorn /\ OneAtATime
      /\ cli[c].pc = "check" /\ cli[c].cmd = "start" /\ cli[c].port \in Ports
      /\ UNCHANGED <<saved, overlap, mistaken>>
      /\ Silent(AskedPort(cli[c].port))
  BY DEF IInv, SpawnServer, At, history, CliShape, ShapeOf
<1>1. PICK p \in Procs :
        /\ proc[p].phase = "unborn"
        /\ proc' = [proc EXCEPT ![p] =
             [phase |-> "booting", port |-> cli[c].port, ours |-> TRUE]]
        /\ cli' = [cli EXCEPT ![c].pc = "wait", ![c].pid = p]
  BY DEF SpawnServer
<1> DEFINE r == Placed(c, "wait", p)
<1>2. /\ r \in CliRecords
      /\ r.pc = "wait" /\ r.pid = p /\ r.cmd = "start" /\ r.port = cli[c].port
      /\ r.exit = "none"
  BY <1>0, PlaceRecord
<1>3. Becomes(c, r)
  <2>1. cli' = [cli EXCEPT ![c] = r]
    BY <1>0, <1>1 DEF TypeOK, Placed
  <2>2. ShapeOf(r)
    BY <1>0, <1>2, NoneAssumption DEF ShapeOf
  <2> QED BY <1>0, <1>2, <2>1, <2>2 DEF Becomes
<1> HIDE DEF r
<1>4. /\ cli' \in [Clis -> CliRecords] /\ cli'[c] = r
      /\ \A d \in Clis \ {c} : cli'[d] = cli[d]
      /\ CliShape' /\ OneAtATime'
  BY <1>0, <1>3, BecomesKeeps
<1>5. FaultsGrow
  BY <1>0, LookGrows
<1>6. (Undisturbed' => Undisturbed) /\ (faults'.reused = 0 => faults.reused = 0)
  BY <1>0, <1>5, DisturbedStays
<1>7. /\ proc' \in [Procs -> ProcRecords]
      /\ proc'[p].phase = "booting" /\ proc'[p].port = cli[c].port /\ proc'[p].ours
      /\ \A q \in Procs \ {p} : proc'[q] = proc[q]
  BY <1>0, <1>1 DEF TypeOK, ProcRecords, Phases
<1>8. TypeOK'
  BY <1>0, <1>4, <1>5, <1>7 DEF TypeOK, CliRecords, ProcRecords, FaultsGrow, Faults
<1>9. OursAreBorn'
  BY <1>0, <1>7 DEF OursAreBorn
<1>10. PidsAreOurs'
  <2> SUFFICES ASSUME faults'.reused = 0 PROVE PidsAreOurs'
    BY DEF PidsAreOurs
  <2>1. \A q \in Procs : proc[q].ours => proc'[q].ours
    BY <1>7
  <2>2. saved.pid # None => saved.pid \in Procs /\ proc[saved.pid].ours
    BY <1>0, <1>6 DEF PidsAreOurs, TypeOK
  <2>3. \A d \in Clis : cli[d].pid # None => cli[d].pid \in Procs /\ proc[cli[d].pid].ours
    BY <1>0, <1>6 DEF PidsAreOurs, TypeOK
  <2>4. \A d \in Clis : cli'[d].pid # None => proc'[cli'[d].pid].ours
    BY <1>2, <1>4, <1>7, <2>1, <2>3
  <2> QED BY <1>0, <2>1, <2>2, <2>4 DEF PidsAreOurs
<1>11. ASSUME Undisturbed'
       PROVE  OurServers = {}
  <2>1. Undisturbed
    BY <1>6, <1>11
  <2>2. Listeners(AskedPort(cli[c].port)) = {}
    <3>1. ~Count("slow")
      BY <1>0, <1>11, CountGrows DEF Undisturbed, Faults
    <3> QED BY <1>0, <3>1 DEF Silent
  <2>3. ASSUME NEW q \in OurServers
        PROVE  FALSE
    <3>1. saved.owner = "self" /\ saved.pid = q /\ q \in Procs
      BY <1>0, <2>1, OthersWait DEF OurServers
    <3>2. proc[q].phase = "up" /\ proc[q].port = saved.port /\ saved.port # None
      BY <1>0, <2>1, <3>1 DEF FileIsTrue, OurServers, TypeOK
    <3> QED BY <2>2, <3>1, <3>2 DEF Listeners, Listening, AskedPort
  <2> QED BY <2>3
<1>12. Undisturbed' => OurServers' \subseteq {p}
  BY <1>7, <1>11 DEF OurServers
<1>13. FileIsTrue'
  <2> SUFFICES ASSUME Undisturbed' PROVE FileIsTrue'
    BY DEF FileIsTrue
  <2>1. saved.owner = "self" => saved.pid \in Procs \ {p}
    BY <1>0, <1>1, <1>6 DEF FileIsTrue, TypeOK
  <2>2. \A d \in Clis \ {c} : cli'[d].pc = "idle"
    BY <1>0, <1>4, <1>6, OthersWait
  <2>3. saved.owner = "self" => /\ proc'[saved.pid].phase \notin {"unborn", "booting"}
                                /\ proc'[saved.pid].port = saved.port
    BY <1>0, <1>6, <1>7, <2>1 DEF FileIsTrue
  <2>4. \A d \in Clis :
          /\ cli'[d].pc \notin {"signal", "ended"}
          /\ cli'[d].pc = "wait" => /\ proc'[cli'[d].pid].phase # "unborn"
                                    /\ proc'[cli'[d].pid].port = cli'[d].port
                                    /\ OurServers' \subseteq {cli'[d].pid}
    BY <1>2, <1>4, <1>7, <1>12, <2>2
  <2>5. saved' = saved
    BY <1>0
  <2> QED BY <2>3, <2>4, <2>5 DEF FileIsTrue
<1>14. OurServerOnFile'
  BY <1>2, <1>4, <1>12 DEF OurServerOnFile, At
<1> QED BY <1>4, <1>8, <1>9, <1>10, <1>13, <1>14 DEF IInv

LEMMA ReadyKeeps ==
  ASSUME IInv, NEW c \in Clis, Ready(c)
  PROVE  IInv'
<1>0. /\ TypeOK /\ PidsAreOurs /\ FileIsTrue /\ OursAreBorn
      /\ UNCHANGED <<proc, faults, overlap>>
      /\ saved' = [owner |-> "self", port |-> cli[c].port, pid |-> cli[c].pid]
      /\ mistaken' = (mistaken \/ ~Listening(cli[c].pid))
      /\ Finish(c, "ok")
      /\ cli[c].pc = "wait" /\ cli[c].port \in Ports /\ cli[c].pid \in Procs
  BY DEF IInv, Ready, At, Answers, CliShape, ShapeOf, TypeOK
<1>1. /\ cli' \in [Clis -> CliRecords] /\ CliShape' /\ OneAtATime'
      /\ cli'[c].pc = "idle" /\ cli'[c].pid = None
      /\ \A d \in Clis \ {c} : cli'[d] = cli[d]
  BY <1>0, FinishShape
<1>2. TypeOK'
  <2>1. mistaken' \in BOOLEAN
    BY <1>0
  <2> QED BY <1>0, <1>1, <2>1, NoneAssumption DEF TypeOK, CliRecords
<1>3. PidsAreOurs' /\ OursAreBorn'
  BY <1>0, <1>1, NoneAssumption DEF PidsAreOurs, OursAreBorn
<1>4. Undisturbed' => Undisturbed /\ Listening(cli[c].pid)
  BY <1>0 DEF Undisturbed
<1>5. /\ saved'.owner = "self" /\ saved'.port = cli[c].port /\ saved'.pid = cli[c].pid
      /\ OurServers' = OurServers
  BY <1>0 DEF OurServers
<1>6. FileIsTrue'
  <2> SUFFICES ASSUME Undisturbed' PROVE FileIsTrue'
    BY DEF FileIsTrue
  <2>1. \A d \in Clis : cli'[d].pc = "idle"
    BY <1>0, <1>1, <1>4, OthersWait
  <2> QED BY <1>0, <1>4, <1>5, <2>1 DEF FileIsTrue, Listening
<1>7. OurServerOnFile'
  BY <1>0, <1>4, <1>5 DEF OurServerOnFile, FileIsTrue
<1> QED BY <1>1, <1>2, <1>3, <1>6, <1>7 DEF IInv

\* SIGTERM ends whatever it is sent to, and changes nothing else.
LEMMA SignalRecord ==
  ASSUME TypeOK, NEW p \in Procs, Signal(p)
  PROVE  /\ proc' \in [Procs -> ProcRecords]
         /\ proc'[p].phase \notin {"booting", "up"}
         /\ proc[p].phase # "unborn" => proc'[p].phase # "unborn"
         /\ \A q \in Procs : proc'[q].ours = proc[q].ours /\ proc'[q].port = proc[q].port
         /\ \A q \in Procs \ {p} : proc'[q] = proc[q]
<1>1. proc \in [Procs -> ProcRecords]
  BY DEF TypeOK, ProcRecords
<1>2. /\ Terminated(p) \in Phases /\ Terminated(p) \notin {"booting", "up"}
      /\ proc[p].phase # "unborn" => Terminated(p) # "unborn"
  BY <1>1 DEF Terminated, ProcRecords, Phases
<1> QED BY <1>1, <1>2 DEF Signal, ProcRecords

\* A signal leaves the pids of our servers what they were.
LEMMA SignalKeeps ==
  ASSUME IInv, NEW p \in Procs, Signal(p)
  PROVE  /\ OursAreBorn' /\ OurServers' = OurServers \ {p}
         /\ \A q \in Procs : proc[q].phase \notin {"unborn", "booting"} =>
              proc'[q].phase \notin {"unborn", "booting"}
<1>1. TypeOK /\ OursAreBorn
  BY DEF IInv
<1> QED BY <1>1, SignalRecord DEF OursAreBorn, OurServers

LEMMA NotReadyKeeps ==
  ASSUME IInv, NEW c \in Clis, NotReady(c)
  PROVE  IInv'
<1>0. /\ TypeOK /\ PidsAreOurs /\ FileIsTrue
      /\ UNCHANGED <<saved, faults, overlap, mistaken>>
      /\ Finish(c, "failed") /\ Signal(cli[c].pid)
      /\ cli[c].pc = "wait" /\ cli[c].pid \in Procs
  BY DEF IInv, NotReady, At, history, CliShape, ShapeOf, TypeOK
<1>1. /\ cli' \in [Clis -> CliRecords] /\ CliShape' /\ OneAtATime'
      /\ cli'[c].pc = "idle" /\ cli'[c].pid = None
      /\ \A d \in Clis \ {c} : cli'[d] = cli[d]
  BY <1>0, FinishShape
<1>2. TypeOK'
  BY <1>0, <1>1, SignalRecord DEF TypeOK, CliRecords, ProcRecords
<1>3. PidsAreOurs'
  <2>1. \A q \in Procs : proc'[q].ours = proc[q].ours
    BY <1>0, SignalRecord
  <2>2. /\ saved.pid # None => saved.pid \in Procs
        /\ \A d \in Clis : cli[d].pid # None => cli[d].pid \in Procs
    BY <1>0 DEF TypeOK
  <2> QED BY <1>0, <1>1, <2>1, <2>2 DEF PidsAreOurs
<1>4. (Undisturbed' <=> Undisturbed)
  BY <1>0 DEF Undisturbed
<1>5. ASSUME Undisturbed'
      PROVE  OurServers' = {} /\ \A d \in Clis : cli'[d].pc = "idle"
  BY <1>0, <1>1, <1>4, <1>5, SignalKeeps, OthersWait DEF FileIsTrue
<1>6. FileIsTrue'
  <2> SUFFICES ASSUME Undisturbed' PROVE FileIsTrue'
    BY DEF FileIsTrue
  <2>1. saved.owner = "self" => saved.pid \in Procs
    BY <1>0 DEF TypeOK
  <2>2. saved.owner = "self" => /\ proc'[saved.pid].phase \notin {"unborn", "booting"}
                                /\ proc'[saved.pid].port = saved.port
    BY <1>0, <1>4, <2>1, SignalKeeps, SignalRecord DEF FileIsTrue
  <2>3. saved' = saved
    BY <1>0
  <2> QED BY <1>5, <2>2, <2>3 DEF FileIsTrue
<1>7. OurServerOnFile'
  BY <1>5 DEF OurServerOnFile
<1> QED BY <1>0, <1>1, <1>2, <1>3, <1>6, <1>7, SignalKeeps DEF IInv

\* A command that ends and forgets the server on file, which does not run.
Forgets(c) ==
  /\ UNCHANGED <<proc, faults, overlap, mistaken>>
  /\ saved' = NoFile /\ Finish(c, "ok")
  /\ cli[c].pc \in {"first", "ended"}
  /\ Undisturbed => OurServers = {}

LEMMA ForgetsKeeps ==
  ASSUME IInv, NEW c \in Clis, Forgets(c)
  PROVE  IInv'
<1>0. /\ TypeOK /\ PidsAreOurs /\ FileIsTrue /\ OursAreBorn
      /\ UNCHANGED <<proc, faults, overlap, mistaken>>
      /\ saved' = NoFile /\ Finish(c, "ok")
      /\ cli[c].pc # "idle"
      /\ Undisturbed => OurServers = {}
  BY DEF IInv, Forgets
<1>1. /\ cli' \in [Clis -> CliRecords] /\ CliShape' /\ OneAtATime'
      /\ cli'[c].pc = "idle" /\ cli'[c].pid = None
      /\ \A d \in Clis \ {c} : cli'[d] = cli[d]
  BY <1>0, FinishShape
<1>2. saved'.owner = "none" /\ saved'.pid = None /\ saved'.port = None
  BY <1>0 DEF NoFile
<1>3. TypeOK'
  BY <1>0, <1>1, <1>2 DEF TypeOK, CliRecords, NoFile
<1>4. (Undisturbed' <=> Undisturbed) /\ OurServers' = OurServers
  BY <1>0 DEF Undisturbed, OurServers
<1>5. PidsAreOurs' /\ OursAreBorn'
  BY <1>0, <1>1, <1>2 DEF PidsAreOurs, OursAreBorn
<1>6. Undisturbed' => \A d \in Clis : cli'[d].pc = "idle"
  BY <1>0, <1>1, <1>4, OthersWait
<1>7. FileIsTrue'
  BY <1>2, <1>6 DEF FileIsTrue
<1>8. OurServerOnFile'
  BY <1>0, <1>4 DEF OurServerOnFile
<1> QED BY <1>1, <1>3, <1>5, <1>7, <1>8 DEF IInv

\* Nothing of ours runs when a stop finds nothing to stop.
LEMMA NothingToStop ==
  ASSUME IInv, Undisturbed, NEW c \in Clis,
         \/ cli[c].pc = "first" /\ (saved.owner # "self" \/ ~Runs(saved.pid))
         \/ cli[c].pc = "ended" /\ ~Runs(cli[c].pid)
  PROVE  OurServers = {}
<1>1. \A p \in OurServers : saved.owner = "self" /\ saved.pid = p /\ Runs(p)
  BY OthersWait, OurServersRun
<1>2. cli[c].pc = "ended" => cli[c].pid = saved.pid
  BY DEF IInv, FileIsTrue
<1> QED BY <1>1, <1>2

LEMMA AlreadyStoppedKeeps ==
  ASSUME IInv, NEW c \in Clis, AlreadyStopped(c)
  PROVE  IInv'
<1>1. Forgets(c)
  BY NothingToStop DEF AlreadyStopped, Forgets, At, history
<1> QED BY <1>1, ForgetsKeeps

LEMMA StoppedKeeps ==
  ASSUME IInv, NEW c \in Clis, Stopped(c)
  PROVE  IInv'
<1>1. Forgets(c)
  BY NothingToStop DEF Stopped, Forgets, At, history
<1> QED BY <1>1, ForgetsKeeps

\* A stop moves on with the pid it has read from the file.
LEMMA StopMoves ==
  ASSUME IInv, NEW c \in Clis, cli[c].pc # "idle", cli[c].cmd = "stop",
         NEW pc \in {"signal", "ended"}, NEW pid \in Procs,
         cli' = [cli EXCEPT ![c] = Placed(c, pc, pid)],
         UNCHANGED <<saved, faults, overlap, mistaken>>,
         faults.reused = 0 => proc[pid].ours,
         Undisturbed => pid = saved.pid
  PROVE  /\ cli' \in [Clis -> CliRecords] /\ CliShape' /\ OneAtATime'
         /\ \A d \in Clis : cli'[d].pid # None => cli'[d].pid \in {cli[d].pid, pid}
         /\ Undisturbed' => \A d \in Clis : /\ cli'[d].pc # "wait"
                                            /\ cli'[d].pc \in {"signal", "ended"} =>
                                                 cli'[d].pid = saved.pid
         /\ faults'.reused = 0 => \A d \in Clis : cli'[d].pid # None =>
                                    cli'[d].pid \in Procs /\ proc[cli'[d].pid].ours
<1>0. TypeOK /\ CliShape /\ OneAtATime /\ PidsAreOurs
  BY DEF IInv
<1> DEFINE r == Placed(c, pc, pid)
<1>1. /\ r \in CliRecords /\ r.pc = pc /\ r.pid = pid /\ r.cmd = "stop"
      /\ r.exit = "none" /\ r.port \in Ports
  BY <1>0, PlaceRecord
<1>2. Becomes(c, r)
  BY <1>1, NoneAssumption DEF Becomes, ShapeOf
<1> HIDE DEF r
<1>3. /\ cli' \in [Clis -> CliRecords] /\ cli'[c] = r
      /\ \A d \in Clis \ {c} : cli'[d] = cli[d]
      /\ CliShape' /\ OneAtATime'
  BY <1>0, <1>2, BecomesKeeps
<1>4. Undisturbed' => Undisturbed
  BY DEF Undisturbed
<1>5. Undisturbed' => \A d \in Clis \ {c} : cli'[d].pc = "idle"
  BY <1>3, <1>4, OthersWait
<1>6. faults'.reused = 0 => \A d \in Clis : cli'[d].pid # None =>
        cli'[d].pid \in Procs /\ proc[cli'[d].pid].ours
  <2>1. \A d \in Clis : cli[d].pid # None => cli[d].pid \in Procs
    BY <1>0 DEF TypeOK
  <2> QED BY <1>0, <1>1, <1>3, <2>1 DEF PidsAreOurs
<1> QED BY <1>1, <1>3, <1>4, <1>5, <1>6

LEMMA FindPidKeeps ==
  ASSUME IInv, NEW c \in Clis, FindPid(c)
  PROVE  IInv'
<1>0. /\ TypeOK /\ PidsAreOurs /\ FileIsTrue /\ OursAreBorn /\ CliShape
      /\ UNCHANGED <<proc, saved, faults, overlap, mistaken>>
      /\ cli[c].pc = "first" /\ cli[c].cmd = "stop" /\ saved.owner = "self"
      /\ saved.pid \in Procs
  BY DEF IInv, FindPid, At, history, TypeOK
<1>1. cli' = [cli EXCEPT ![c] = Placed(c, "signal", saved.pid)]
  BY <1>0 DEF FindPid, TypeOK, Placed
<1>2. faults.reused = 0 => proc[saved.pid].ours
  BY <1>0, NoneAssumption DEF PidsAreOurs
<1>3. /\ cli' \in [Clis -> CliRecords] /\ CliShape' /\ OneAtATime'
      /\ Undisturbed' => \A d \in Clis : /\ cli'[d].pc # "wait"
                                         /\ cli'[d].pc \in {"signal", "ended"} =>
                                              cli'[d].pid = saved.pid
      /\ faults'.reused = 0 => \A d \in Clis : cli'[d].pid # None =>
                                 cli'[d].pid \in Procs /\ proc[cli'[d].pid].ours
  BY <1>0, <1>1, <1>2, StopMoves
<1>4. TypeOK'
  BY <1>0, <1>3 DEF TypeOK, CliRecords
<1>5. (Undisturbed' <=> Undisturbed) /\ OurServers' = OurServers
  BY <1>0 DEF Undisturbed, OurServers
<1>6. PidsAreOurs' /\ OursAreBorn'
  BY <1>0, <1>3 DEF PidsAreOurs, OursAreBorn
<1>7. FileIsTrue'
  BY <1>0, <1>3, <1>5 DEF FileIsTrue
<1>8. OurServerOnFile'
  BY <1>0, <1>5, OthersWait DEF OurServerOnFile
<1> QED BY <1>3, <1>4, <1>6, <1>7, <1>8 DEF IInv

LEMMA SignalServerKeeps ==
  ASSUME IInv, NEW c \in Clis, SignalServer(c)
  PROVE  IInv'
<1>0. /\ TypeOK /\ PidsAreOurs /\ FileIsTrue /\ OursAreBorn /\ CliShape
      /\ UNCHANGED <<saved, faults, overlap, mistaken>>
      /\ cli[c].pc = "signal" /\ cli[c].cmd = "stop" /\ cli[c].pid \in Procs
  BY DEF IInv, SignalServer, At, history, TypeOK, CliShape, ShapeOf
<1>1. CASE Runs(cli[c].pid) /\ Signal(cli[c].pid) /\ Go(c, "ended")
  <2>1. cli' = [cli EXCEPT ![c] = Placed(c, "ended", cli[c].pid)]
    <3>1. cli \in [Clis -> CliRecords]
      BY <1>0 DEF TypeOK, CliRecords
    <3>2. [[cli[c] EXCEPT !.pc = "ended"] EXCEPT !.pid = cli[c].pid] = [cli[c] EXCEPT !.pc = "ended"]
      BY <3>1 DEF CliRecords
    <3> QED BY <1>1, <3>1, <3>2 DEF Go, Placed
  <2>2. /\ faults.reused = 0 => proc[cli[c].pid].ours
        /\ Undisturbed => cli[c].pid = saved.pid
    BY <1>0, NoneAssumption DEF PidsAreOurs, FileIsTrue
  <2>3. /\ cli' \in [Clis -> CliRecords] /\ CliShape' /\ OneAtATime'
        /\ Undisturbed' => \A d \in Clis : /\ cli'[d].pc # "wait"
                                           /\ cli'[d].pc \in {"signal", "ended"} =>
                                                cli'[d].pid = saved.pid
        /\ faults'.reused = 0 => \A d \in Clis : cli'[d].pid # None =>
                                   cli'[d].pid \in Procs /\ proc[cli'[d].pid].ours
    BY <1>0, <2>1, <2>2, StopMoves
  <2>4. TypeOK'
    BY <1>0, <1>1, <2>3, SignalRecord DEF TypeOK, CliRecords, ProcRecords
  <2>5. (Undisturbed' <=> Undisturbed) /\ OurServers' \subseteq OurServers
    BY <1>0, <1>1, SignalKeeps DEF Undisturbed
  <2>6. PidsAreOurs'
    <3>1. \A q \in Procs : proc'[q].ours = proc[q].ours
      BY <1>0, <1>1, SignalRecord
    <3>2. saved.pid # None => saved.pid \in Procs
      BY <1>0 DEF TypeOK
    <3> QED BY <1>0, <2>3, <3>1, <3>2 DEF PidsAreOurs
  <2>7. FileIsTrue'
    <3> SUFFICES ASSUME Undisturbed' PROVE FileIsTrue'
      BY DEF FileIsTrue
    <3>1. saved.owner = "self" => saved.pid \in Procs
      BY <1>0 DEF TypeOK
    <3>2. saved.owner = "self" => /\ proc'[saved.pid].phase \notin {"unborn", "booting"}
                                  /\ proc'[saved.pid].port = saved.port
      BY <1>0, <1>1, <2>5, <3>1, SignalKeeps, SignalRecord DEF FileIsTrue
    <3>3. saved' = saved
      BY <1>0
    <3> QED BY <2>3, <3>2, <3>3 DEF FileIsTrue
  <2>8. OurServerOnFile'
    BY <1>0, <2>5, OthersWait DEF OurServerOnFile
  <2> QED BY <1>0, <1>1, <2>3, <2>4, <2>6, <2>7, <2>8, SignalKeeps DEF IInv
<1>2. CASE UNCHANGED proc /\ Finish(c, "failed")
  <2>1. Watches /\ overlap' \in BOOLEAN
    BY <1>0, <1>2, StillWatches DEF history
  <2> QED BY <1>0, <1>2, <2>1, FinishKeeps
<1> QED BY <1>1, <1>2 DEF SignalServer

-----------------------------------------------------------------------------
(* The invariant and what follows from it. *)

LEMMA InvariantInit == Init => IInv
<1> SUFFICES ASSUME Init PROVE IInv
  OBVIOUS
<1>1. \A c \in Clis : cli[c] = Idle("none")
  BY DEF Init
<1>2. OurServers = {}
  BY DEF Init, OurServers
<1>3. Idle("none") \in CliRecords /\ ShapeOf(Idle("none")) /\ Idle("none").pc = "idle"
      /\ Idle("none").pid = None
  BY DEF Idle, CliRecords, ShapeOf
<1>4. cli \in [Clis -> CliRecords]
  BY <1>3 DEF Init
<1>5. proc \in [Procs -> ProcRecords] /\ \A p \in Procs : ~proc[p].ours
  BY DEF Init, ProcRecords, Phases
<1>6. TypeOK
  <2>1. faults \in [{"slow", "killed", "deaths", "reused"} -> Nat]
    BY DEF Init
  <2>2. /\ saved \in [owner : {"none", "self", "external"}, port : Ports \cup {None},
                      pid : Procs \cup {None}]
        /\ (saved.owner = "self") <=> (saved.pid # None)
        /\ (saved.owner = "none") <=> (saved.port = None)
    BY DEF Init, NoFile
  <2>3. overlap \in BOOLEAN /\ mistaken \in BOOLEAN
    BY DEF Init
  <2> QED BY <1>4, <1>5, <2>1, <2>2, <2>3 DEF TypeOK, CliRecords, ProcRecords
<1>7. saved.owner = "none" /\ saved.pid = None
  BY DEF Init, NoFile
<1> QED
  BY <1>1, <1>2, <1>3, <1>5, <1>6, <1>7
    DEF IInv, CliShape, OursAreBorn, PidsAreOurs, OneAtATime, FileIsTrue, OurServerOnFile

LEMMA CommandKeeps ==
  ASSUME IInv, NEW c \in Clis, Command(c)
  PROVE  IInv'
<1>1. CASE \E cmd \in Commands, port \in Ports : Begin(c, cmd, port)
  BY <1>1, BeginKeeps
<1>2. CASE JustEnds(c)
  BY <1>2, JustEndsKeeps
<1>3. CASE AskFirst(c) \/ ReuseServer(c) \/ SpawnServer(c)
  BY <1>3, AskFirstKeeps, ReuseServerKeeps, SpawnServerKeeps
<1>4. CASE Ready(c) \/ NotReady(c)
  BY <1>4, ReadyKeeps, NotReadyKeeps
<1>5. CASE AlreadyStopped(c) \/ FindPid(c) \/ SignalServer(c) \/ Stopped(c)
  BY <1>5, AlreadyStoppedKeeps, FindPidKeeps, SignalServerKeeps, StoppedKeeps
<1> QED BY <1>1, <1>2, <1>3, <1>4, <1>5 DEF Command, JustEnds

LEMMA InvariantStep == IInv /\ [Next]_vars => IInv'
<1> SUFFICES ASSUME IInv, [Next]_vars PROVE IInv'
  OBVIOUS
<1>1. CASE \E c \in Clis : Command(c)
  BY <1>1, CommandKeeps
<1>2. CASE \E p \in Procs : Server(p)
  BY <1>2, ServerKeeps
<1>3. CASE UNCHANGED vars
  BY <1>3 DEF vars, history, IInv, TypeOK, CliShape, ShapeOf, OursAreBorn, PidsAreOurs,
              OneAtATime, FileIsTrue, OurServerOnFile, Undisturbed, OurServers, At
<1> QED BY <1>1, <1>2, <1>3 DEF Next

\* The inductive invariant holds for any number of pids, ports and commands.
THEOREM Invariant == Spec => []IInv
BY InvariantInit, InvariantStep, PTL DEF Spec

\* The types are kept, and a pid is on file exactly for a server of one's own.
THEOREM TypeCorrect == Spec => []TypeOK
<1>1. IInv => TypeOK
  BY DEF IInv
<1> QED BY <1>1, Invariant, PTL

\* However many servers of others come and go: while nothing disturbs the
\* commands, the server that `server start` has started is the one on file.
THEOREM OurServerOnFileHolds == Spec => []OurServerOnFile
<1>1. IInv => OurServerOnFile
  BY DEF IInv
<1> QED BY <1>1, Invariant, PTL

\* A command changes its own record only.
LEMMA OwnRecord ==
  ASSUME NEW c \in Clis, NEW d \in Clis, Command(d), cli'[c] # cli[c], TypeOK
  PROVE  c = d
BY DEF Command, Begin, Elsewhere, Status, AskFirst, ReuseServer, SpawnServer, NoAppium,
       ExitedEarly, Ready, NotReady, StopNothing, AlreadyStopped, FindPid, SignalServer,
       Stopped, DoesNotEnd, Interrupt, Go, Finish, TypeOK

LEMMA StopStep ==
  ASSUME IInv, NEW c \in Clis, Command(c), cli[c].cmd = "stop", cli'[c].exit = "ok"
  PROVE  StopNothing(c) \/ AlreadyStopped(c) \/ Stopped(c)
<1>1. /\ cli \in [Clis -> CliRecords] /\ cli[c].exit = "none" /\ cli[c].pc # "idle"
  BY DEF IInv, TypeOK, CliRecords, CliShape, ShapeOf
<1>2. ~Finish(c, "failed")
  BY <1>1 DEF Finish, Idle
<1>3. \A pc : ~Go(c, pc)
  BY <1>1 DEF Go, CliRecords
<1>4. ~FindPid(c)
  BY <1>1 DEF FindPid, CliRecords
<1> QED
  BY <1>1, <1>2, <1>3, <1>4
    DEF Command, Begin, Elsewhere, Status, AskFirst, ReuseServer, SpawnServer, NoAppium,
        ExitedEarly, Ready, NotReady, SignalServer, DoesNotEnd, Interrupt, At

\* Undisturbed (one command at a time, none interrupted, servers that answer
\* within a second, no port taken by another server during a start), a stop that
\* reports no failure leaves no server of ours running, for any number of
\* servers, ports and commands, dying servers and pids given away included.
THEOREM StopStopsHolds == Spec => StopStops
<1>1. ASSUME IInv, [Next]_vars, NEW c \in Clis, Undisturbed', cli[c].cmd = "stop",
             cli'[c].exit = "ok"
      PROVE  OurServers' = {}
  <2>1. cli'[c] # cli[c]
    BY <1>1 DEF IInv, CliShape, ShapeOf
  <2>2. PICK d \in Clis : Command(d)
    <3>1. \A p \in Procs : ~Server(p)
      BY <2>1 DEF Server, Boot, Close, Exit, StartsElsewhere, Dies, Reuse
    <3>2. ~UNCHANGED vars
      BY <2>1 DEF vars
    <3> QED BY <1>1, <3>1, <3>2 DEF Next
  <2>3. Command(c)
    BY <1>1, <2>1, <2>2, OwnRecord DEF IInv
  <2>4. StopNothing(c) \/ AlreadyStopped(c) \/ Stopped(c)
    BY <1>1, <2>3, StopStep
  <2>5. /\ UNCHANGED <<proc, faults, history>>
        /\ \/ cli[c].pc = "first" /\ (saved.owner # "self" \/ ~Runs(saved.pid))
           \/ cli[c].pc = "ended" /\ ~Runs(cli[c].pid)
    BY <2>4 DEF StopNothing, AlreadyStopped, Stopped, At
  <2>6. Undisturbed
    BY <1>1, <2>5 DEF Undisturbed, history
  <2>7. OurServers = {}
    BY <1>1, <2>5, <2>6, NothingToStop
  <2> QED BY <2>5, <2>7 DEF OurServers
<1>2. IInv /\ [Next]_vars =>
        [\A c \in Clis : (Undisturbed' /\ cli[c].cmd = "stop" /\ cli'[c].exit = "ok")
                         => OurServers' = {}]_vars
  BY <1>1
<1> QED BY <1>2, Invariant, PTL DEF Spec, StopStops

\* What a command does to the processes: it spawns one, or signals one of ours.
LEMMA CommandSignals ==
  ASSUME IInv, NEW c \in Clis, Command(c), NEW p \in Procs, faults.reused = 0,
         proc[p].phase # "unborn", proc'[p] # proc[p]
  PROVE  proc[p].ours
<1>1. /\ proc \in [Procs -> ProcRecords]
      /\ cli[c].pid \in Procs \cup {None}
  BY DEF IInv, TypeOK, ProcRecords
<1>2. proc' # proc
  OBVIOUS
<1>3. ~SpawnServer(c)
  BY <1>1 DEF SpawnServer
<1>4. NotReady(c) \/ SignalServer(c)
  <2>1. \A cmd \in Commands, port \in Ports : ~Begin(c, cmd, port)
    BY <1>2 DEF Begin
  <2>2. ~JustEnds(c)
    BY <1>2 DEF JustEnds, Elsewhere, Status, NoAppium, ExitedEarly, StopNothing, DoesNotEnd,
                Interrupt
  <2>3. ~AskFirst(c) /\ ~ReuseServer(c) /\ ~Ready(c)
    BY <1>2 DEF AskFirst, ReuseServer, Ready
  <2>4. ~AlreadyStopped(c) /\ ~FindPid(c) /\ ~Stopped(c)
    BY <1>2 DEF AlreadyStopped, FindPid, Stopped
  <2> QED BY <1>3, <2>1, <2>2, <2>3, <2>4 DEF Command, JustEnds
<1>5. Signal(cli[c].pid) /\ cli[c].pc \in {"wait", "signal"}
  BY <1>2, <1>4 DEF NotReady, SignalServer, At
<1>6. cli[c].pid \in Procs /\ cli[c].pid # None
  BY <1>1, <1>5, NoneAssumption DEF IInv, CliShape, ShapeOf
<1>7. p = cli[c].pid
  BY <1>1, <1>5, <1>6 DEF Signal
<1> QED BY <1>6, <1>7 DEF IInv, PidsAreOurs

\* As long as no pid is given to another program, only processes that `server
\* start` spawned are sent SIGTERM, whatever else goes wrong.
THEOREM OnlyOursSignalledHolds == Spec => OnlyOursSignalled
<1>1. ASSUME IInv, [Next]_vars, NEW p \in Procs, faults.reused = 0,
             proc[p].phase \in {"booting", "up", "other"},
             proc'[p].phase \in {"closing", "ending"}, cli' # cli
      PROVE  proc[p].ours
  <2>1. \A q \in Procs : ~Server(q)
    BY <1>1 DEF Server, Boot, Close, Exit, StartsElsewhere, Dies, Reuse
  <2>2. ~UNCHANGED vars
    BY <1>1 DEF vars
  <2>3. PICK c \in Clis : Command(c)
    BY <1>1, <2>1, <2>2 DEF Next
  <2>4. proc'[p] # proc[p] /\ proc[p].phase # "unborn"
    BY <1>1
  <2> QED BY <1>1, <2>3, <2>4, CommandSignals
<1>2. IInv /\ [Next]_vars =>
        [\A p \in Procs :
           (proc[p].phase \in {"booting", "up", "other"}
            /\ proc'[p].phase \in {"closing", "ending"}
            /\ cli' # cli /\ faults.reused = 0)
           => proc[p].ours]_vars
  BY <1>1
<1> QED BY <1>2, Invariant, PTL DEF Spec, OnlyOursSignalled
=============================================================================
