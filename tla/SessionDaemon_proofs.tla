------------------------ MODULE SessionDaemon_proofs ------------------------
(***************************************************************************)
(* Proofs about SessionDaemon for any number of daemons and crashes, when  *)
(* one command runs at a time and none is killed.                          *)
(*                                                                         *)
(* A daemon that has a part in the socket and the pid file is "on the      *)
(* files".  The inductive invariant says which daemon may be on the files  *)
(* at each point of a command, and what the files hold at each point of    *)
(* that daemon.                                                            *)
(***************************************************************************)
EXTENDS SessionDaemon, TLAPS

OneCommand == MaxDeaths = 0 /\ \E c \in Clis : Clis = {c}

Growing == {"creating", "starting", "naming", "binding", "serving", "busy"}
Ending == {"closing", "closed"}

OnFiles(d) == daemon[d] \in Growing \cup Ending

\* What a command remembers at each of its points.
ShapeOf(r) ==
  /\ (r.pc = "idle") <=> (r.cmd = "none")
  /\ r.cmd # "none" => r.outcome = "none"
  /\ r.pc \in {"kill", "spawn", "poll", "sleep"} => r.cmd = "start"
  /\ r.pc \in {"shutdown", "shutting", "wait", "clear"} => r.cmd \in {"stop", "server_stop"}
  /\ r.own # None => r.cmd = "start" /\ r.pc \in {"ping", "pong", "poll", "sleep"}
  /\ r.pc \in {"poll", "sleep"} => r.own # None

CliShape == \A c \in Clis : ShapeOf(cli[c])

\* A start waits for its own daemon.  Before a command has an answer, the
\* daemon on the files is one that takes requests; after the answer it is the
\* one that has been told to end.
MayBeOnFiles(r, d) ==
  \/ r.own = d /\ daemon[d] \in Growing
  \/ r.own = None /\ r.pc \in {"idle", "ping", "shutdown"} /\ Listening(d)
  \/ r.own = None /\ r.pc \in {"pong", "shutting"} /\ Listening(d) /\ r.target = d
  \/ r.pc = "read_pid" /\ r.cmd # "start" /\ daemon[d] \in Ending
  \/ r.pc = "wait" /\ r.pid = d /\ daemon[d] \in Ending

Knows(r) == \A d \in Daemons : OnFiles(d) => MayBeOnFiles(r, d)

CommandsKnow == \A c \in Clis : Knows(cli[c])

\* What the files hold, by the point the daemon has reached; a start that waits
\* has not recorded its session yet.
FilesFollow(r, d) ==
  /\ daemon[d] \in {"naming", "binding"} => socketFile = None
  /\ Listening(d) => socketFile = d
  /\ daemon[d] \in {"binding", "serving", "busy", "closing", "closed"} => pidFile = d
  /\ Listening(d) /\ r.own = None => current = d

DaemonsFollow == \A c \in Clis, d \in Daemons : FilesFollow(cli[c], d)

IInv ==
  /\ TypeOK
  /\ CliShape
  /\ CommandsKnow
  /\ DaemonsFollow
  /\ OneOnTheFiles

-----------------------------------------------------------------------------
CliRecords ==
  [cmd : Commands \cup {"none"}, pc : Pcs, target : Daemons \cup {None},
   pid : Daemons \cup {None}, own : Daemons \cup {None}, outcome : Outcomes]

\* The part of TypeOK about the rest.
RestTyped ==
  /\ daemon \in [Daemons -> Phases]
  /\ {socketFile, pidFile, current} \subseteq Daemons \cup {None}
  /\ deaths \in 0..MaxDeaths /\ crashes \in 0..MaxCrashes

\* What the invariant says of the record of a command.
RecordOK(r) ==
  /\ r \in CliRecords /\ ShapeOf(r)
  /\ r.pc = "kill" => r.pid # None
  /\ r.pc \in {"pong", "shutting"} => r.target # None

\* The invariant when there is one command.
AtOne(r) ==
  /\ RecordOK(r) /\ Knows(r)
  /\ \A d \in Daemons : FilesFollow(r, d)
  /\ OneOnTheFiles

LEMMA FromOne ==
  ASSUME IInv, NEW c, Clis = {c}
  PROVE  /\ RestTyped /\ AtOne(cli[c])
         /\ cli \in [Clis -> CliRecords] /\ c \in Clis
<1>1. cli \in [Clis -> CliRecords] /\ RestTyped /\ c \in Clis
  BY DEF IInv, TypeOK, CliRecords, RestTyped
<1>2. RecordOK(cli[c])
  BY <1>1 DEF IInv, TypeOK, CliShape, RecordOK, At, ShapeOf
<1> QED BY <1>1, <1>2 DEF IInv, AtOne, CommandsKnow, DaemonsFollow

LEMMA ToOne ==
  ASSUME NEW c, Clis = {c}, NEW r, cli' = [cli EXCEPT ![c] = r], cli \in [Clis -> CliRecords],
         RestTyped', RecordOK(r), Knows(r)', \A d \in Daemons : FilesFollow(r, d)',
         OneOnTheFiles'
  PROVE  IInv'
<1>1. cli' \in [Clis -> CliRecords] /\ cli'[c] = r
  BY DEF RecordOK
<1>2. TypeOK'
  BY <1>1 DEF TypeOK, RestTyped, RecordOK, CliRecords, ShapeOf, At
<1>3. CliShape'
  BY <1>1 DEF CliShape, RecordOK, ShapeOf
<1>4. CommandsKnow'
  BY <1>1 DEF CommandsKnow, Knows, MayBeOnFiles
<1>5. DaemonsFollow'
  BY <1>1 DEF DaemonsFollow, FilesFollow
<1> QED BY <1>2, <1>3, <1>4, <1>5 DEF IInv

\* Phases.
LEMMA PhaseFacts ==
  ASSUME NEW d \in Daemons, NoneAssumption
  PROVE  /\ Listening(d) <=> daemon[d] \in {"serving", "busy"}
         /\ Listening(d) => OnFiles(d)
BY DEF Listening, OnFiles, Growing, Ending

-----------------------------------------------------------------------------
(* Steps of daemons. *)

\* A daemon moves on, and has a right to the files where it goes.
LEMMA Moves ==
  ASSUME IInv, NEW c, Clis = {c}, NEW d \in Daemons, NEW to \in Phases,
         daemon' = [daemon EXCEPT ![d] = to], cli' = cli,
         {socketFile', pidFile', current'} \subseteq Daemons \cup {None},
         deaths' = deaths, crashes' \in 0..MaxCrashes,
         to \in Growing \cup Ending => OnFiles(d) /\ MayBeOnFiles(cli[c], d)',
         \A e \in Daemons : FilesFollow(cli[c], e)'
  PROVE  IInv'
<1>1. /\ RestTyped /\ AtOne(cli[c]) /\ cli \in [Clis -> CliRecords] /\ c \in Clis
  BY FromOne
<1>0. PICK r : r = cli[c]
  OBVIOUS
<1>2. cli' = [cli EXCEPT ![c] = r]
  BY <1>0, <1>1
<1>3. RestTyped'
  BY <1>1 DEF RestTyped
<1>4. /\ daemon'[d] = to /\ \A e \in Daemons \ {d} : daemon'[e] = daemon[e]
  BY <1>1 DEF RestTyped
<1>5. cli'[c] = r
  BY <1>0
<1>6. Knows(r)'
  <2> SUFFICES ASSUME NEW e \in Daemons, OnFiles(e)'
               PROVE  MayBeOnFiles(r, e)'
    BY DEF Knows
  <2>1. CASE e = d
    BY <1>0, <1>4, <1>5, <2>1 DEF OnFiles, MayBeOnFiles
  <2>2. CASE e # d
    <3>1. daemon'[e] = daemon[e]
      BY <1>4, <2>2
    <3>2. OnFiles(e)
      BY <3>1 DEF OnFiles
    <3>3. MayBeOnFiles(cli[c], e)
      BY <1>1, <3>2 DEF AtOne, Knows
    <3> QED BY <1>0, <3>1, <3>3 DEF MayBeOnFiles, Listening
  <2> QED BY <2>1, <2>2
<1>7. OneOnTheFiles'
  <2>1. \A e \in Daemons : daemon'[e] \in Growing \cup Ending => daemon[e] \in Growing \cup Ending
    BY <1>4 DEF OnFiles
  <2> QED BY <1>1, <2>1 DEF AtOne, OneOnTheFiles, Growing, Ending
<1>8. \A e \in Daemons : FilesFollow(r, e)'
  BY <1>5 DEF FilesFollow
<1>9. RecordOK(r)
  BY <1>0, <1>1 DEF AtOne
<1> QED BY <1>1, <1>2, <1>3, <1>6, <1>7, <1>8, <1>9, ToOne

\* A daemon on the files is alone there.
LEMMA Alone ==
  ASSUME IInv, NEW c, Clis = {c}, NEW d \in Daemons, OnFiles(d)
  PROVE  \A e \in Daemons \ {d} : ~OnFiles(e)
<1>1. AtOne(cli[c])
  BY FromOne
<1> QED BY <1>1 DEF AtOne, OneOnTheFiles, OnFiles, Growing, Ending

\* A phase that is not on the files, or one further in the same part of the
\* life of a daemon.
LEMMA StaysKnown ==
  ASSUME IInv, NEW c, Clis = {c}, NEW d \in Daemons, OnFiles(d), cli' = cli,
         \/ daemon[d] \in Growing /\ daemon'[d] \in Growing /\ ~Listening(d)
         \/ Listening(d) /\ Listening(d)'
         \/ daemon[d] \in Ending /\ daemon'[d] \in Ending
  PROVE  MayBeOnFiles(cli[c], d)'
<1>1. MayBeOnFiles(cli[c], d)
  BY FromOne DEF AtOne, Knows
<1>2. d # None
  BY NoneAssumption
<1> QED BY <1>1, <1>2 DEF MayBeOnFiles, Listening, Growing, Ending

LEMMA OwnFiles ==
  ASSUME IInv, NEW c, Clis = {c}, NEW d \in Daemons, NEW to \in Phases,
         daemon' = [daemon EXCEPT ![d] = to], cli' = cli,
         OnFiles(d), FilesFollow(cli[c], d)'
  PROVE  \A e \in Daemons : FilesFollow(cli[c], e)'
<1>1. \A e \in Daemons \ {d} : daemon'[e] = daemon[e] /\ daemon'[e] \notin Growing \cup Ending
  BY Alone, FromOne DEF RestTyped, OnFiles
<1> QED BY <1>1 DEF FilesFollow, Growing, Ending, Listening

LEMMA SameFiles ==
  ASSUME IInv, NEW c, Clis = {c}, NEW d \in Daemons, NEW to \in Phases,
         daemon' = [daemon EXCEPT ![d] = to], cli' = cli, UNCHANGED files,
         \/ to \notin Growing \cup Ending
         \/ to = "starting"
         \/ Listening(d) /\ Listening(d)'
  PROVE  \A e \in Daemons : FilesFollow(cli[c], e)'
<1>1. \A e \in Daemons \ {d} : daemon'[e] = daemon[e]
  OBVIOUS
<1>2. daemon'[d] = to /\ \A e \in Daemons : FilesFollow(cli[c], e)
  BY FromOne DEF RestTyped, AtOne
<1> QED BY <1>1, <1>2 DEF FilesFollow, Growing, Ending, Listening, files

LEMMA DaemonStepKeeps ==
  ASSUME IInv, NEW c, Clis = {c}, NEW d \in Daemons, DaemonStep(d)
  PROVE  IInv'
<1>1. /\ RestTyped /\ FilesFollow(cli[c], d)
      /\ OnFiles(d) => MayBeOnFiles(cli[c], d)
      /\ c \in Clis /\ d # None
  BY FromOne, NoneAssumption DEF AtOne, Knows
<1>2. CASE RemoveOldSocket(d)
  <2>1. /\ daemon[d] = "starting" /\ daemon' = [daemon EXCEPT ![d] = "naming"]
        /\ cli' = cli /\ socketFile' = None /\ UNCHANGED <<pidFile, current, deaths, crashes>>
    BY <1>2 DEF RemoveOldSocket, Move, faults, files
  <2>2. OnFiles(d) /\ daemon'[d] = "naming"
    BY <1>1, <2>1 DEF OnFiles, Growing, Ending, RestTyped
  <2>3. FilesFollow(cli[c], d)'
    BY <1>1, <2>1, <2>2 DEF FilesFollow, Listening
  <2>4. MayBeOnFiles(cli[c], d)'
    BY <1>1, <2>1, <2>2, StaysKnown DEF Growing, Ending, Listening
  <2> QED BY <1>1, <2>1, <2>2, <2>3, <2>4, OwnFiles, Moves DEF Phases, RestTyped
<1>3. CASE WritePid(d)
  <2>1. /\ daemon[d] = "naming" /\ daemon' = [daemon EXCEPT ![d] = "binding"]
        /\ cli' = cli /\ pidFile' = d /\ UNCHANGED <<socketFile, current, deaths, crashes>>
    BY <1>3 DEF WritePid, Move, faults, files
  <2>2. OnFiles(d) /\ daemon'[d] = "binding"
    BY <1>1, <2>1 DEF OnFiles, Growing, Ending, RestTyped
  <2>3. FilesFollow(cli[c], d)'
    BY <1>1, <2>1, <2>2 DEF FilesFollow, Listening
  <2>4. MayBeOnFiles(cli[c], d)'
    BY <1>1, <2>1, <2>2, StaysKnown DEF Growing, Ending, Listening
  <2> QED BY <1>1, <2>1, <2>2, <2>3, <2>4, OwnFiles, Moves DEF Phases, RestTyped
<1>4. CASE Bind(d)
  <2>1. /\ daemon[d] = "binding" /\ daemon' = [daemon EXCEPT ![d] = "serving"]
        /\ cli' = cli /\ socketFile' = d /\ UNCHANGED <<pidFile, current, deaths, crashes>>
    BY <1>4 DEF Bind, Move, faults
  <2>2. OnFiles(d) /\ daemon'[d] = "serving"
    BY <1>1, <2>1 DEF OnFiles, Growing, RestTyped
  <2>3. MayBeOnFiles(cli[c], d)'
    BY <1>1, <2>1, <2>2, StaysKnown DEF Growing, Listening
  <2>4. cli[c].own = d
    BY <1>1, <2>1, <2>2 DEF MayBeOnFiles, Growing, Ending, Listening
  <2>5. FilesFollow(cli[c], d)'
    BY <1>1, <2>1, <2>2, <2>4 DEF FilesFollow, Listening
  <2> QED BY <1>1, <2>1, <2>2, <2>3, <2>5, OwnFiles, Moves DEF Phases, RestTyped
<1>5. ~BindFails(d)
  BY <1>1 DEF BindFails, Move, FilesFollow
<1>6. CASE RemoveSocket(d)
  <2>1. /\ daemon[d] = "closing" /\ daemon' = [daemon EXCEPT ![d] = "closed"]
        /\ cli' = cli /\ socketFile' = None /\ UNCHANGED <<pidFile, current, deaths, crashes>>
    BY <1>6 DEF RemoveSocket, Move, faults, files
  <2>2. OnFiles(d) /\ daemon'[d] = "closed"
    BY <1>1, <2>1 DEF OnFiles, Growing, Ending, RestTyped
  <2>3. FilesFollow(cli[c], d)'
    BY <1>1, <2>1, <2>2 DEF FilesFollow, Listening
  <2>4. MayBeOnFiles(cli[c], d)'
    BY <1>1, <2>1, <2>2, StaysKnown DEF Growing, Ending, Listening
  <2> QED BY <1>1, <2>1, <2>2, <2>3, <2>4, OwnFiles, Moves DEF Phases, RestTyped
<1>7. CASE RemovePid(d)
  <2>1. /\ daemon[d] = "closed" /\ daemon' = [daemon EXCEPT ![d] = "quitting"]
        /\ cli' = cli /\ pidFile' = None /\ UNCHANGED <<socketFile, current, deaths, crashes>>
    BY <1>7 DEF RemovePid, Move, faults
  <2>2. OnFiles(d) /\ daemon'[d] = "quitting"
    BY <1>1, <2>1 DEF OnFiles, Ending, RestTyped
  <2>3. FilesFollow(cli[c], d)'
    BY <2>1, <2>2 DEF FilesFollow, Listening
  <2>4. "quitting" \in Phases /\ "quitting" \notin Growing \cup Ending
    BY DEF Phases, Growing, Ending
  <2> QED BY <1>1, <2>1, <2>2, <2>3, <2>4, OwnFiles, Moves DEF RestTyped
<1> QED BY <1>2, <1>3, <1>4, <1>5, <1>6, <1>7 DEF DaemonStep

\* The driver, the tools of other clients, and crashes.
LEMMA OtherStepKeeps ==
  ASSUME IInv, NEW c, Clis = {c}, NEW d \in Daemons,
         DriverStep(d) \/ ToolStarts(d) \/ Crash(d)
  PROVE  IInv'
<1>1. /\ RestTyped /\ c \in Clis /\ d # None
      /\ OnFiles(d) => MayBeOnFiles(cli[c], d)
  BY FromOne, NoneAssumption DEF AtOne, Knows
<1>2. \A to \in Phases : /\ daemon' = [daemon EXCEPT ![d] = to] => daemon'[d] = to
  BY <1>1 DEF RestTyped
<1>3. CASE \E to \in {"quitting", "dead"} :
             /\ daemon' = [daemon EXCEPT ![d] = to] /\ UNCHANGED <<files, cli, deaths>>
             /\ crashes' \in 0..MaxCrashes
  <2>1. PICK to \in {"quitting", "dead"} :
             /\ daemon' = [daemon EXCEPT ![d] = to] /\ UNCHANGED <<files, cli, deaths>>
             /\ crashes' \in 0..MaxCrashes
    BY <1>3
  <2>2. to \in Phases /\ to \notin Growing \cup Ending
    BY DEF Phases, Growing, Ending
  <2>3. \A e \in Daemons : FilesFollow(cli[c], e)'
    BY <2>1, <2>2, SameFiles
  <2> QED BY <1>1, <2>1, <2>2, <2>3, Moves DEF RestTyped, files
<1>4. CASE /\ daemon[d] = "creating" /\ daemon' = [daemon EXCEPT ![d] = "starting"]
           /\ UNCHANGED <<files, cli, faults>>
  <2>1. "starting" \in Phases /\ OnFiles(d) /\ daemon'[d] = "starting" /\ cli' = cli
    BY <1>1, <1>4 DEF Phases, OnFiles, Growing, RestTyped
  <2>2. MayBeOnFiles(cli[c], d)'
    BY <1>4, <2>1, StaysKnown DEF Growing, Listening
  <2>3. \A e \in Daemons : FilesFollow(cli[c], e)'
    BY <1>4, <2>1, SameFiles
  <2> QED BY <1>1, <1>4, <2>1, <2>2, <2>3, Moves DEF RestTyped, files, faults
<1>5. CASE \E from, to \in {"serving", "busy"} :
             /\ daemon[d] = from /\ daemon' = [daemon EXCEPT ![d] = to]
             /\ UNCHANGED <<files, cli, faults>>
  <2>1. PICK from, to \in {"serving", "busy"} :
             /\ daemon[d] = from /\ daemon' = [daemon EXCEPT ![d] = to]
             /\ UNCHANGED <<files, cli, faults>>
    BY <1>5
  <2>2. /\ to \in Phases /\ OnFiles(d) /\ daemon'[d] = to /\ cli' = cli
        /\ Listening(d) /\ Listening(d)'
    BY <1>1, <2>1 DEF Phases, OnFiles, Growing, RestTyped, Listening
  <2>3. MayBeOnFiles(cli[c], d)'
    BY <2>2, StaysKnown
  <2>4. \A e \in Daemons : FilesFollow(cli[c], e)'
    BY <2>1, <2>2, SameFiles
  <2> QED BY <1>1, <2>1, <2>2, <2>3, <2>4, Moves DEF RestTyped, files, faults
<1>6. CASE DriverStep(d)
  <2>1. crashes \in 0..MaxCrashes
    BY <1>1 DEF RestTyped
  <2> QED BY <1>3, <1>4, <1>5, <1>6, <2>1 DEF DriverStep, CreateDriver, ToolReturns, QuitDriver,
                                             Move, faults
<1>7. CASE ToolStarts(d)
  BY <1>5, <1>7 DEF ToolStarts, Move
<1>8. CASE Crash(d)
  <2>1. crashes' \in 0..MaxCrashes
    BY <1>1, <1>8, FaultsAssumption DEF Crash, RestTyped
  <2> QED BY <1>3, <1>8, <2>1 DEF Crash
<1> QED BY <1>6, <1>7, <1>8

-----------------------------------------------------------------------------
(* Steps of the command. *)

Nobody == \A d \in Daemons : ~OnFiles(d)

\* A step that touches neither daemons nor files.
LEMMA JustMoves ==
  ASSUME IInv, NEW c, Clis = {c}, NEW r, cli' = [cli EXCEPT ![c] = r], RecordOK(r),
         UNCHANGED <<daemon, files, faults>>,
         Knows(r), (r.own = None /\ cli[c].own # None) => Nobody
  PROVE  IInv'
<1>1. /\ RestTyped /\ AtOne(cli[c]) /\ cli \in [Clis -> CliRecords]
      /\ UNCHANGED <<daemon, socketFile, pidFile, current, deaths, crashes>>
  BY FromOne DEF files, faults
<1>2. RestTyped'
  BY <1>1 DEF RestTyped
<1>3. Knows(r)' /\ OneOnTheFiles'
  BY <1>1 DEF Knows, OnFiles, MayBeOnFiles, Listening, AtOne, OneOnTheFiles
<1>4. \A d \in Daemons : FilesFollow(r, d)
  BY <1>1, PhaseFacts, NoneAssumption DEF AtOne, FilesFollow, Nobody
<1>5. \A d \in Daemons : FilesFollow(r, d)'
  BY <1>1, <1>4 DEF FilesFollow, Listening
<1> QED BY <1>1, <1>2, <1>3, <1>5, ToOne

\* A step after which no daemon is on the files.
LEMMA NobodyMoves ==
  ASSUME IInv, NEW c, Clis = {c}, NEW r, cli' = [cli EXCEPT ![c] = r], RecordOK(r),
         RestTyped', Nobody'
  PROVE  IInv'
<1>1. cli \in [Clis -> CliRecords]
  BY FromOne
<1>2. Knows(r)'
  BY DEF Nobody, Knows
<1>3. OneOnTheFiles'
  BY DEF Nobody, OneOnTheFiles, OnFiles, Growing, Ending
<1>4. \A d \in Daemons : FilesFollow(r, d)'
  BY DEF Nobody, FilesFollow, OnFiles, Growing, Ending, Listening
<1> QED BY <1>1, <1>2, <1>3, <1>4, ToOne

\* The records of a command that goes to another place, or ends.
Goes(c, r, pc) ==
  /\ cli' = [cli EXCEPT ![c] = r] /\ r \in CliRecords
  /\ r.pc = pc /\ r.cmd = cli[c].cmd /\ r.outcome = cli[c].outcome
  /\ r.target = cli[c].target /\ r.pid = cli[c].pid /\ r.own = cli[c].own

LEMMA GoRecord ==
  ASSUME IInv, NEW c, Clis = {c}, NEW pc \in Pcs, Go(c, pc)
  PROVE  \E r \in CliRecords : Goes(c, r, pc)
<1>1. cli[c] \in CliRecords
  BY FromOne
<1> DEFINE r == [cli[c] EXCEPT !.pc = pc]
<1>2. /\ r \in CliRecords /\ r.pc = pc /\ r.cmd = cli[c].cmd /\ r.outcome = cli[c].outcome
      /\ r.target = cli[c].target /\ r.pid = cli[c].pid /\ r.own = cli[c].own
  BY <1>1 DEF CliRecords
<1>3. cli' = [cli EXCEPT ![c] = r]
  BY DEF Go
<1> QED BY <1>2, <1>3 DEF Goes

LEMMA FinishRecord ==
  ASSUME IInv, NEW c, Clis = {c}, NEW outcome \in Outcomes, Finish(c, outcome)
  PROVE  /\ cli' = [cli EXCEPT ![c] = Idle(outcome)] /\ RecordOK(Idle(outcome))
         /\ Idle(outcome).pc = "idle" /\ Idle(outcome).own = None
BY DEF Finish, Idle, RecordOK, CliRecords, ShapeOf, Pcs

\* A command that is neither idle nor a start is a stop.
LEMMA Kinds ==
  ASSUME IInv, NEW c, Clis = {c}
  PROVE  /\ cli[c] \in CliRecords /\ RecordOK(cli[c]) /\ Knows(cli[c]) /\ c \in Clis
         /\ cli[c].pc # "idle" => (cli[c].cmd = "start" <=> ~Stopping(c))
         /\ cli[c].pc # "idle" /\ ~Stopping(c) => (FirstCheck(c) <=> cli[c].own = None)
         /\ Stopping(c) => ~FirstCheck(c) /\ cli[c].own = None /\ cli[c].pc # "idle"
BY FromOne, CommandsAssumption DEF AtOne, RecordOK, ShapeOf, CliRecords, Stopping, FirstCheck

\* Where a command has to be for no daemon to be on the files.
LEMMA QuietPlaces ==
  ASSUME IInv, NEW c, Clis = {c},
         \/ cli[c].pc \in {"unlink_socket", "kill", "unlink_pid", "spawn", "clear"}
         \/ cli[c].pc = "read_pid" /\ ~Stopping(c)
         \/ cli[c].pc = "wait" /\ ~Alive(cli[c].pid)
         \/ /\ cli[c].pc \in {"idle", "ping", "pong", "shutdown", "shutting"} /\ cli[c].own = None
            /\ \A d \in Daemons : ~Listening(d)
         \/ cli[c].own # None /\ ~Alive(cli[c].own)
  PROVE  Nobody
<1> SUFFICES ASSUME NEW d \in Daemons, OnFiles(d) PROVE FALSE
  BY DEF Nobody
<1>1. MayBeOnFiles(cli[c], d) /\ ShapeOf(cli[c])
  BY Kinds DEF Knows, RecordOK
<1>2. Alive(d) /\ d # None
  BY NoneAssumption DEF Alive, OnFiles, Growing, Ending
<1>3. CASE cli[c].pc \in {"unlink_socket", "kill", "unlink_pid", "spawn", "clear"}
  BY <1>1, <1>2, <1>3 DEF MayBeOnFiles, ShapeOf
<1>4. CASE cli[c].pc = "read_pid" /\ ~Stopping(c)
  <2>1. cli[c].cmd = "start"
    BY <1>4, Kinds
  <2> QED BY <1>1, <1>2, <1>4, <2>1 DEF MayBeOnFiles, ShapeOf
<1>5. CASE cli[c].pc = "wait" /\ ~Alive(cli[c].pid)
  BY <1>1, <1>2, <1>5 DEF MayBeOnFiles, ShapeOf
<1>6. CASE /\ cli[c].pc \in {"idle", "ping", "pong", "shutdown", "shutting"} /\ cli[c].own = None
           /\ \A e \in Daemons : ~Listening(e)
  BY <1>1, <1>2, <1>6 DEF MayBeOnFiles
<1>7. CASE cli[c].own # None /\ ~Alive(cli[c].own)
  BY <1>1, <1>2, <1>7 DEF MayBeOnFiles, ShapeOf
<1> QED BY <1>3, <1>4, <1>5, <1>6, <1>7

\* A command that ends when no daemon is on the files.
LEMMA FinishesQuietly ==
  ASSUME IInv, NEW c, Clis = {c}, NEW outcome \in Outcomes, Finish(c, outcome), Nobody,
         UNCHANGED <<daemon, files, faults>>
  PROVE  IInv'
<1>1. Knows(Idle(outcome))
  BY DEF Knows, Nobody
<1> QED BY <1>1, FinishRecord, JustMoves

LEMMA GoesQuietly ==
  ASSUME IInv, NEW c, Clis = {c}, NEW pc \in Pcs, Go(c, pc), Nobody,
         UNCHANGED <<daemon, files, faults>>,
         \A r \in CliRecords : Goes(c, r, pc) => RecordOK(r)
  PROVE  IInv'
<1>1. PICK r \in CliRecords : Goes(c, r, pc)
  BY GoRecord
<1>2. Knows(r)
  BY DEF Knows, Nobody
<1>3. RecordOK(r) /\ cli' = [cli EXCEPT ![c] = r]
  BY <1>1 DEF Goes
<1> QED BY <1>2, <1>3, JustMoves

\* No daemon answers: what is on the files can only be a start's own daemon.
LEMMA NotRunningKeeps ==
  ASSUME IInv, NEW c, Clis = {c}, cli[c].pc \in {"ping", "pong"}, NotRunning(c),
         UNCHANGED <<daemon, files, faults>>,
         cli[c].own = None => \A d \in Daemons : ~Listening(d)
  PROVE  IInv'
<1>1. CASE cli[c].own = None
  <2>1. Nobody
    BY <1>1, QuietPlaces
  <2>2. CASE FirstCheck(c)
    <3>1. Go(c, "unlink_socket") /\ "unlink_socket" \in Pcs
      BY <2>2 DEF NotRunning, Pcs
    <3>2. ASSUME NEW r \in CliRecords, Goes(c, r, "unlink_socket")
          PROVE  RecordOK(r)
      BY <1>1, <3>2, Kinds DEF Goes, RecordOK, ShapeOf
    <3> QED BY <2>1, <3>1, <3>2, GoesQuietly
  <2>3. CASE Stopping(c)
    <3>1. Finish(c, "not_running")
      BY <2>3, Kinds DEF NotRunning
    <3> QED BY <2>1, <3>1, FinishesQuietly DEF Outcomes
  <2> QED BY <1>1, <2>2, <2>3, Kinds
<1>2. CASE cli[c].own # None
  <2>1. Go(c, "sleep") /\ "sleep" \in Pcs
    BY <1>2, Kinds DEF NotRunning, Pcs, FirstCheck
  <2>2. PICK r \in CliRecords : Goes(c, r, "sleep")
    BY <2>1, GoRecord
  <2>3. RecordOK(r) /\ r.own = cli[c].own /\ cli' = [cli EXCEPT ![c] = r]
    BY <1>2, <2>2, Kinds DEF Goes, RecordOK, ShapeOf
  <2>4. Knows(r)
    <3>1. Knows(cli[c]) /\ ShapeOf(cli[c])
      BY Kinds DEF RecordOK
    <3> QED BY <1>2, <2>3, <3>1 DEF Knows, MayBeOnFiles, ShapeOf
  <2> QED BY <1>2, <2>3, <2>4, JustMoves
<1> QED BY <1>1, <1>2

\* The daemon that the command talks to answers.
LEMMA IsRunningKeeps ==
  ASSUME IInv, NEW c, Clis = {c}, cli[c].pc = "pong", daemon[cli[c].target] = "serving",
         IsRunning(c), UNCHANGED <<daemon, socketFile, pidFile, faults>>
  PROVE  IInv'
<1>1. /\ cli[c].target \in Daemons /\ OnFiles(cli[c].target) /\ Listening(cli[c].target)
      /\ Knows(cli[c]) /\ ShapeOf(cli[c])
  BY Kinds, NoneAssumption DEF RecordOK, CliRecords, OnFiles, Growing, Listening
<1>2. CASE FirstCheck(c)
  <2>1. Finish(c, "already_running") /\ UNCHANGED files
    BY <1>2 DEF IsRunning, files
  <2>2. "already_running" \in Outcomes /\ cli[c].own = None
    BY <1>2 DEF Outcomes, FirstCheck
  <2>3. Knows(Idle("already_running"))
    BY <1>1, <2>2, NoneAssumption DEF Knows, MayBeOnFiles, Idle
  <2> QED BY <2>1, <2>2, <2>3, FinishRecord, JustMoves
<1>3. CASE Stopping(c)
  <2>1. Go(c, "shutdown") /\ UNCHANGED files /\ "shutdown" \in Pcs
    BY <1>3, Kinds DEF IsRunning, files, Pcs
  <2>2. PICK r \in CliRecords : Goes(c, r, "shutdown")
    BY <2>1, GoRecord
  <2>3. RecordOK(r) /\ r.own = cli[c].own /\ cli' = [cli EXCEPT ![c] = r] /\ r.own = None
    BY <1>3, <2>2, Kinds DEF Goes, RecordOK, ShapeOf, Stopping
  <2>4. Knows(r)
    BY <1>1, <2>2, <2>3, NoneAssumption DEF Knows, MayBeOnFiles, Goes
  <2> QED BY <2>1, <2>3, <2>4, JustMoves
<1>4. CASE ~FirstCheck(c) /\ ~Stopping(c)
  <2>1. Finish(c, "started") /\ current' = cli[c].own /\ "started" \in Outcomes
    BY <1>4 DEF IsRunning, Outcomes
  <2>2. cli[c].own # None
    BY <1>4, Kinds
  <2>3. cli[c].own = cli[c].target
    BY <1>1, <2>2 DEF Knows, MayBeOnFiles
  <2>4. \A d \in Daemons : OnFiles(d) => d = cli[c].own
    BY <1>1, <2>2 DEF Knows, MayBeOnFiles, ShapeOf
  <2> DEFINE r == Idle("started")
  <2>5. cli' = [cli EXCEPT ![c] = r] /\ RecordOK(r) /\ r.pc = "idle" /\ r.own = None
    BY <2>1, FinishRecord
  <2> HIDE DEF r
  <2>6. RestTyped /\ cli \in [Clis -> CliRecords] /\ AtOne(cli[c])
    BY FromOne
  <2>7. RestTyped'
    BY <1>1, <2>1, <2>3, <2>6 DEF RestTyped, faults
  <2>8. OneOnTheFiles'
    BY <2>6 DEF AtOne, OneOnTheFiles
  <2>9. Knows(r)'
    BY <1>1, <2>3, <2>4, <2>5 DEF Knows, MayBeOnFiles, OnFiles, Listening
  <2>10. \A d \in Daemons : FilesFollow(r, d)'
    BY <2>1, <2>4, <2>6, PhaseFacts, NoneAssumption DEF AtOne, FilesFollow, Listening
  <2> QED BY <2>5, <2>6, <2>7, <2>8, <2>9, <2>10, ToOne
<1> QED BY <1>2, <1>3, <1>4

LEMMA BeginKeeps ==
  ASSUME IInv, NEW c, Clis = {c}, NEW cmd \in Commands, Begin(c, cmd)
  PROVE  IInv'
<1> DEFINE r == [Idle("none") EXCEPT !.cmd = cmd, !.pc = "ping"]
<1>1. /\ RecordOK(r) /\ r.pc = "ping" /\ r.own = None
  BY CommandsAssumption DEF Idle, RecordOK, CliRecords, ShapeOf, Pcs, Outcomes
<1>2. cli' = [cli EXCEPT ![c] = r] /\ UNCHANGED <<daemon, files, faults>> /\ cli[c].pc = "idle"
  BY DEF Begin, At
<1>3. cli[c].own = None /\ Knows(cli[c])
  BY <1>2, Kinds DEF RecordOK, ShapeOf
<1> HIDE DEF r
<1>4. Knows(r)
  BY <1>1, <1>2, <1>3, NoneAssumption DEF Knows, MayBeOnFiles
<1> QED BY <1>1, <1>2, <1>3, <1>4, JustMoves

\* When a command connects, the daemon that listens is the one on the files.
LEMMA PingKeeps ==
  ASSUME IInv, NEW c, Clis = {c}, Ping(c)
  PROVE  IInv'
<1>1. cli[c].pc = "ping" /\ UNCHANGED <<daemon, socketFile, pidFile, faults>>
  BY DEF Ping, At
<1>2. /\ RestTyped /\ AtOne(cli[c]) /\ cli[c] \in CliRecords /\ ShapeOf(cli[c])
      /\ Knows(cli[c]) /\ RecordOK(cli[c])
  BY FromOne, Kinds DEF RecordOK
<1>3. CASE Listening(socketFile)
  <2> DEFINE r == [[cli[c] EXCEPT !.pc = "pong"] EXCEPT !.target = socketFile]
  <2>1. /\ r \in CliRecords /\ r.pc = "pong" /\ r.cmd = cli[c].cmd /\ r.own = cli[c].own
        /\ r.target = socketFile /\ socketFile \in Daemons /\ r.outcome = cli[c].outcome
    BY <1>2, <1>3 DEF CliRecords, Pcs, RestTyped, Listening
  <2>2. cli' = [cli EXCEPT ![c] = r] /\ UNCHANGED files
    BY <1>1, <1>3 DEF Ping, files
  <2> HIDE DEF r
  <2>3. RecordOK(r)
    BY <1>1, <1>2, <2>1, NoneAssumption DEF RecordOK, ShapeOf
  <2>4. Knows(r)
    BY <1>1, <1>2, <2>1, NoneAssumption DEF Knows, MayBeOnFiles, AtOne, FilesFollow
  <2> QED BY <1>1, <2>1, <2>2, <2>3, <2>4, JustMoves
<1>4. CASE ~Listening(socketFile)
  <2>1. \A d \in Daemons : ~Listening(d)
    BY <1>2, <1>4 DEF AtOne, FilesFollow
  <2>2. NotRunning(c) /\ UNCHANGED files
    BY <1>1, <1>4 DEF Ping, NotRunning, files
  <2> QED BY <1>1, <2>1, <2>2, NotRunningKeeps
<1> QED BY <1>3, <1>4

LEMMA PongKeeps ==
  ASSUME IInv, NEW c, Clis = {c}, Pong(c)
  PROVE  IInv'
<1>1. cli[c].pc = "pong" /\ UNCHANGED <<daemon, socketFile, pidFile, faults>>
  BY DEF Pong, At
<1>2. CASE daemon[cli[c].target] = "serving" /\ IsRunning(c)
  BY <1>1, <1>2, IsRunningKeeps
<1>3. CASE ~Listening(cli[c].target) /\ NotRunning(c)
  <2>1. cli[c].own = None => \A d \in Daemons : ~Listening(d)
    BY <1>1, <1>3, Kinds, PhaseFacts, NoneAssumption DEF Knows, MayBeOnFiles
  <2>2. UNCHANGED files
    BY <1>1, <1>3 DEF NotRunning, files
  <2> QED BY <1>1, <1>3, <2>1, <2>2, NotRunningKeeps
<1> QED BY <1>2, <1>3 DEF Pong

\* The request to shut down finds no daemon.
LEMMA ShutdownFailsKeeps ==
  ASSUME IInv, NEW c, Clis = {c}, cli[c].pc \in {"shutdown", "shutting"}, ShutdownFails(c),
         \A d \in Daemons : ~Listening(d), UNCHANGED <<daemon, files, faults>>
  PROVE  IInv'
<1>1. cli[c].own = None /\ cli[c].cmd \in {"stop", "server_stop"} /\ RecordOK(cli[c])
  BY Kinds DEF RecordOK, ShapeOf
<1>2. Nobody
  BY <1>1, QuietPlaces
<1>3. CASE cli[c].cmd = "stop"
  <2>1. Finish(c, "failed") /\ "failed" \in Outcomes
    BY <1>3 DEF ShutdownFails, Outcomes
  <2> QED BY <1>2, <2>1, FinishesQuietly
<1>4. CASE cli[c].cmd # "stop"
  <2>1. Go(c, "read_pid") /\ "read_pid" \in Pcs
    BY <1>4 DEF ShutdownFails, Pcs
  <2>2. ASSUME NEW r \in CliRecords, Goes(c, r, "read_pid") PROVE RecordOK(r)
    BY <1>1, <2>2 DEF Goes, RecordOK, ShapeOf
  <2> QED BY <1>2, <2>1, <2>2, GoesQuietly
<1> QED BY <1>3, <1>4

LEMMA ShutdownKeeps ==
  ASSUME IInv, NEW c, Clis = {c}, Shutdown(c)
  PROVE  IInv'
<1>1. cli[c].pc = "shutdown" /\ UNCHANGED <<daemon, files, faults>>
  BY DEF Shutdown, At
<1>2. /\ RestTyped /\ AtOne(cli[c]) /\ cli[c] \in CliRecords /\ ShapeOf(cli[c])
      /\ Knows(cli[c]) /\ RecordOK(cli[c])
  BY FromOne, Kinds DEF RecordOK
<1>3. CASE Listening(socketFile)
  <2> DEFINE r == [[cli[c] EXCEPT !.pc = "shutting"] EXCEPT !.target = socketFile]
  <2>1. /\ r \in CliRecords /\ r.pc = "shutting" /\ r.cmd = cli[c].cmd /\ r.own = cli[c].own
        /\ r.target = socketFile /\ socketFile \in Daemons /\ r.outcome = cli[c].outcome
    BY <1>2, <1>3 DEF CliRecords, Pcs, RestTyped, Listening
  <2>2. cli' = [cli EXCEPT ![c] = r]
    BY <1>1, <1>3 DEF Shutdown
  <2> HIDE DEF r
  <2>3. RecordOK(r)
    BY <1>1, <1>2, <2>1, NoneAssumption DEF RecordOK, ShapeOf
  <2>4. Knows(r)
    BY <1>1, <1>2, <2>1, NoneAssumption DEF Knows, MayBeOnFiles, AtOne, FilesFollow
  <2> QED BY <1>1, <2>1, <2>2, <2>3, <2>4, JustMoves
<1>4. CASE ~Listening(socketFile)
  <2>1. \A d \in Daemons : ~Listening(d)
    BY <1>2, <1>4 DEF AtOne, FilesFollow
  <2>2. ShutdownFails(c)
    BY <1>4 DEF Shutdown
  <2> QED BY <1>1, <2>1, <2>2, ShutdownFailsKeeps
<1> QED BY <1>3, <1>4

LEMMA ShutdownAnsweredKeeps ==
  ASSUME IInv, NEW c, Clis = {c}, ShutdownAnswered(c)
  PROVE  IInv'
<1>1. cli[c].pc = "shutting" /\ UNCHANGED <<files, faults>>
  BY DEF ShutdownAnswered, At
<1>2. /\ RestTyped /\ AtOne(cli[c]) /\ cli[c] \in CliRecords /\ ShapeOf(cli[c])
      /\ Knows(cli[c]) /\ RecordOK(cli[c]) /\ cli \in [Clis -> CliRecords]
  BY FromOne, Kinds DEF RecordOK
<1>3. CASE Move(cli[c].target, "serving", "closing") /\ Go(c, "read_pid")
  <2>1. PICK t \in Daemons : t = cli[c].target /\ t # None
    BY <1>1, <1>2, NoneAssumption DEF RecordOK, CliRecords
  <2>2. /\ daemon[t] = "serving" /\ daemon' = [daemon EXCEPT ![t] = "closing"]
        /\ daemon'[t] = "closing" /\ \A e \in Daemons \ {t} : daemon'[e] = daemon[e]
    BY <1>2, <1>3, <2>1 DEF Move, RestTyped
  <2>3. PICK r \in CliRecords : Goes(c, r, "read_pid")
    BY <1>3, GoRecord DEF Pcs
  <2>4. /\ cli' = [cli EXCEPT ![c] = r] /\ RecordOK(r) /\ r.pc = "read_pid" /\ r.own = None
        /\ r.cmd # "start"
    BY <1>1, <1>2, <2>3 DEF Goes, RecordOK, ShapeOf
  <2>5. \A e \in Daemons \ {t} : ~OnFiles(e)
    BY <2>2, Alone DEF OnFiles, Growing
  <2>6. RestTyped'
    BY <1>1, <1>2, <2>2 DEF RestTyped, Phases, files, faults
  <2>7. OneOnTheFiles'
    BY <2>2, <2>5 DEF OneOnTheFiles, OnFiles, Growing, Ending
  <2>8. Knows(r)'
    BY <2>2, <2>4, <2>5 DEF Knows, MayBeOnFiles, OnFiles, Ending
  <2>9. pidFile = t
    BY <1>2, <2>2 DEF AtOne, FilesFollow
  <2>10. \A e \in Daemons : FilesFollow(r, e)'
    BY <1>1, <2>2, <2>5, <2>9 DEF FilesFollow, OnFiles, Growing, Ending, Listening, files
  <2> QED BY <1>2, <2>4, <2>6, <2>7, <2>8, <2>10, ToOne
<1>4. CASE ~Listening(cli[c].target) /\ ShutdownFails(c) /\ UNCHANGED daemon
  <2>1. \A d \in Daemons : ~Listening(d)
    BY <1>1, <1>2, <1>4, PhaseFacts, NoneAssumption DEF Knows, MayBeOnFiles, ShapeOf
  <2> QED BY <1>1, <1>4, <2>1, ShutdownFailsKeeps
<1> QED BY <1>3, <1>4 DEF ShutdownAnswered

LEMMA ReadPidKeeps ==
  ASSUME IInv, NEW c, Clis = {c}, ReadPid(c)
  PROVE  IInv'
<1>1. cli[c].pc = "read_pid" /\ UNCHANGED <<daemon, files, faults>>
  BY DEF ReadPid, At
<1>2. /\ RestTyped /\ AtOne(cli[c]) /\ cli[c] \in CliRecords /\ ShapeOf(cli[c])
      /\ Knows(cli[c]) /\ RecordOK(cli[c])
  BY FromOne, Kinds DEF RecordOK
<1> DEFINE pc == IF Stopping(c) THEN "wait" ELSE IF pidFile = None THEN "spawn" ELSE "kill"
           r == [[cli[c] EXCEPT !.pid = pidFile] EXCEPT !.pc = pc]
<1>3. pc \in Pcs
  BY DEF Pcs
<1>4. cli' = [cli EXCEPT ![c] = r]
  BY DEF ReadPid
<1>5. pidFile \in Daemons \cup {None}
  BY <1>2 DEF RestTyped
<1>6. /\ r \in CliRecords /\ r.pc = pc /\ r.cmd = cli[c].cmd /\ r.own = cli[c].own
      /\ r.pid = pidFile /\ r.outcome = cli[c].outcome
  <2> HIDE DEF pc
  <2> QED BY <1>2, <1>3, <1>5 DEF CliRecords
<1>7. /\ Stopping(c) => pc = "wait"
      /\ ~Stopping(c) => pc \in {"spawn", "kill"} /\ (pc = "kill" => pidFile # None)
  OBVIOUS
<1> HIDE DEF r, pc
<1>8. RecordOK(r) /\ r.own = None /\ cli[c].own = None
  BY <1>1, <1>2, <1>6, <1>7, Kinds DEF RecordOK, ShapeOf, Stopping
<1>9. CASE Stopping(c)
  <2>1. \A d \in Daemons : OnFiles(d) => daemon[d] \in Ending
    BY <1>1, <1>2, <1>8, NoneAssumption DEF Knows, MayBeOnFiles
  <2>2. \A d \in Daemons : daemon[d] \in Ending => pidFile = d
    BY <1>2 DEF AtOne, FilesFollow, Ending
  <2>3. Knows(r)
    BY <1>6, <1>7, <1>9, <2>1, <2>2 DEF Knows, MayBeOnFiles
  <2> QED BY <1>1, <1>4, <1>8, <2>3, JustMoves
<1>10. CASE ~Stopping(c)
  <2>1. Nobody
    BY <1>1, <1>10, QuietPlaces
  <2>2. Knows(r)
    BY <2>1 DEF Knows, Nobody
  <2> QED BY <1>1, <1>4, <1>8, <2>2, JustMoves
<1> QED BY <1>9, <1>10

\* Steps after which nobody is on the files: a daemon that is killed, a file
\* that is removed.
LEMMA ClearsKeeps ==
  ASSUME IInv, NEW c, Clis = {c}, NEW pc \in Pcs, Go(c, pc), Nobody',
         daemon' \in [Daemons -> Phases], UNCHANGED faults,
         {socketFile', pidFile', current'} \subseteq Daemons \cup {None},
         \A r \in CliRecords : Goes(c, r, pc) => RecordOK(r)
  PROVE  IInv'
<1>1. PICK r \in CliRecords : Goes(c, r, pc)
  BY GoRecord
<1>2. RestTyped'
  BY FromOne DEF RestTyped, faults
<1>3. RecordOK(r) /\ cli' = [cli EXCEPT ![c] = r]
  BY <1>1 DEF Goes
<1> QED BY <1>2, <1>3, NobodyMoves

LEMMA KilledIsOff ==
  ASSUME IInv, NEW c, Clis = {c}, NEW p \in Daemons, daemon' = [daemon EXCEPT ![p] = "dead"],
         \A d \in Daemons \ {p} : ~OnFiles(d)
  PROVE  Nobody' /\ daemon' \in [Daemons -> Phases]
<1>1. daemon \in [Daemons -> Phases]
  BY FromOne DEF RestTyped
<1> QED BY <1>1 DEF Nobody, OnFiles, Growing, Ending, Phases

LEMMA KillKeeps ==
  ASSUME IInv, NEW c, Clis = {c}, Kill(c)
  PROVE  IInv'
<1>1. /\ cli[c].pc = "kill" /\ UNCHANGED <<files, faults>> /\ RestTyped
      /\ cli[c].pid \in Daemons /\ RecordOK(cli[c])
  BY FromOne, Kinds DEF Kill, At, RecordOK, CliRecords
<1>2. Nobody
  BY <1>1, QuietPlaces
<1>3. Nobody' /\ daemon' \in [Daemons -> Phases]
  BY <1>1, <1>2, KilledIsOff DEF Kill, Nobody
<1>4. Go(c, "unlink_pid") /\ "unlink_pid" \in Pcs
  BY DEF Kill, Pcs
<1>5. ASSUME NEW r \in CliRecords, Goes(c, r, "unlink_pid") PROVE RecordOK(r)
  BY <1>1, <1>5 DEF Goes, RecordOK, ShapeOf
<1> QED BY <1>1, <1>3, <1>4, <1>5, ClearsKeeps DEF RestTyped, files

LEMMA WaitForEndKeeps ==
  ASSUME IInv, NEW c, Clis = {c}, WaitForEnd(c)
  PROVE  IInv'
<1>1. cli[c].pc = "wait" /\ UNCHANGED <<daemon, files, faults>> /\ RecordOK(cli[c])
  BY Kinds DEF WaitForEnd, At
<1>2. Nobody
  BY <1>1, QuietPlaces DEF WaitForEnd
<1>3. Go(c, "unlink_socket") /\ "unlink_socket" \in Pcs
  BY DEF WaitForEnd, Pcs
<1>4. ASSUME NEW r \in CliRecords, Goes(c, r, "unlink_socket") PROVE RecordOK(r)
  BY <1>1, <1>4 DEF Goes, RecordOK, ShapeOf
<1> QED BY <1>1, <1>2, <1>3, <1>4, GoesQuietly

LEMMA WaitTimesOutKeeps ==
  ASSUME IInv, NEW c, Clis = {c}, WaitTimesOut(c)
  PROVE  IInv'
<1>1. /\ cli[c].pc = "wait" /\ UNCHANGED <<files, faults>> /\ RestTyped
      /\ cli[c].pid \in Daemons /\ RecordOK(cli[c]) /\ Knows(cli[c])
  BY FromOne, Kinds DEF WaitTimesOut, At, RecordOK, CliRecords, Alive
<1>2. \A d \in Daemons \ {cli[c].pid} : ~OnFiles(d)
  BY <1>1, NoneAssumption DEF Knows, MayBeOnFiles, RecordOK, ShapeOf
<1>3. Nobody' /\ daemon' \in [Daemons -> Phases]
  BY <1>1, <1>2, KilledIsOff DEF WaitTimesOut
<1>4. Go(c, "unlink_socket") /\ "unlink_socket" \in Pcs
  BY DEF WaitTimesOut, Pcs
<1>5. ASSUME NEW r \in CliRecords, Goes(c, r, "unlink_socket") PROVE RecordOK(r)
  BY <1>1, <1>5 DEF Goes, RecordOK, ShapeOf
<1> QED BY <1>1, <1>3, <1>4, <1>5, ClearsKeeps DEF RestTyped, files

LEMMA UnlinkKeeps ==
  ASSUME IInv, NEW c, Clis = {c}, UnlinkSocket(c) \/ UnlinkPid(c)
  PROVE  IInv'
<1>1. /\ cli[c].pc \in {"unlink_socket", "unlink_pid"} /\ UNCHANGED <<daemon, current, faults>>
      /\ RestTyped /\ RecordOK(cli[c])
      /\ socketFile' \in {socketFile, None} /\ pidFile' \in {pidFile, None}
  BY FromOne, Kinds DEF UnlinkSocket, UnlinkPid, At
<1>2. Nobody' /\ daemon' \in [Daemons -> Phases]
  BY <1>1, QuietPlaces DEF Nobody, OnFiles, RestTyped
<1>3. PICK pc \in Pcs : /\ Go(c, pc) /\ pc \in {"unlink_pid", "read_pid", "clear", "spawn"}
                        /\ pc = "clear" => Stopping(c)
                        /\ pc = "spawn" => ~Stopping(c)
  <2>1. {"unlink_pid", "read_pid", "clear", "spawn"} \subseteq Pcs
    BY DEF Pcs
  <2>2. CASE UnlinkSocket(c)
    BY <2>1, <2>2 DEF UnlinkSocket
  <2>3. CASE UnlinkPid(c)
    BY <2>1, <2>3 DEF UnlinkPid
  <2> QED BY <2>2, <2>3
<1>4. ASSUME NEW r \in CliRecords, Goes(c, r, pc) PROVE RecordOK(r)
  <2>1. /\ cli[c].own = None
        /\ Stopping(c) <=> cli[c].cmd # "start"
    BY <1>1, Kinds DEF RecordOK, ShapeOf
  <2>2. cli[c].cmd \in {"start", "stop", "server_stop"}
    BY <1>1, CommandsAssumption DEF RecordOK, ShapeOf, CliRecords
  <2> QED BY <1>1, <1>3, <1>4, <2>1, <2>2 DEF Goes, RecordOK, ShapeOf
<1>5. {socketFile', pidFile', current'} \subseteq Daemons \cup {None}
  BY <1>1 DEF RestTyped
<1> QED BY <1>1, <1>2, <1>3, <1>4, <1>5, ClearsKeeps

LEMMA ClearSessionKeeps ==
  ASSUME IInv, NEW c, Clis = {c}, ClearSession(c)
  PROVE  IInv'
<1>1. /\ cli[c].pc = "clear" /\ UNCHANGED <<daemon, socketFile, pidFile, faults>> /\ RestTyped
      /\ current' = None /\ Finish(c, "stopped") /\ "stopped" \in Outcomes
  BY FromOne DEF ClearSession, At, Outcomes
<1>2. Nobody'
  BY <1>1, QuietPlaces DEF Nobody, OnFiles
<1>3. RestTyped'
  BY <1>1 DEF RestTyped, faults
<1> QED BY <1>1, <1>2, <1>3, FinishRecord, NobodyMoves

\* A start spawns its daemon when nobody is on the files.
LEMMA SpawnKeeps ==
  ASSUME IInv, NEW c, Clis = {c}, NEW d \in Daemons, Spawn(c, d)
  PROVE  IInv'
<1>1. /\ cli[c].pc = "spawn" /\ UNCHANGED <<files, faults>>
      /\ daemon' = [daemon EXCEPT ![d] = "creating"]
  BY DEF Spawn, Move, At
<1>2. /\ RestTyped /\ cli[c] \in CliRecords /\ RecordOK(cli[c]) /\ cli \in [Clis -> CliRecords]
      /\ cli[c].cmd = "start" /\ d # None
  BY <1>1, FromOne, Kinds, NoneAssumption DEF RecordOK, ShapeOf
<1>0. PICK r : r = [[cli[c] EXCEPT !.own = d] EXCEPT !.pc = "poll"]
  OBVIOUS
<1>3. cli' = [cli EXCEPT ![c] = r]
  BY <1>0 DEF Spawn
<1>4. /\ r \in CliRecords /\ r.pc = "poll" /\ r.cmd = "start" /\ r.own = d
      /\ r.outcome = cli[c].outcome
  BY <1>0, <1>2 DEF CliRecords, Pcs
<1>5. RecordOK(r)
  BY <1>2, <1>4 DEF RecordOK, ShapeOf
<1>6. /\ daemon'[d] = "creating" /\ \A e \in Daemons \ {d} : daemon'[e] = daemon[e]
      /\ daemon' \in [Daemons -> Phases]
  BY <1>1, <1>2 DEF RestTyped, Phases
<1>7. \A e \in Daemons \ {d} : daemon'[e] \notin Growing \cup Ending
  BY <1>1, <1>6, QuietPlaces DEF Nobody, OnFiles
<1>8. RestTyped'
  BY <1>1, <1>2, <1>6 DEF RestTyped, files, faults
<1>9. Knows(r)' /\ OneOnTheFiles'
  BY <1>4, <1>6, <1>7 DEF Knows, MayBeOnFiles, OnFiles, OneOnTheFiles, Growing, Ending
<1>10. \A e \in Daemons : FilesFollow(r, e)'
  BY <1>6, <1>7 DEF FilesFollow, Growing, Ending, Listening
<1> QED BY <1>2, <1>3, <1>5, <1>8, <1>9, <1>10, ToOne

LEMMA SpawnFailsKeeps ==
  ASSUME IInv, NEW c, Clis = {c}, SpawnFails(c)
  PROVE  IInv'
<1>1. cli[c].pc = "spawn" /\ UNCHANGED <<daemon, files, faults>> /\ Finish(c, "failed")
  BY DEF SpawnFails, At
<1> QED BY <1>1, QuietPlaces, FinishesQuietly DEF Outcomes

\* A start that waits for its daemon goes to another place.
LEMMA WaitsKeeps ==
  ASSUME IInv, NEW c, Clis = {c}, NEW pc \in {"ping", "poll"}, Go(c, pc),
         cli[c].pc \in {"poll", "sleep"}, UNCHANGED <<daemon, files, faults>>
  PROVE  IInv'
<1>1. RecordOK(cli[c]) /\ Knows(cli[c]) /\ cli[c].own # None
  BY Kinds DEF RecordOK, ShapeOf
<1>2. PICK r \in CliRecords : Goes(c, r, pc)
  BY GoRecord DEF Pcs
<1>3. RecordOK(r) /\ cli' = [cli EXCEPT ![c] = r] /\ r.own = cli[c].own
  BY <1>1, <1>2 DEF Goes, RecordOK, ShapeOf
<1>4. Knows(r)
  BY <1>1, <1>3 DEF Knows, MayBeOnFiles
<1> QED BY <1>1, <1>3, <1>4, JustMoves

LEMMA PollKeeps ==
  ASSUME IInv, NEW c, Clis = {c}, Poll(c)
  PROVE  IInv'
<1>1. cli[c].pc = "poll" /\ UNCHANGED <<daemon, files, faults>> /\ cli[c].own # None
  BY Kinds DEF Poll, At, RecordOK, ShapeOf
<1>2. CASE Alive(cli[c].own)
  BY <1>1, <1>2, WaitsKeeps DEF Poll
<1>3. CASE ~Alive(cli[c].own)
  <2>1. Finish(c, "failed") /\ Nobody
    BY <1>1, <1>3, QuietPlaces DEF Poll
  <2> QED BY <1>1, <2>1, FinishesQuietly DEF Outcomes
<1> QED BY <1>2, <1>3

LEMMA SleepKeeps ==
  ASSUME IInv, NEW c, Clis = {c}, Sleep(c)
  PROVE  IInv'
BY WaitsKeeps DEF Sleep, At

LEMMA StartTimesOutKeeps ==
  ASSUME IInv, NEW c, Clis = {c}, StartTimesOut(c)
  PROVE  IInv'
<1>1. /\ cli[c].pc = "sleep" /\ UNCHANGED <<files, faults>> /\ RestTyped
      /\ cli[c].own \in Daemons /\ cli[c].own # None /\ RecordOK(cli[c]) /\ Knows(cli[c])
      /\ Finish(c, "failed") /\ "failed" \in Outcomes
  BY FromOne, Kinds DEF StartTimesOut, At, RecordOK, ShapeOf, CliRecords, Outcomes
<1>2. \A d \in Daemons \ {cli[c].own} : ~OnFiles(d)
  BY <1>1 DEF Knows, MayBeOnFiles
<1>3. Nobody' /\ daemon' \in [Daemons -> Phases]
  BY <1>1, <1>2, KilledIsOff DEF StartTimesOut
<1>4. RestTyped'
  BY <1>1, <1>3 DEF RestTyped, files, faults
<1> QED BY <1>1, <1>3, <1>4, FinishRecord, NobodyMoves

-----------------------------------------------------------------------------
(* The invariant and what follows from it. *)

LEMMA InvariantInit == Init => IInv
<1> SUFFICES ASSUME Init PROVE IInv
  OBVIOUS
<1>1. \A c \in Clis : cli[c] = Idle("none")
  BY DEF Init
<1>2. /\ Idle("none") \in CliRecords /\ Idle("none").pc = "idle" /\ Idle("none").own = None
      /\ ShapeOf(Idle("none"))
  BY DEF Idle, CliRecords, ShapeOf, Pcs, Outcomes
<1>3. \A d \in Daemons : daemon[d] = "unborn" /\ ~OnFiles(d) /\ ~Listening(d)
  BY DEF Init, OnFiles, Growing, Ending, Listening
<1>4. cli \in [Clis -> CliRecords] /\ daemon \in [Daemons -> Phases]
  BY <1>2 DEF Init, Phases
<1>5. TypeOK
  BY <1>1, <1>2, <1>4, FaultsAssumption DEF Init, TypeOK, CliRecords, At
<1>6. CommandsKnow /\ OneOnTheFiles
  BY <1>3 DEF CommandsKnow, Knows, OneOnTheFiles
<1>7. DaemonsFollow
  BY <1>3 DEF DaemonsFollow, FilesFollow
<1> QED BY <1>1, <1>2, <1>5, <1>6, <1>7 DEF IInv, CliShape

LEMMA CommandKeeps ==
  ASSUME OneCommand, IInv, NEW c, Clis = {c},
         \/ CliProgress(c) \/ StartTimesOut(c) \/ Die(c)
         \/ \E cmd \in Commands : Begin(c, cmd)
  PROVE  IInv'
<1>1. ~Die(c)
  BY FromOne DEF OneCommand, Die, RestTyped
<1>2. CASE \E cmd \in Commands : Begin(c, cmd)
  BY <1>2, BeginKeeps
<1>3. CASE Ping(c) \/ Pong(c) \/ Shutdown(c) \/ ShutdownAnswered(c)
  BY <1>3, PingKeeps, PongKeeps, ShutdownKeeps, ShutdownAnsweredKeeps
<1>4. CASE ReadPid(c) \/ Kill(c) \/ WaitForEnd(c) \/ WaitTimesOut(c)
  BY <1>4, ReadPidKeeps, KillKeeps, WaitForEndKeeps, WaitTimesOutKeeps
<1>5. CASE UnlinkSocket(c) \/ UnlinkPid(c) \/ ClearSession(c)
  BY <1>5, UnlinkKeeps, ClearSessionKeeps
<1>6. CASE SpawnFails(c) \/ \E d \in Daemons : Spawn(c, d)
  BY <1>6, SpawnFailsKeeps, SpawnKeeps
<1>7. CASE Poll(c) \/ Sleep(c) \/ StartTimesOut(c)
  BY <1>7, PollKeeps, SleepKeeps, StartTimesOutKeeps
<1> QED BY <1>1, <1>2, <1>3, <1>4, <1>5, <1>6, <1>7 DEF CliProgress, CliStep

LEMMA InvariantStep ==
  ASSUME OneCommand
  PROVE  IInv /\ [Next]_vars => IInv'
<1> SUFFICES ASSUME IInv, [Next]_vars PROVE IInv'
  OBVIOUS
<1>1. PICK c : Clis = {c}
  BY DEF OneCommand
<1>2. CASE UNCHANGED vars
  BY <1>2 DEF vars, files, faults, IInv, TypeOK, CliShape, ShapeOf, CommandsKnow, Knows,
              MayBeOnFiles, OnFiles, DaemonsFollow, FilesFollow, OneOnTheFiles, Listening, At
<1>3. CASE \E d \in Daemons : DaemonStep(d) \/ DriverStep(d) \/ ToolStarts(d) \/ Crash(d)
  BY <1>1, <1>3, DaemonStepKeeps, OtherStepKeeps
<1>4. CASE \E k \in Clis : \/ CliProgress(k) \/ StartTimesOut(k) \/ Die(k)
                           \/ \E cmd \in Commands : Begin(k, cmd)
  BY <1>1, <1>4, CommandKeeps
<1> QED BY <1>2, <1>3, <1>4 DEF Next

\* The inductive invariant, for any number of daemons and crashes and one command
\* at a time.
THEOREM Invariant == ASSUME OneCommand PROVE Spec => []IInv
<1>1. Init => IInv
  BY InvariantInit
<1>2. IInv /\ [Next]_vars => IInv'
  BY InvariantStep
<1> QED BY <1>1, <1>2, PTL DEF Spec

\* The variables keep their kinds; nothing is killed without a pid.
THEOREM TypeCorrect == ASSUME OneCommand PROVE Spec => []TypeOK
<1>1. IInv => TypeOK
  BY DEF IInv
<1> QED BY <1>1, Invariant, PTL

\* However many daemons come, crash and time out, one at most has a part in the
\* hand-over of the socket and the pid file.
THEOREM OneOnTheFilesHolds == ASSUME OneCommand PROVE Spec => []OneOnTheFiles
<1>1. IInv => OneOnTheFiles
  BY DEF IInv
<1> QED BY <1>1, Invariant, PTL

\* A daemon that takes requests can always be reached and stopped.
THEOREM ServingIsNamedHolds == ASSUME OneCommand PROVE Spec => []ServingIsNamed
<1>1. IInv => ServingIsNamed
  <2> SUFFICES ASSUME IInv, NEW d \in Daemons, Listening(d)
               PROVE  socketFile = d /\ pidFile = d
    BY DEF ServingIsNamed
  <2>1. PICK c : Clis = {c}
    BY DEF OneCommand
  <2>2. AtOne(cli[c])
    BY <2>1, FromOne
  <2> QED BY <2>2, PhaseFacts, NoneAssumption DEF AtOne, FilesFollow
<1> QED BY <1>1, Invariant, PTL

\* Between commands the current-session file names the daemon that takes
\* requests.
THEOREM SessionFileIsCurrentHolds == ASSUME OneCommand PROVE Spec => []SessionFileIsCurrent
<1>1. IInv => SessionFileIsCurrent
  <2> SUFFICES ASSUME IInv, NEW d \in Daemons, Listening(d), \A c \in Clis : At(c, "idle")
               PROVE  current = d
    BY DEF SessionFileIsCurrent
  <2>1. PICK c : Clis = {c}
    BY DEF OneCommand
  <2>2. AtOne(cli[c]) /\ cli[c].own = None
    BY <2>1, FromOne DEF AtOne, RecordOK, ShapeOf, At
  <2> QED BY <2>2 DEF AtOne, FilesFollow
<1> QED BY <1>1, Invariant, PTL

\* Only a command changes the record of a command.
LEMMA DaemonsLeaveCli ==
  ASSUME [Next]_vars, cli' # cli
  PROVE  \E c \in Clis : \/ CliProgress(c) \/ StartTimesOut(c) \/ Die(c)
                         \/ \E cmd \in Commands : Begin(c, cmd)
<1>1. \A d \in Daemons : ~(DaemonStep(d) \/ DriverStep(d) \/ ToolStarts(d) \/ Crash(d))
  BY DEF DaemonStep, RemoveOldSocket, WritePid, Bind, BindFails, RemoveSocket, RemovePid,
         DriverStep, CreateDriver, ToolReturns, QuitDriver, ToolStarts, Crash
<1> QED BY <1>1 DEF Next, vars

\* A start reports success for the daemon it spawned, whatever answers on the
\* socket and however many daemons were there before.
THEOREM StartedIsOwnHolds == ASSUME OneCommand PROVE Spec => StartedIsOwn
<1>1. ASSUME IInv, [Next]_vars, NEW c \in Clis, At(c, "pong"), cli'[c].outcome = "started"
      PROVE  cli[c].target = cli[c].own
  <2>1. Clis = {c}
    BY DEF OneCommand
  <2>2. /\ cli[c] \in CliRecords /\ RecordOK(cli[c]) /\ Knows(cli[c]) /\ cli[c].pc = "pong"
        /\ cli[c].outcome = "none" /\ cli \in [Clis -> CliRecords] /\ RestTyped
    BY <1>1, <2>1, Kinds, FromOne DEF RecordOK, ShapeOf, At
  <2>3. \/ CliProgress(c) \/ StartTimesOut(c) \/ Die(c)
        \/ \E cmd \in Commands : Begin(c, cmd)
    BY <1>1, <2>1, <2>2, DaemonsLeaveCli
  <2>4. Pong(c)
    <3>1. ~Die(c)
      BY <2>2 DEF OneCommand, Die, RestTyped
    <3> QED
      BY <2>2, <2>3, <3>1 DEF Begin, StartTimesOut, CliProgress, CliStep, Ping, Shutdown, ReadPid,
        Kill, WaitForEnd, UnlinkSocket, UnlinkPid, ClearSession, SpawnFails, Poll, Sleep, Spawn,
        ShutdownAnswered, WaitTimesOut, At
  <2>5. /\ ~Finish(c, "already_running") /\ ~Finish(c, "not_running")
        /\ \A pc \in Pcs : ~Go(c, pc)
    BY <1>1, <2>2 DEF Finish, Go, Idle, CliRecords
  <2>6. daemon[cli[c].target] = "serving" /\ ~FirstCheck(c) /\ ~Stopping(c)
    BY <2>4, <2>5 DEF Pong, IsRunning, NotRunning, Pcs
  <2>7. cli[c].own # None
    BY <2>1, <2>2, <2>6, <1>1, Kinds
  <2>8. cli[c].target \in Daemons /\ OnFiles(cli[c].target)
    BY <2>2, <2>6 DEF RecordOK, CliRecords, OnFiles, Growing
  <2> QED BY <2>2, <2>7, <2>8 DEF Knows, MayBeOnFiles
<1>2. IInv /\ [Next]_vars =>
        [\A c \in Clis : At(c, "pong") /\ cli'[c].outcome = "started"
                           => cli[c].target = cli[c].own]_vars
  BY <1>1
<1> QED BY <1>2, Invariant, PTL DEF Spec, StartedIsOwn

\* A daemon that takes requests ends by itself, by a request to shut down, or
\* by the start that spawned it and ran out of time.
THEOREM NoServingDaemonKilledHolds == ASSUME OneCommand PROVE Spec => NoServingDaemonKilled
<1>1. ASSUME IInv, [Next]_vars, NEW d \in Daemons, Listening(d), daemon'[d] = "dead",
             crashes' = crashes
      PROVE  \E c \in Clis : cli[c].own = d
  <2>1. PICK c : Clis = {c}
    BY DEF OneCommand
  <2>2. /\ RestTyped /\ cli[c] \in CliRecords /\ RecordOK(cli[c]) /\ Knows(cli[c])
        /\ daemon[d] \in {"serving", "busy"} /\ OnFiles(d) /\ d # None /\ c \in Clis
    BY <1>1, <2>1, Kinds, FromOne, PhaseFacts, NoneAssumption
  <2>3. MayBeOnFiles(cli[c], d)
    BY <2>2 DEF Knows
  <2>4. \A e \in Daemons : ~(DaemonStep(e) \/ DriverStep(e) \/ ToolStarts(e) \/ Crash(e))
    BY <1>1, <2>2 DEF DaemonStep, RemoveOldSocket, WritePid, Bind, BindFails, RemoveSocket,
         RemovePid, DriverStep, CreateDriver, ToolReturns, QuitDriver, ToolStarts, Crash, Move,
         RestTyped
  <2>5. \/ CliProgress(c) \/ StartTimesOut(c) \/ Die(c)
        \/ \E cmd \in Commands : Begin(c, cmd)
    BY <1>1, <2>1, <2>2, <2>4 DEF Next, vars
  <2>6. \/ Kill(c) /\ cli[c].pid = d
        \/ WaitTimesOut(c) /\ cli[c].pid = d
        \/ StartTimesOut(c) /\ cli[c].own = d
    BY <1>1, <2>2, <2>5 DEF Begin, Die, CliProgress, CliStep, Ping, Pong, Shutdown, ReadPid,
      Kill, WaitForEnd, WaitTimesOut, StartTimesOut, UnlinkSocket, UnlinkPid, ClearSession,
      SpawnFails, Poll, Sleep, Spawn, ShutdownAnswered, Move, RestTyped
  <2> QED BY <2>2, <2>3, <2>6
            DEF Kill, WaitTimesOut, At, MayBeOnFiles, Ending, RecordOK, ShapeOf
<1>2. IInv /\ [Next]_vars =>
        [\A d \in Daemons : Listening(d) /\ daemon'[d] = "dead" =>
           crashes' # crashes \/ \E c \in Clis : cli[c].own = d]_vars
  BY <1>1
<1> QED BY <1>2, Invariant, PTL DEF Spec, NoServingDaemonKilled
=============================================================================
