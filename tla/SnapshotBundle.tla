--------------------------- MODULE SnapshotBundle ---------------------------
(***************************************************************************)
(* The snapshot directory as the processes of one workspace write and read *)
(* it: .appium-cli/snapshots is shared by every daemon and every process   *)
(* that hosts the tools.  A snapshot is registered in memory first, then   *)
(* five files and two latest pointers are written one after the other, and *)
(* only then is its id recorded.  Readers resolve "latest" anew for every  *)
(* file they open.                                                         *)
(*                                                                         *)
(* A snapshot is its number: two snapshots never share an id (ids carry a  *)
(* millisecond timestamp).  Path.write_text truncates, then writes; a file *)
(* in between, or one whose writer died, is "cut".                         *)
(***************************************************************************)
EXTENDS Naturals, Sequences

CONSTANTS
  Procs,         \* processes with a tool state of their own
  Contexts,      \* Appium contexts
  Native,        \* the one whose snapshots are native
  Global,        \* latest.json
  MaxSnapshots   \* bound: snapshots ever taken

ASSUME ConstantsAssumption ==
  /\ Native \in Contexts
  /\ Global \notin Contexts
  /\ MaxSnapshots \in Nat

Ids == 1..MaxSnapshots
Latest == 0
Pointers == {Global} \cup Contexts

VARIABLES
  taken,    \* the context of every snapshot taken; its index is its id
  file,     \* file[i][a]: artifact a of snapshot i on disk
  pointer,  \* the id a latest pointer holds, 0 when absent or cut
  held,     \* per process: the snapshot whose refs are in memory, 0 for none
  named,    \* per process: current_snapshot_id, 0 for None
  task      \* per process: the request it is working on

vars == <<taken, file, pointer, held, named, task>>
memory == <<held, named>>
disk == <<file, pointer>>

Artifacts == {"meta", "compact", "full", "refs", "index"}
FileStates == {"absent", "cut", "whole"}

\* The order of _write_snapshot_bundle.  Mutant: the texts come last.
ArtifactOrderTextsLast == <<"meta", "refs", "index", "full", "compact">>
ArtifactOrder == <<"meta", "compact", "full", "refs", "index">>

\* What the reading tools open, in that order.
SearchOrder == <<"index", "refs", "compact">>
WebRefsOrder == <<"index", "refs", "index">>
TextOrder == <<"compact">>
RefOrder == <<"refs">>

ReadOrder(tool) ==
  CASE tool = "snapshot_search" -> SearchOrder
    [] tool = "web_refs" -> WebRefsOrder
    [] tool = "snapshot_show" -> TextOrder
    [] OTHER -> RefOrder

Readers == {"snapshot_search", "web_refs", "snapshot_show", "show_ref", "locator"}

Idle == [at |-> "idle"]
Takings == [at : {"render", "write"}, id : Ids, step : 1..8, open : BOOLEAN,
            alone : BOOLEAN]
Readings == [at : {"read"}, tool : Readers, asked : 0..MaxSnapshots, got : 0..2]
Tasks == {Idle} \cup Takings \cup Readings

Init ==
  /\ taken = <<>>
  /\ file = [i \in Ids |-> [a \in Artifacts |-> "absent"]]
  /\ pointer = [x \in Pointers |-> 0]
  /\ held = [p \in Procs |-> 0]
  /\ named = [p \in Procs |-> 0]
  /\ task = [p \in Procs |-> Idle]

Free(p) == task[p] = Idle
Taking(p) == task[p].at \in {"render", "write"}

-----------------------------------------------------------------------------
(* Taking a snapshot. *)

\* refresh_snapshot up to _register_snapshot: the refs in memory are replaced
\* before anything is written.  "alone" is history: no other process has been
\* taking a snapshot meanwhile.
TakeSnapshot(p, c) ==
  /\ Free(p)
  /\ Len(taken) < MaxSnapshots
  /\ taken' = Append(taken, c)
  /\ held' = [held EXCEPT ![p] = Len(taken) + 1]
  /\ task' = [q \in Procs |->
       IF q = p
         THEN [at |-> "render", id |-> Len(taken) + 1, step |-> 1, open |-> FALSE,
               alone |-> \A r \in Procs \ {p} : ~Taking(r)]
         ELSE IF Taking(q) THEN [task[q] EXCEPT !.alone = FALSE] ELSE task[q]]
  /\ UNCHANGED <<disk, named>>

\* _render_scope: a --target that is not in the snapshot is a ValueError.
RenderFails(p) ==
  /\ task[p].at = "render"
  /\ task' = [task EXCEPT ![p] = Idle]
  /\ UNCHANGED <<taken, disk, memory>>

\* create_snapshot_bundle_payload: the content is fixed before it is written.
Render(p) ==
  /\ task[p].at = "render"
  /\ task' = [task EXCEPT ![p].at = "write"]
  /\ UNCHANGED <<taken, disk, memory>>

\* Mutant: every scoped pointer is the native one.
PointerOfNative(i, step) == IF step = 6 THEN Global ELSE Native

\* The artifacts, then latest.json, then the context's pointer.
PointerOf(i, step) == IF step = 6 THEN Global ELSE taken[i]

Put(i, step, state) ==
  /\ step < 6
  /\ file' = [file EXCEPT ![i][ArtifactOrder[step]] = state]
  /\ UNCHANGED pointer

\* Mutant: only the global pointer is rewritten.
PutPointerGlobal(i, step, value) ==
  /\ step \in {6, 7}
  /\ pointer' = [pointer EXCEPT ![Global] = value]
  /\ UNCHANGED file

PutPointer(i, step, value) ==
  /\ step \in {6, 7}
  /\ pointer' = [pointer EXCEPT ![PointerOf(i, step)] = value]
  /\ UNCHANGED file

OpenNext(p) ==
  /\ task[p].at = "write" /\ ~task[p].open
  /\ \/ Put(task[p].id, task[p].step, "cut")
     \/ PutPointer(task[p].id, task[p].step, 0)
  /\ task' = [task EXCEPT ![p].open = TRUE]
  /\ UNCHANGED <<taken, memory>>

FillNext(p) ==
  /\ task[p].at = "write" /\ task[p].open
  /\ \/ Put(task[p].id, task[p].step, "whole")
     \/ PutPointer(task[p].id, task[p].step, task[p].id)
  /\ task' = [task EXCEPT ![p].open = FALSE, ![p].step = @ + 1]
  /\ UNCHANGED <<taken, memory>>

\* Mutant: the context is recorded instead of the id.
MarkCurrentContext(p) ==
  /\ task[p].at = "write" /\ task[p].step = 8
  /\ named' = [named EXCEPT ![p] = taken[task[p].id]]
  /\ task' = [task EXCEPT ![p] = Idle]
  /\ UNCHANGED <<taken, disk, held>>

\* current_snapshot_id and mark_current_snapshot, after the last file.
MarkCurrent(p) ==
  /\ task[p].at = "write" /\ task[p].step = 8
  /\ named' = [named EXCEPT ![p] = task[p].id]
  /\ task' = [task EXCEPT ![p] = Idle]
  /\ UNCHANGED <<taken, disk, held>>

\* Mutant: a file that cannot be written is passed over.
WriteFailsUnnoticed(p) ==
  /\ task[p].at = "write" /\ task[p].step < 8
  /\ task' = [task EXCEPT ![p].step = @ + 1, ![p].open = FALSE]
  /\ UNCHANGED <<taken, disk, memory>>

\* A file cannot be opened or written: the error ends the request.
WriteFails(p) ==
  /\ task[p].at = "write" /\ task[p].step < 8
  /\ task' = [task EXCEPT ![p] = Idle]
  /\ UNCHANGED <<taken, disk, memory>>

\* The process dies at any point and another one takes its place.
Restart(p) ==
  /\ task' = [task EXCEPT ![p] = Idle]
  /\ held' = [held EXCEPT ![p] = 0]
  /\ named' = [named EXCEPT ![p] = 0]
  /\ UNCHANGED <<taken, disk>>

-----------------------------------------------------------------------------
(* Reading artifacts.  A request opens its files one by one and looks the  *)
(* pointer up again for each; other processes may write in between.        *)

\* _artifact_path
Resolved(asked) == IF asked = Latest THEN pointer[Global] ELSE asked

BeginRead(p, tool, asked) ==
  /\ Free(p)
  /\ asked \in {Latest} \cup 1..Len(taken)
  /\ task' = [task EXCEPT ![p] = [at |-> "read", tool |-> tool, asked |-> asked,
                                 got |-> 0]]
  /\ UNCHANGED <<taken, disk, memory>>

NextArtifact(t) == ReadOrder(t.tool)[t.got + 1]

Seen(t) ==
  LET i == Resolved(t.asked)
  IN IF i = 0 THEN "absent" ELSE file[i][NextArtifact(t)]

\* _read_artifact: JSON is decoded, a text is taken as it is.
Readable(t) ==
  \/ Seen(t) = "whole"
  \/ NextArtifact(t) = "compact" /\ Seen(t) = "cut"

\* web_refs takes an index it cannot read as empty, and turns native ones away.
Accepted(t) ==
  IF t.tool = "web_refs" /\ NextArtifact(t) = "index"
    THEN ~(Readable(t) /\ t.got = 0 /\ taken[Resolved(t.asked)] = Native)
    ELSE Readable(t)

Last(t) == t.got + 1 = Len(ReadOrder(t.tool))

\* An artifact is accepted; the last one makes the answer.
Read(p) ==
  LET t == task[p]
  IN /\ t.at = "read"
     /\ Accepted(t)
     /\ task' = [task EXCEPT ![p] =
          IF Last(t) THEN Idle ELSE [t EXCEPT !.got = @ + 1]]
     /\ UNCHANGED <<taken, disk, memory>>

\* The request is answered with an error, also when an artifact is fine but
\* does not hold the ref it asks for.
ReadFails(p) ==
  LET t == task[p]
  IN /\ t.at = "read"
     /\ \/ ~Accepted(t)
        \/ t.tool \in {"show_ref", "web_refs"} /\ Last(t)
     /\ t.tool # "locator"
     /\ task' = [task EXCEPT ![p] = Idle]
     /\ UNCHANGED <<taken, disk, memory>>

\* _lookup_ref_item: generate_locator falls back to the refs in memory, or has
\* no answer, when the artifact cannot be read or does not hold the ref.
LocatorFromMemory(p) ==
  /\ task[p].at = "read" /\ task[p].tool = "locator"
  /\ task' = [task EXCEPT ![p] = Idle]
  /\ UNCHANGED <<taken, disk, memory>>

-----------------------------------------------------------------------------
Step(p) ==
  \/ \E c \in Contexts : TakeSnapshot(p, c)
  \/ RenderFails(p)
  \/ Render(p)
  \/ OpenNext(p)
  \/ FillNext(p)
  \/ MarkCurrent(p)
  \/ WriteFails(p)
  \/ Restart(p)
  \/ \E tool \in Readers, asked \in {Latest} \cup Ids : BeginRead(p, tool, asked)
  \/ Read(p)
  \/ ReadFails(p)
  \/ LocatorFromMemory(p)

Next == \E p \in Procs : Step(p)

Spec == Init /\ [][Next]_vars

-----------------------------------------------------------------------------
(* Properties. *)

TypeOK ==
  /\ taken \in Seq(Contexts) /\ Len(taken) <= MaxSnapshots
  /\ file \in [Ids -> [Artifacts -> FileStates]]
  /\ pointer \in [Pointers -> 0..MaxSnapshots]
  /\ held \in [Procs -> 0..MaxSnapshots]
  /\ named \in [Procs -> 0..MaxSnapshots]
  /\ task \in [Procs -> Tasks]
  /\ \A p \in Procs :
       task[p].at = "read" => task[p].got < Len(ReadOrder(task[p].tool))

Whole(i) == \A a \in Artifacts : file[i][a] = "whole"

\* A latest pointer never leads to a bundle that is missing files, whatever
\* died or failed, and a scoped pointer leads to its own context: the pointers
\* are written after the artifacts (_write_snapshot_bundle).
PointersNameWholeBundles ==
  \A x \in Pointers : pointer[x] # 0 =>
    /\ pointer[x] \in 1..Len(taken)
    /\ Whole(pointer[x])
    /\ x \in {Global, taken[pointer[x]]}

\* A search that answers has read complete artifacts, even when it is asked for
\* a snapshot that is being written or whose writer died: it reads the index
\* first, which is written last.  A cut compact text would be taken as it is.
SearchSeesWhole ==
  [][\A p \in Procs :
       (Read(p) /\ task[p].tool = "snapshot_search") => Seen(task[p]) = "whole"]_vars

\* A snapshot that no other process raced is, when it is done, what everybody
\* sees: both pointers name it and so do the refs in memory.  This also repairs
\* whatever an earlier crash or failure left behind.
FinishedIsLatest ==
  [][\A p \in Procs : (MarkCurrent(p) /\ task[p].alone) =>
       LET i == task[p].id
       IN pointer[Global] = i /\ pointer[taken[i]] = i /\ held[p] = i]_vars

\* The bundles readers can see: those whose last file is complete.
Published == {<<i, taken[i]>> : i \in {j \in 1..Len(taken) : Whole(j)}}

\* The directory keeps the promise of BundleStore.
Store == INSTANCE BundleStore WITH published <- Published
StoreSafety == Store!StoreSpec

\* ref_resolver.py:145: the current id is the one "the current in-memory refs
\* came from", the refs a ref qualified with that id is looked up in.
CurrentIdNamesMemory ==
  \A p \in Procs : (~Taking(p) /\ named[p] # 0) => held[p] = named[p]
=============================================================================
