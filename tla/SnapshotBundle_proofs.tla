----------------------- MODULE SnapshotBundle_proofs -----------------------
(***************************************************************************)
(* Proofs about SnapshotBundle for any set of processes, any set of        *)
(* contexts and any number of snapshots, among them that the directory     *)
(* implements BundleStore.                                                 *)
(*                                                                         *)
(* The inductive invariant follows a writer: the artifacts before the one  *)
(* it works on are whole, the index is whole only when all are, no two     *)
(* writers share a snapshot, and one that is alone finds its pointers as   *)
(* it left them.                                                           *)
(***************************************************************************)
EXTENDS SnapshotBundle, TLAPS

\* A snapshot that was not taken yet has no files.
UntakenAbsent ==
  \A i \in Ids : i > Len(taken) => \A a \in Artifacts : file[i][a] = "absent"

\* The index is the last artifact to be whole.
IndexLast == \A i \in Ids : file[i]["index"] = "whole" => Whole(i)

\* What a process that takes a snapshot has behind it.
WriterAt(p) ==
  /\ task[p].id <= Len(taken)
  /\ held[p] = task[p].id
  /\ task[p].at = "render" => task[p].step = 1
  /\ \A k \in 1..5 : k < task[p].step => file[task[p].id][ArtifactOrder[k]] = "whole"
  /\ task[p].step < 6 => file[task[p].id]["index"] # "whole"
  /\ task[p].alone /\ task[p].step > 6 => pointer[Global] = task[p].id
  /\ task[p].alone /\ task[p].step > 7 => pointer[taken[task[p].id]] = task[p].id

WritersAt == \A p \in Procs : Taking(p) => WriterAt(p)

\* Two writers have two snapshots, and neither takes itself for alone.
WritersApart ==
  \A p, q \in Procs : (p # q /\ Taking(p) /\ Taking(q)) =>
    task[p].id # task[q].id /\ ~task[p].alone

\* A search past its first read of a given snapshot found its index whole.
SearchPastIndex ==
  \A p \in Procs :
    (/\ task[p].at = "read" /\ task[p].tool = "snapshot_search"
     /\ task[p].got > 0 /\ task[p].asked # Latest)
      => file[task[p].asked]["index"] = "whole"

IInv ==
  /\ TypeOK
  /\ UntakenAbsent
  /\ IndexLast
  /\ WritersAt
  /\ WritersApart
  /\ PointersNameWholeBundles
  /\ SearchPastIndex

-----------------------------------------------------------------------------
(* The artifacts and their order. *)

\* The order names every artifact once, the index last.
LEMMA OrderOfArtifacts ==
  /\ \A k \in 1..5 : ArtifactOrder[k] \in Artifacts
  /\ \A k \in 1..5 : ArtifactOrder[k] = "index" <=> k = 5
  /\ \A a \in Artifacts : \E k \in 1..5 : ArtifactOrder[k] = a
  /\ \A k, l \in 1..5 : ArtifactOrder[k] = ArtifactOrder[l] => k = l
<1>1. /\ ArtifactOrder[1] = "meta" /\ ArtifactOrder[2] = "compact"
      /\ ArtifactOrder[3] = "full" /\ ArtifactOrder[4] = "refs"
      /\ ArtifactOrder[5] = "index"
  BY DEF ArtifactOrder
<1>2. 1..5 = {1, 2, 3, 4, 5}
  OBVIOUS
<1> QED BY <1>1, <1>2 DEF Artifacts

\* A process that takes a snapshot has a record that says how far it is.
LEMMA TakingRecord ==
  ASSUME TypeOK, NEW p \in Procs, Taking(p)
  PROVE  task[p] \in Takings
BY DEF TypeOK, Taking, Tasks, Takings, Readings, Idle

\* A process that reads has a record that says what.
LEMMA ReadingRecord ==
  ASSUME TypeOK, NEW p \in Procs, task[p].at = "read"
  PROVE  task[p] \in Readings
<1>1. task[p] \in {Idle} \cup Takings \cup Readings
  BY DEF TypeOK, Tasks
<1>2. task[p] # Idle
  BY DEF Idle
<1>3. task[p] \notin Takings
  BY DEF Takings
<1> QED BY <1>1, <1>2, <1>3

\* Writing an artifact changes one file of one snapshot.
LEMMA PutFiles ==
  ASSUME TypeOK, NEW i \in Ids, NEW k \in 1..5, NEW state \in FileStates,
         Put(i, k, state)
  PROVE  /\ file' \in [Ids -> [Artifacts -> FileStates]]
         /\ \A j \in Ids \ {i} : file'[j] = file[j]
         /\ file'[i][ArtifactOrder[k]] = state
         /\ \A l \in (1..5) \ {k} : file'[i][ArtifactOrder[l]] = file[i][ArtifactOrder[l]]
         /\ pointer' = pointer
<1>1. ArtifactOrder[k] \in Artifacts
  BY OrderOfArtifacts
<1>2. file' = [file EXCEPT ![i] = [file[i] EXCEPT ![ArtifactOrder[k]] = state]]
  BY DEF Put
<1>3. file[i] \in [Artifacts -> FileStates] /\ file \in [Ids -> [Artifacts -> FileStates]]
  BY DEF TypeOK
<1>4. [file[i] EXCEPT ![ArtifactOrder[k]] = state] \in [Artifacts -> FileStates]
  BY <1>3
<1>5. file' \in [Ids -> [Artifacts -> FileStates]]
  BY <1>2, <1>3, <1>4
<1>6. \A j \in Ids \ {i} : file'[j] = file[j]
  BY <1>2, <1>3
<1>7. file'[i] = [file[i] EXCEPT ![ArtifactOrder[k]] = state]
  BY <1>2, <1>3
<1>8. \A l \in (1..5) \ {k} :
        ArtifactOrder[l] \in Artifacts /\ ArtifactOrder[l] # ArtifactOrder[k]
  BY OrderOfArtifacts
<1> QED BY <1>1, <1>3, <1>5, <1>6, <1>7, <1>8 DEF Put

\* Writing a pointer changes no other.
LEMMA PutOnePointer ==
  ASSUME TypeOK, NEW i \in 1..Len(taken), NEW step \in {6, 7},
         NEW value \in 0..MaxSnapshots, PutPointer(i, step, value)
  PROVE  /\ PointerOf(i, step) \in Pointers
         /\ pointer' \in [Pointers -> 0..MaxSnapshots]
         /\ pointer'[PointerOf(i, step)] = value
         /\ \A x \in Pointers \ {PointerOf(i, step)} : pointer'[x] = pointer[x]
         /\ file' = file
<1>1. taken[i] \in Contexts
  BY DEF TypeOK
<1> QED BY <1>1 DEF TypeOK, PutPointer, PointerOf, Pointers

-----------------------------------------------------------------------------
(* Steps that write nothing and leave their process without a snapshot. *)

Quiet(p) ==
  /\ UNCHANGED <<taken, file, pointer>>
  /\ task' \in [Procs -> Tasks]
  /\ held' \in [Procs -> 0..MaxSnapshots] /\ named' \in [Procs -> 0..MaxSnapshots]
  /\ \A q \in Procs \ {p} : task'[q] = task[q] /\ held'[q] = held[q]
  /\ task'[p].at \notin {"render", "write"}
  /\ task'[p].at = "read" => task'[p].got < Len(ReadOrder(task'[p].tool))

\* A quiet step keeps the invariant when a search that goes on found its index.
LEMMA QuietStep ==
  ASSUME IInv, NEW p \in Procs, Quiet(p),
         (/\ task'[p].at = "read" /\ task'[p].tool = "snapshot_search"
          /\ task'[p].got > 0 /\ task'[p].asked # Latest)
           => file[task'[p].asked]["index"] = "whole"
  PROVE  IInv'
<1>0. \A q \in Procs :
        task'[q].at = "read" => task'[q].got < Len(ReadOrder(task'[q].tool))
  BY DEF IInv, TypeOK, Quiet
<1>1. TypeOK' /\ UntakenAbsent' /\ IndexLast' /\ PointersNameWholeBundles'
  BY <1>0 DEF IInv, Quiet, TypeOK, UntakenAbsent, IndexLast, PointersNameWholeBundles, Whole
<1>2. WritersAt'
  <2> SUFFICES ASSUME NEW q \in Procs, Taking(q)'
               PROVE  WriterAt(q)'
    BY DEF WritersAt
  <2>1. q # p /\ task'[q] = task[q] /\ held'[q] = held[q]
    BY DEF Quiet, Taking
  <2> QED BY <2>1 DEF IInv, WritersAt, WriterAt, Taking, Quiet
<1>3. WritersApart'
  BY DEF IInv, WritersApart, Taking, Quiet
<1>4. SearchPastIndex'
  BY DEF IInv, SearchPastIndex, Quiet
<1> QED BY <1>1, <1>2, <1>3, <1>4 DEF IInv

\* A request ends without a snapshot in the making.
LEMMA EndsQuietly ==
  ASSUME IInv, NEW p \in Procs, UNCHANGED <<taken, disk>>,
         task' = [task EXCEPT ![p] = Idle],
         held' \in [Procs -> 0..MaxSnapshots], named' \in [Procs -> 0..MaxSnapshots],
         \A q \in Procs \ {p} : held'[q] = held[q]
  PROVE  IInv'
<1>1. task' \in [Procs -> Tasks] /\ task'[p] = Idle
  BY DEF IInv, TypeOK, Tasks
<1>2. \A q \in Procs \ {p} : task'[q] = task[q]
  BY DEF IInv, TypeOK
<1>3. Idle.at = "idle"
  BY DEF Idle
<1>4. Quiet(p)
  BY <1>1, <1>2, <1>3 DEF Quiet, disk
<1> QED BY <1>1, <1>3, <1>4, QuietStep

-----------------------------------------------------------------------------
(* Readers. *)

\* Starting to read keeps the invariant.
LEMMA BeginReadStep ==
  ASSUME IInv, NEW p \in Procs, NEW tool \in Readers,
         NEW asked \in {Latest} \cup Ids, BeginRead(p, tool, asked)
  PROVE  IInv'
<1> DEFINE t == [at |-> "read", tool |-> tool, asked |-> asked, got |-> 0]
<1>1. t \in Readings
  BY ConstantsAssumption DEF Readings, Latest, Ids
<1>2. task' = [task EXCEPT ![p] = t]
  BY DEF BeginRead
<1>3. task' \in [Procs -> Tasks] /\ task'[p] = t
  BY <1>1, <1>2 DEF IInv, TypeOK, Tasks
<1>4. Len(ReadOrder(tool)) > 0
  BY DEF Readers, ReadOrder, SearchOrder, WebRefsOrder, TextOrder, RefOrder
<1>5. Quiet(p)
  BY <1>2, <1>3, <1>4 DEF Quiet, IInv, TypeOK, BeginRead, disk, memory
<1> QED BY <1>3, <1>5, QuietStep

\* Reading an artifact keeps the invariant.
LEMMA ReadStep ==
  ASSUME IInv, NEW p \in Procs, Read(p)
  PROVE  IInv'
<1>0. UNCHANGED <<taken, file, pointer, held, named>> /\ task[p].at = "read"
  BY DEF Read, disk, memory
<1>1. CASE Last(task[p])
  <2>1. task' = [task EXCEPT ![p] = Idle]
    BY <1>1 DEF Read
  <2> QED BY <1>0, <2>1, EndsQuietly DEF disk, IInv, TypeOK
<1>2. CASE ~Last(task[p])
  <2>1. task[p] \in Readings
    BY <1>0, ReadingRecord DEF IInv
  <2> DEFINE n == Len(ReadOrder(task[p].tool))
  <2>2. n \in {1, 3}
    BY <2>1 DEF Readings, Readers, ReadOrder, SearchOrder, WebRefsOrder, TextOrder, RefOrder
  <2>3. task[p].got < n
    BY <1>0 DEF IInv, TypeOK
  <2>4. task[p].got + 1 # n
    BY <1>2 DEF Last
  <2>5. task[p].got \in 0..2
    BY <2>1 DEF Readings
  <2> HIDE DEF n
  <2>6. task[p].got + 1 < n
    BY <2>2, <2>3, <2>4, <2>5
  <2> DEFINE t == [task[p] EXCEPT !.got = @ + 1]
  <2>7. task[p].got + 1 \in 0..2
    BY <2>6, <2>2, <2>5
  <2>8. t \in Readings /\ t.at = "read" /\ t.tool = task[p].tool
        /\ t.got = task[p].got + 1
    BY <2>1, <2>7 DEF Readings
  <2>9. task' = [task EXCEPT ![p] = t]
    BY <1>2 DEF Read
  <2>10. task' \in [Procs -> Tasks] /\ task'[p] = t
    BY <2>8, <2>9 DEF IInv, TypeOK, Tasks
  <2> HIDE DEF t
  <2>11. Quiet(p)
    BY <1>0, <2>6, <2>8, <2>9, <2>10 DEF Quiet, IInv, TypeOK, n
  <2>12. ASSUME t.tool = "snapshot_search", t.asked # Latest
        PROVE  file[t.asked]["index"] = "whole"
    <3>1. t.tool = task[p].tool /\ t.asked = task[p].asked
      BY <2>1 DEF t, Readings
    <3>2. CASE task[p].got > 0
      BY <1>0, <2>12, <3>1, <3>2 DEF IInv, SearchPastIndex
    <3>3. CASE task[p].got = 0
      <4>1. NextArtifact(task[p]) = "index"
        BY <2>12, <3>1, <3>3 DEF NextArtifact, ReadOrder, SearchOrder
      <4>2. Accepted(task[p])
        BY DEF Read
      <4>3. Seen(task[p]) = "whole"
        BY <2>12, <3>1, <4>1, <4>2 DEF Accepted, Readable
      <4> QED BY <2>12, <3>1, <4>1, <4>3 DEF Seen, Resolved
    <3> QED BY <2>1, <3>2, <3>3 DEF Readings
  <2> QED BY <2>10, <2>11, <2>12, QuietStep
<1> QED BY <1>1, <1>2

-----------------------------------------------------------------------------
(* Writers. *)

\* A new snapshot has no files yet, and its writer a number of its own.
LEMMA TakeSnapshotStep ==
  ASSUME IInv, NEW p \in Procs, NEW c \in Contexts, TakeSnapshot(p, c)
  PROVE  IInv'
<1> DEFINE i == Len(taken) + 1
           t == [at |-> "render", id |-> i, step |-> 1, open |-> FALSE,
                 alone |-> \A r \in Procs \ {p} : ~Taking(r)]
<1>1. Len(taken) \in Nat /\ i \in Ids
  BY ConstantsAssumption DEF IInv, TypeOK, TakeSnapshot, Ids
<1>2. taken' \in Seq(Contexts) /\ Len(taken') = i /\ Len(taken') <= MaxSnapshots
  BY <1>1 DEF IInv, TypeOK, TakeSnapshot, Ids
<1>3. \A j \in 1..Len(taken) : taken'[j] = taken[j]
  BY <1>1 DEF IInv, TypeOK, TakeSnapshot
<1>4. UNCHANGED <<file, pointer, named>> /\ held' = [held EXCEPT ![p] = i]
  BY DEF TakeSnapshot, disk
<1>5. t \in Takings
  BY <1>1 DEF Takings
<1>6. task'[p] = t
  BY DEF TakeSnapshot
<1>7. \A q \in Procs \ {p} : Taking(q) => task'[q] = [task[q] EXCEPT !.alone = FALSE]
  BY DEF TakeSnapshot
<1>8. \A q \in Procs \ {p} : ~Taking(q) => task'[q] = task[q]
  BY DEF TakeSnapshot
<1>9. \A q \in Procs \ {p} : Taking(q) =>
        /\ task'[q] \in Takings
        /\ task'[q].at = task[q].at /\ task'[q].id = task[q].id
        /\ task'[q].step = task[q].step /\ task'[q].alone = FALSE
  BY <1>7, TakingRecord DEF IInv, Takings
<1>10. task' \in [Procs -> Tasks]
  <2>1. \A q \in Procs : task'[q] \in Tasks
    BY <1>5, <1>6, <1>8, <1>9 DEF IInv, TypeOK, Tasks
  <2>2. task' = [q \in Procs |-> task'[q]]
    BY DEF TakeSnapshot
  <2> QED BY <2>1, <2>2
<1>11. TypeOK'
  <2>1. held' \in [Procs -> 0..MaxSnapshots]
    BY <1>1, <1>4 DEF IInv, TypeOK, Ids
  <2>2. ASSUME NEW q \in Procs, task'[q].at = "read"
        PROVE  task'[q].got < Len(ReadOrder(task'[q].tool))
    <3>1. q # p /\ ~Taking(q)
      BY <1>6, <1>9, <2>2 DEF Taking
    <3>2. task'[q] = task[q]
      BY <1>8, <3>1
    <3> QED BY <2>2, <3>2 DEF IInv, TypeOK
  <2> QED BY <1>2, <1>4, <1>10, <2>1, <2>2 DEF IInv, TypeOK
<1>12. UntakenAbsent'
  BY <1>1, <1>2, <1>4 DEF IInv, UntakenAbsent, Ids
<1>13. IndexLast'
  BY <1>4 DEF IInv, IndexLast, Whole
<1>14. PointersNameWholeBundles'
  <2> SUFFICES ASSUME NEW x \in Pointers, pointer[x] # 0
               PROVE  /\ pointer[x] \in 1..Len(taken')
                      /\ Whole(pointer[x])
                      /\ x \in {Global, taken'[pointer[x]]}
    BY <1>4 DEF PointersNameWholeBundles, Whole
  <2>1. pointer[x] \in 1..Len(taken) /\ Whole(pointer[x])
        /\ x \in {Global, taken[pointer[x]]}
    BY DEF IInv, PointersNameWholeBundles
  <2> QED BY <1>1, <1>2, <1>3, <2>1
<1>15. SearchPastIndex'
  <2> SUFFICES ASSUME NEW q \in Procs, task'[q].at = "read",
                      task'[q].tool = "snapshot_search", task'[q].got > 0,
                      task'[q].asked # Latest
               PROVE  file[task'[q].asked]["index"] = "whole"
    BY <1>4 DEF SearchPastIndex
  <2>1. q # p /\ ~Taking(q)
    BY <1>6, <1>9 DEF Taking
  <2> QED BY <1>8, <2>1 DEF IInv, SearchPastIndex
<1>16. WritersAt'
  <2> SUFFICES ASSUME NEW q \in Procs, Taking(q)'
               PROVE  WriterAt(q)'
    BY DEF WritersAt
  <2>1. CASE q = p
    <3>1. file[i]["index"] = "absent"
      BY <1>1 DEF IInv, UntakenAbsent, Artifacts
    <3>2. held'[p] = i
      BY <1>4 DEF IInv, TypeOK
    <3> QED BY <1>1, <1>2, <1>4, <1>6, <2>1, <3>1, <3>2 DEF WriterAt
  <2>2. CASE q # p
    <3>1. Taking(q)
      BY <1>8, <2>2 DEF Taking
    <3>2. WriterAt(q) /\ held'[q] = held[q]
      BY <1>4, <2>2, <3>1 DEF IInv, WritersAt, TypeOK
    <3>3. task[q].id \in 1..Len(taken)
      BY <1>1, <3>1, <3>2, TakingRecord DEF IInv, Takings, Ids, WriterAt
    <3>4. task[q].id <= Len(taken')
      BY <1>1, <1>2, <3>3
    <3>5. /\ task'[q].at = task[q].at /\ task'[q].id = task[q].id
          /\ task'[q].step = task[q].step /\ task'[q].alone = FALSE
      BY <1>9, <2>2, <3>1
    <3> QED BY <1>4, <3>2, <3>4, <3>5 DEF WriterAt
  <2> QED BY <2>1, <2>2
<1>17. WritersApart'
  <2> SUFFICES ASSUME NEW q \in Procs, NEW r \in Procs, q # r,
                      Taking(q)', Taking(r)'
               PROVE  task'[q].id # task'[r].id /\ ~task'[q].alone
    BY DEF WritersApart
  <2>1. \A u \in {q, r} \ {p} : Taking(u)
    BY <1>8 DEF Taking
  <2>2. \A u \in {q, r} \ {p} : task'[u].id <= Len(taken) /\ task'[u].id \in Nat
    BY <1>9, <2>1, TakingRecord DEF IInv, WritersAt, WriterAt, Takings, Ids
  <2>3. CASE q = p
    BY <1>1, <1>6, <2>1, <2>2, <2>3
  <2>4. CASE r = p
    BY <1>1, <1>6, <1>9, <2>1, <2>2, <2>4
  <2>5. CASE q # p /\ r # p
    BY <1>9, <2>1, <2>5 DEF IInv, WritersApart
  <2> QED BY <2>3, <2>4, <2>5
<1> QED BY <1>11, <1>12, <1>13, <1>14, <1>15, <1>16, <1>17 DEF IInv

\* Rendering moves only the writer on.
LEMMA RenderStep ==
  ASSUME IInv, NEW p \in Procs, Render(p)
  PROVE  IInv'
<1> DEFINE t == [task[p] EXCEPT !.at = "write"]
<1>1. Taking(p) /\ task[p] \in Takings
  BY TakingRecord DEF Render, Taking, IInv
<1>2. t \in Takings /\ t.id = task[p].id /\ t.step = task[p].step
      /\ t.alone = task[p].alone /\ t.at = "write"
  BY <1>1 DEF Takings
<1>3. task' = [task EXCEPT ![p] = t]
  BY DEF Render
<1>4. task' \in [Procs -> Tasks] /\ task'[p] = t
  BY <1>2, <1>3 DEF IInv, TypeOK, Tasks
<1>5. \A q \in Procs \ {p} : task'[q] = task[q]
  BY <1>3 DEF IInv, TypeOK
<1>6. UNCHANGED <<taken, file, pointer, held, named>>
  BY DEF Render, disk, memory
<1> HIDE DEF t
<1>0. \A q \in Procs :
        task'[q].at = "read" => task'[q].got < Len(ReadOrder(task'[q].tool))
  BY <1>2, <1>4, <1>5 DEF IInv, TypeOK
<1>7. TypeOK' /\ UntakenAbsent' /\ IndexLast' /\ PointersNameWholeBundles'
  BY <1>0, <1>4, <1>6
    DEF IInv, TypeOK, UntakenAbsent, IndexLast, PointersNameWholeBundles, Whole
<1>8. \A q \in Procs :
        /\ Taking(q)' <=> Taking(q)
        /\ Taking(q) => /\ task'[q].id = task[q].id /\ task'[q].step = task[q].step
                        /\ task'[q].alone = task[q].alone
                        /\ task'[q].at = "render" => task[q].at = "render"
  BY <1>1, <1>2, <1>4, <1>5 DEF Taking
<1>11. WritersAt'
  <2> SUFFICES ASSUME NEW q \in Procs, Taking(q)'
               PROVE  WriterAt(q)'
    BY DEF WritersAt
  <2>1. WriterAt(q)
    BY <1>8 DEF IInv, WritersAt
  <2> QED BY <1>6, <1>8, <2>1 DEF WriterAt
<1>9. WritersApart'
  <2> SUFFICES ASSUME NEW q \in Procs, NEW r \in Procs, q # r,
                      Taking(q)', Taking(r)'
               PROVE  task'[q].id # task'[r].id /\ ~task'[q].alone
    BY DEF WritersApart
  <2>1. Taking(q) /\ Taking(r)
    BY <1>8
  <2>2. task[q].id # task[r].id /\ ~task[q].alone
    BY <2>1 DEF IInv, WritersApart
  <2> QED BY <1>8, <2>1, <2>2
<1>10. SearchPastIndex'
  BY <1>2, <1>4, <1>5, <1>6 DEF IInv, SearchPastIndex
<1> QED BY <1>7, <1>11, <1>9, <1>10 DEF IInv

\* What is known of a process that writes.
LEMMA WriterKnown ==
  ASSUME IInv, NEW p \in Procs, Taking(p)
  PROVE  /\ task[p] \in Takings /\ WriterAt(p)
         /\ task[p].id \in 1..Len(taken) /\ task[p].id \in Ids
         /\ taken[task[p].id] \in Contexts /\ Global # taken[task[p].id]
         /\ \A q \in Procs \ {p} : Taking(q) => task[q].id # task[p].id /\ ~task[q].alone
<1>1. task[p] \in Takings /\ WriterAt(p)
  BY TakingRecord DEF IInv, WritersAt
<1>2. Len(taken) \in Nat
  BY DEF IInv, TypeOK
<1>3. task[p].id \in 1..Len(taken) /\ task[p].id \in Ids
  BY <1>1, <1>2 DEF Takings, Ids, WriterAt
<1>4. taken[task[p].id] \in Contexts
  BY <1>3 DEF IInv, TypeOK
<1>5. \A q \in Procs \ {p} : Taking(q) => task[q].id # task[p].id /\ ~task[q].alone
  BY DEF IInv, WritersApart
<1> QED BY <1>1, <1>3, <1>4, <1>5, ConstantsAssumption

\* A writer that goes on with the same snapshot leaves the other processes alone.
LEMMA WriterMoves ==
  ASSUME IInv, NEW p \in Procs, Taking(p), NEW t \in Takings,
         t.id = task[p].id, t.alone = task[p].alone,
         task' = [task EXCEPT ![p] = t], UNCHANGED <<taken, held, named>>,
         file' \in [Ids -> [Artifacts -> FileStates]],
         pointer' \in [Pointers -> 0..MaxSnapshots]
  PROVE  /\ TypeOK' /\ WritersApart'
         /\ task'[p] = t /\ \A q \in Procs \ {p} : task'[q] = task[q]
<1>1. task' \in [Procs -> Tasks] /\ task'[p] = t
      /\ \A q \in Procs \ {p} : task'[q] = task[q]
  BY DEF IInv, TypeOK, Tasks
<1>2. t.at # "read"
  BY DEF Takings
<1>3. \A q \in Procs :
        task'[q].at = "read" => task'[q].got < Len(ReadOrder(task'[q].tool))
  BY <1>1, <1>2 DEF IInv, TypeOK
<1>4. TypeOK'
  BY <1>1, <1>3 DEF IInv, TypeOK
<1>5. WritersApart'
  <2> SUFFICES ASSUME NEW q \in Procs, NEW r \in Procs, q # r,
                      Taking(q)', Taking(r)'
               PROVE  task'[q].id # task'[r].id /\ ~task'[q].alone
    BY DEF WritersApart
  <2>1. Taking(q) /\ Taking(r)
    BY <1>1 DEF Taking
  <2>2. task[q].id # task[r].id /\ ~task[q].alone
    BY <2>1 DEF IInv, WritersApart
  <2> QED BY <1>1, <2>2
<1> QED BY <1>1, <1>4, <1>5

\* An artifact is written: files of other snapshots stay, no pointer names this
\* one, and it is whole only after the index.
LEMMA PutStep ==
  ASSUME IInv, NEW p \in Procs, Taking(p), NEW t \in Takings,
         NEW state \in {"cut", "whole"}, task[p].at = "write",
         Put(task[p].id, task[p].step, state),
         t.id = task[p].id, t.alone = task[p].alone, t.at = "write",
         t.step = IF state = "whole" THEN task[p].step + 1 ELSE task[p].step,
         task' = [task EXCEPT ![p] = t], UNCHANGED <<taken, held, named>>
  PROVE  /\ IInv'
         /\ ~Whole(task[p].id)
         /\ Whole(task[p].id)' <=> state = "whole" /\ task[p].step = 5
         /\ \A j \in Ids \ {task[p].id} : Whole(j)' <=> Whole(j)
<1> DEFINE i == task[p].id
           k == task[p].step
<1>1. /\ WriterAt(p) /\ task[p] \in Takings /\ i \in Ids /\ i \in 1..Len(taken)
      /\ \A q \in Procs \ {p} : Taking(q) => task[q].id # i /\ ~task[q].alone
  BY WriterKnown
<1>2. k \in 1..5 /\ state \in FileStates
  BY <1>1 DEF Put, Takings, FileStates
<1>3. /\ file' \in [Ids -> [Artifacts -> FileStates]]
      /\ \A j \in Ids \ {i} : file'[j] = file[j]
      /\ file'[i][ArtifactOrder[k]] = state
      /\ \A l \in (1..5) \ {k} : file'[i][ArtifactOrder[l]] = file[i][ArtifactOrder[l]]
      /\ pointer' = pointer
  BY <1>1, <1>2, PutFiles DEF IInv
<1>4. file[i]["index"] # "whole"
  BY <1>1, <1>2 DEF WriterAt
<1>5. ~Whole(i)
  BY <1>4 DEF Whole, Artifacts
<1>6. TypeOK' /\ WritersApart' /\ task'[p] = t /\ \A q \in Procs \ {p} : task'[q] = task[q]
  BY <1>3, WriterMoves DEF IInv, TypeOK
<1>7. \A j \in Ids \ {i} : Whole(j)' <=> Whole(j)
  BY <1>3 DEF Whole
<1>8. ArtifactOrder[5] = "index"
  BY OrderOfArtifacts
<1>9. \A l \in 1..5 : l < k => file'[i][ArtifactOrder[l]] = "whole"
  BY <1>1, <1>2, <1>3 DEF WriterAt
<1>10. file'[i]["index"] = "whole" <=> state = "whole" /\ k = 5
  BY <1>2, <1>3, <1>4, <1>8
<1>11. Whole(i)' <=> state = "whole" /\ k = 5
  <2>1. ASSUME state = "whole", k = 5
        PROVE  Whole(i)'
    <3>1. \A l \in 1..5 : file'[i][ArtifactOrder[l]] = "whole"
      BY <1>3, <1>9, <2>1
    <3> QED BY <3>1, OrderOfArtifacts DEF Whole
  <2>2. Whole(i)' => file'[i]["index"] = "whole"
    BY DEF Whole, Artifacts
  <2> QED BY <1>10, <2>1, <2>2
<1>12. UntakenAbsent'
  <2> SUFFICES ASSUME NEW j \in Ids, j > Len(taken), NEW a \in Artifacts
               PROVE  file'[j][a] = "absent"
    BY DEF UntakenAbsent
  <2>1. j # i
    BY <1>1 DEF IInv, TypeOK, Ids
  <2> QED BY <1>3, <2>1 DEF IInv, UntakenAbsent
<1>13. IndexLast'
  BY <1>3, <1>7, <1>10, <1>11 DEF IInv, IndexLast
<1>14. WritersAt'
  <2> SUFFICES ASSUME NEW q \in Procs, Taking(q)'
               PROVE  WriterAt(q)'
    BY DEF WritersAt
  <2>1. CASE q = p
    <3>1. k = 5 \/ file'[i]["index"] # "whole"
      BY <1>10
    <3>2. \A l \in 1..5 : l < t.step => file'[i][ArtifactOrder[l]] = "whole"
      BY <1>2, <1>3, <1>9
    <3>3. t.step < 6 => file'[i]["index"] # "whole"
      BY <1>2, <1>10
    <3>4. ~(t.step > 6)
      BY <1>2
    <3>5. i <= Len(taken) /\ held[p] = i
      BY <1>1 DEF WriterAt
    <3>6. ~(t.step > 7)
      BY <1>2
    <3> HIDE DEF k
    <3> QED BY <1>6, <2>1, <3>2, <3>3, <3>4, <3>5, <3>6 DEF WriterAt
  <2>2. CASE q # p
    <3>1. task'[q] = task[q] /\ Taking(q)
      BY <1>6, <2>2 DEF Taking
    <3>2. WriterAt(q) /\ task[q].id # i /\ task[q].id \in Ids
      BY <1>1, <2>2, <3>1, WriterKnown
    <3>3. file'[task[q].id] = file[task[q].id]
      BY <1>3, <3>2
    <3> QED BY <1>3, <3>1, <3>2, <3>3 DEF WriterAt
  <2> QED BY <2>1, <2>2
<1>15. PointersNameWholeBundles'
  <2> SUFFICES ASSUME NEW x \in Pointers, pointer[x] # 0
               PROVE  /\ pointer[x] \in 1..Len(taken)
                      /\ Whole(pointer[x])'
                      /\ x \in {Global, taken[pointer[x]]}
    BY <1>3 DEF PointersNameWholeBundles
  <2>1. /\ pointer[x] \in 1..Len(taken) /\ Whole(pointer[x])
        /\ x \in {Global, taken[pointer[x]]}
    BY DEF IInv, PointersNameWholeBundles
  <2>2. pointer[x] \in Ids
    BY <2>1, ConstantsAssumption DEF IInv, TypeOK, Ids
  <2> QED BY <1>3, <1>5, <1>7, <2>1, <2>2
<1>16. SearchPastIndex'
  <2> SUFFICES ASSUME NEW q \in Procs, task'[q].at = "read",
                      task'[q].tool = "snapshot_search", task'[q].got > 0,
                      task'[q].asked # Latest
               PROVE  file'[task'[q].asked]["index"] = "whole"
    BY DEF SearchPastIndex
  <2>1. q # p
    BY <1>6
  <2>2. file[task[q].asked]["index"] = "whole" /\ task'[q] = task[q]
    BY <1>6, <2>1 DEF IInv, SearchPastIndex
  <2>3. task[q].asked \in Ids
    <3>1. task[q] \in Readings
      BY <2>2 DEF IInv, TypeOK, Tasks, Takings, Idle
    <3> QED BY <2>2, <3>1, ConstantsAssumption DEF Readings, Ids, Latest
  <2> QED BY <1>3, <1>4, <2>2, <2>3
<1> QED BY <1>5, <1>6, <1>7, <1>11, <1>12, <1>13, <1>14, <1>15, <1>16 DEF IInv

\* A pointer is written: it becomes unreadable or names a whole bundle.
LEMMA PutPointerStep ==
  ASSUME IInv, NEW p \in Procs, Taking(p), NEW t \in Takings,
         task[p].at = "write", NEW value \in {0, task[p].id},
         PutPointer(task[p].id, task[p].step, value),
         t.id = task[p].id, t.alone = task[p].alone, t.at = "write",
         t.step = task[p].step + (IF value = 0 THEN 0 ELSE 1),
         task' = [task EXCEPT ![p] = t], UNCHANGED <<taken, held, named>>
  PROVE  IInv'
<1> DEFINE i == task[p].id
           k == task[p].step
           x == PointerOf(i, k)
<1>1. /\ WriterAt(p) /\ task[p] \in Takings /\ i \in Ids /\ i \in 1..Len(taken)
      /\ taken[i] \in Contexts /\ Global # taken[i]
      /\ \A q \in Procs \ {p} : Taking(q) => task[q].id # i /\ ~task[q].alone
  BY WriterKnown
<1>2. k \in {6, 7} /\ value \in 0..MaxSnapshots
  BY <1>1, ConstantsAssumption DEF PutPointer, Ids
<1>3. /\ x \in Pointers /\ pointer' \in [Pointers -> 0..MaxSnapshots]
      /\ pointer'[x] = value
      /\ \A y \in Pointers \ {x} : pointer'[y] = pointer[y]
      /\ file' = file
  BY <1>1, <1>2, PutOnePointer DEF IInv
<1>4. TypeOK' /\ WritersApart' /\ task'[p] = t /\ \A q \in Procs \ {p} : task'[q] = task[q]
  BY <1>3, WriterMoves DEF IInv, TypeOK
<1>5. UntakenAbsent' /\ IndexLast'
  BY <1>3 DEF IInv, UntakenAbsent, IndexLast, Whole
<1>6. x \in {Global, taken[i]} /\ (k = 6 => x = Global) /\ (k = 7 => x = taken[i])
  BY <1>2 DEF PointerOf
<1>7. Whole(i)
  <2>1. \A l \in 1..5 : file[i][ArtifactOrder[l]] = "whole"
    BY <1>1, <1>2 DEF WriterAt
  <2> QED BY <2>1, OrderOfArtifacts DEF Whole
<1>8. PointersNameWholeBundles'
  <2> SUFFICES ASSUME NEW y \in Pointers, pointer'[y] # 0
               PROVE  /\ pointer'[y] \in 1..Len(taken)
                      /\ Whole(pointer[y])'
                      /\ y \in {Global, taken[pointer'[y]]}
    BY DEF PointersNameWholeBundles
  <2>1. CASE y = x
    BY <1>1, <1>3, <1>6, <1>7, <2>1 DEF Whole
  <2>2. CASE y # x
    BY <1>3, <2>2 DEF IInv, PointersNameWholeBundles, Whole
  <2> QED BY <2>1, <2>2
<1>9. WritersAt'
  <2> SUFFICES ASSUME NEW q \in Procs, Taking(q)'
               PROVE  WriterAt(q)'
    BY DEF WritersAt
  <2>1. CASE q = p
    <3>1. t.step > 6 /\ t.alone => pointer'[Global] = i
      <4>1. CASE k = 6
        BY <1>2, <1>3, <1>6, <4>1
      <4>2. CASE k = 7
        BY <1>1, <1>3, <1>6, <4>2 DEF WriterAt, Pointers
      <4> QED BY <1>2, <4>1, <4>2
    <3>2. t.step > 7 /\ t.alone => pointer'[taken[i]] = i
      BY <1>2, <1>3, <1>6
    <3>3. ~(t.step < 6)
      BY <1>2
    <3>4. \A l \in 1..5 : file[i][ArtifactOrder[l]] = "whole"
      BY <1>1, <1>2 DEF WriterAt
    <3>5. i <= Len(taken) /\ held[p] = i
      BY <1>1 DEF WriterAt
    <3> HIDE DEF i
    <3> QED BY <1>3, <1>4, <2>1, <3>1, <3>2, <3>3, <3>4, <3>5 DEF WriterAt, i
  <2>2. CASE q # p
    <3>1. task'[q] = task[q] /\ Taking(q)
      BY <1>4, <2>2 DEF Taking
    <3>2. WriterAt(q) /\ ~task[q].alone
      BY <1>1, <2>2, <3>1, WriterKnown
    <3> QED BY <1>3, <3>1, <3>2 DEF WriterAt
  <2> QED BY <2>1, <2>2
<1>10. SearchPastIndex'
  <2>1. t.at # "read"
    OBVIOUS
  <2> QED BY <1>3, <1>4, <2>1 DEF IInv, SearchPastIndex
<1> QED BY <1>4, <1>5, <1>8, <1>9, <1>10 DEF IInv

\* What OpenNext does, as one of the two steps above.
LEMMA OpenNextCases ==
  ASSUME IInv, NEW p \in Procs, OpenNext(p)
  PROVE  \E t \in Takings :
           /\ Taking(p) /\ task[p].at = "write"
           /\ Put(task[p].id, task[p].step, "cut") \/ PutPointer(task[p].id, task[p].step, 0)
           /\ t.id = task[p].id /\ t.alone = task[p].alone /\ t.at = "write"
           /\ t.step = task[p].step
           /\ task' = [task EXCEPT ![p] = t]
           /\ UNCHANGED <<taken, held, named>>
<1> DEFINE t == [task[p] EXCEPT !.open = TRUE]
<1>1. Taking(p) /\ task[p] \in Takings /\ task[p].at = "write"
  BY TakingRecord DEF OpenNext, Taking, IInv
<1>2. t \in Takings /\ t.id = task[p].id /\ t.alone = task[p].alone
      /\ t.at = "write" /\ t.step = task[p].step
  BY <1>1 DEF Takings
<1>3. task' = [task EXCEPT ![p] = t] /\ UNCHANGED <<taken, held, named>>
  BY DEF OpenNext, memory
<1>4. Put(task[p].id, task[p].step, "cut") \/ PutPointer(task[p].id, task[p].step, 0)
  BY DEF OpenNext
<1> QED BY <1>1, <1>2, <1>3, <1>4

\* What FillNext does, as one of the two steps above.
LEMMA FillNextCases ==
  ASSUME IInv, NEW p \in Procs, FillNext(p)
  PROVE  \E t \in Takings :
           /\ Taking(p) /\ task[p].at = "write"
           /\ \/ Put(task[p].id, task[p].step, "whole")
              \/ PutPointer(task[p].id, task[p].step, task[p].id)
           /\ t.id = task[p].id /\ t.alone = task[p].alone /\ t.at = "write"
           /\ t.step = task[p].step + 1
           /\ task' = [task EXCEPT ![p] = t]
           /\ UNCHANGED <<taken, held, named>>
<1> DEFINE t == [task[p] EXCEPT !.open = FALSE, !.step = @ + 1]
<1>1. Taking(p) /\ task[p] \in Takings /\ task[p].at = "write"
  BY TakingRecord DEF FillNext, Taking, IInv
<1>2. \/ Put(task[p].id, task[p].step, "whole")
      \/ PutPointer(task[p].id, task[p].step, task[p].id)
  BY DEF FillNext
<1>3. task[p].step + 1 \in 1..8
  BY <1>1, <1>2 DEF Put, PutPointer, Takings
<1>4. t \in Takings /\ t.id = task[p].id /\ t.alone = task[p].alone
      /\ t.at = "write" /\ t.step = task[p].step + 1
  <2> DEFINE u == [task[p] EXCEPT !.open = FALSE]
  <2>1. u \in Takings /\ u.id = task[p].id /\ u.alone = task[p].alone
        /\ u.at = task[p].at /\ u.step = task[p].step
    BY <1>1 DEF Takings
  <2>2. t = [u EXCEPT !.step = task[p].step + 1]
    BY <1>1 DEF Takings
  <2> HIDE DEF t, u
  <2> QED BY <1>1, <1>3, <2>1, <2>2 DEF Takings
<1>5. task' = [task EXCEPT ![p] = t] /\ UNCHANGED <<taken, held, named>>
  BY DEF FillNext, memory
<1> QED BY <1>1, <1>2, <1>4, <1>5

\* Opening a file keeps the invariant.
LEMMA OpenNextStep ==
  ASSUME IInv, NEW p \in Procs, OpenNext(p)
  PROVE  IInv'
<1>1. PICK t \in Takings :
        /\ Taking(p) /\ task[p].at = "write"
        /\ Put(task[p].id, task[p].step, "cut") \/ PutPointer(task[p].id, task[p].step, 0)
        /\ t.id = task[p].id /\ t.alone = task[p].alone /\ t.at = "write"
        /\ t.step = task[p].step
        /\ task' = [task EXCEPT ![p] = t]
        /\ UNCHANGED <<taken, held, named>>
  BY OpenNextCases
<1>2. CASE Put(task[p].id, task[p].step, "cut")
  BY <1>1, <1>2, PutStep
<1>3. CASE PutPointer(task[p].id, task[p].step, 0)
  <2>1. task[p].step + 0 = task[p].step
    BY <1>1, WriterKnown DEF Takings
  <2> QED BY <1>1, <1>3, <2>1, PutPointerStep
<1> QED BY <1>1, <1>2, <1>3

\* Completing a file keeps the invariant.
LEMMA FillNextStep ==
  ASSUME IInv, NEW p \in Procs, FillNext(p)
  PROVE  IInv'
<1>1. PICK t \in Takings :
        /\ Taking(p) /\ task[p].at = "write"
        /\ \/ Put(task[p].id, task[p].step, "whole")
           \/ PutPointer(task[p].id, task[p].step, task[p].id)
        /\ t.id = task[p].id /\ t.alone = task[p].alone /\ t.at = "write"
        /\ t.step = task[p].step + 1
        /\ task' = [task EXCEPT ![p] = t]
        /\ UNCHANGED <<taken, held, named>>
  BY FillNextCases
<1>2. CASE Put(task[p].id, task[p].step, "whole")
  BY <1>1, <1>2, PutStep
<1>3. CASE PutPointer(task[p].id, task[p].step, task[p].id)
  <2>1. task[p].id # 0
    BY <1>1, WriterKnown DEF Ids
  <2> QED BY <1>1, <1>3, <2>1, PutPointerStep
<1> QED BY <1>1, <1>2, <1>3

-----------------------------------------------------------------------------
(* The invariant. *)

\* The invariant holds initially.
LEMMA Initially == Init => IInv
<1> SUFFICES ASSUME Init PROVE IInv
  OBVIOUS
<1>1. TypeOK
  BY ConstantsAssumption DEF Init, TypeOK, FileStates, Tasks, Idle
<1>2. UntakenAbsent /\ IndexLast /\ PointersNameWholeBundles
  BY DEF Init, UntakenAbsent, IndexLast, PointersNameWholeBundles, Artifacts
<1>3. \A p \in Procs : task[p].at = "idle"
  BY DEF Init, Idle
<1>4. WritersAt /\ WritersApart /\ SearchPastIndex
  BY <1>3 DEF WritersAt, WritersApart, SearchPastIndex, Taking
<1> QED BY <1>1, <1>2, <1>4 DEF IInv

\* Every step keeps the invariant.
LEMMA Inductive == IInv /\ [Next]_vars => IInv'
<1> SUFFICES ASSUME IInv, [Next]_vars PROVE IInv'
  OBVIOUS
<1>1. CASE UNCHANGED vars
  BY <1>1 DEF IInv, vars, TypeOK, UntakenAbsent, IndexLast, Whole, WritersAt, WriterAt,
              WritersApart, Taking, PointersNameWholeBundles, SearchPastIndex
<1>2. ASSUME NEW p \in Procs, Step(p)
      PROVE  IInv'
  <2>1. ASSUME NEW c \in Contexts, TakeSnapshot(p, c) PROVE IInv'
    BY <2>1, TakeSnapshotStep
  <2>2. CASE RenderFails(p) \/ WriteFails(p) \/ ReadFails(p) \/ LocatorFromMemory(p)
    <3>1. UNCHANGED <<taken, disk, held, named>> /\ task' = [task EXCEPT ![p] = Idle]
      BY <2>2 DEF RenderFails, WriteFails, ReadFails, LocatorFromMemory, memory
    <3> QED BY <3>1, EndsQuietly DEF IInv, TypeOK
  <2>3. CASE Render(p)
    BY <2>3, RenderStep
  <2>4. CASE OpenNext(p)
    BY <2>4, OpenNextStep
  <2>5. CASE FillNext(p)
    BY <2>5, FillNextStep
  <2>6. CASE MarkCurrent(p)
    <3>1. task[p].id \in 0..MaxSnapshots
      BY <2>6, TakingRecord DEF MarkCurrent, Taking, IInv, Takings, Ids
    <3>2. named' \in [Procs -> 0..MaxSnapshots] /\ held' = held
          /\ UNCHANGED <<taken, disk>> /\ task' = [task EXCEPT ![p] = Idle]
      BY <2>6, <3>1 DEF MarkCurrent, IInv, TypeOK
    <3> QED BY <3>2, EndsQuietly DEF IInv, TypeOK
  <2>7. CASE Restart(p)
    <3>1. /\ held' \in [Procs -> 0..MaxSnapshots] /\ named' \in [Procs -> 0..MaxSnapshots]
          /\ \A q \in Procs \ {p} : held'[q] = held[q]
          /\ UNCHANGED <<taken, disk>> /\ task' = [task EXCEPT ![p] = Idle]
      BY <2>7, ConstantsAssumption DEF Restart, IInv, TypeOK
    <3> QED BY <3>1, EndsQuietly
  <2>8. ASSUME NEW tool \in Readers, NEW asked \in {Latest} \cup Ids,
               BeginRead(p, tool, asked)
        PROVE  IInv'
    BY <2>8, BeginReadStep
  <2>9. CASE Read(p)
    BY <2>9, ReadStep
  <2> QED BY <1>2, <2>1, <2>2, <2>3, <2>4, <2>5, <2>6, <2>7, <2>8, <2>9 DEF Step
<1> QED BY <1>1, <1>2 DEF Next

\* The inductive invariant holds in every reachable state.
THEOREM Invariant == Spec => []IInv
BY Initially, Inductive, PTL DEF Spec

\* Every variable keeps its kind, and a reader never runs past its artifacts.
THEOREM TypeCorrect == Spec => []TypeOK
<1>1. IInv => TypeOK
  BY DEF IInv
<1> QED BY <1>1, Invariant, PTL

\* A latest pointer never leads to a bundle that is missing files or belongs to
\* another context, for any number of processes, deaths and failed writes.
THEOREM PointersNameWholeBundlesHolds == Spec => []PointersNameWholeBundles
<1>1. IInv => PointersNameWholeBundles
  BY DEF IInv
<1> QED BY <1>1, Invariant, PTL

\* An artifact a search reads and accepts is whole.
LEMMA SearchReadsWhole ==
  ASSUME IInv, NEW p \in Procs, Read(p), task[p].tool = "snapshot_search"
  PROVE  Seen(task[p]) = "whole"
<1>0. task[p].at = "read"
  BY DEF Read
<1>1. task[p] \in Readings /\ task[p].at = "read"
  BY <1>0, ReadingRecord DEF IInv
<1> DEFINE t == task[p]
           i == Resolved(t.asked)
<1>2. Accepted(t) /\ Seen(t) # "absent"
  <2>1. Accepted(t)
    BY DEF Read
  <2> QED BY <2>1 DEF Accepted, Readable
<1>3. i # 0 /\ Seen(t) = file[i][NextArtifact(t)]
  BY <1>2 DEF Seen
<1>4. t.got \in 0..2 /\ NextArtifact(t) \in Artifacts
      /\ (t.got = 0 => NextArtifact(t) = "index")
  <2>1. t.got \in {0, 1, 2}
    BY <1>1 DEF Readings
  <2>2. ReadOrder(t.tool) = <<"index", "refs", "compact">>
    BY DEF ReadOrder, SearchOrder
  <2> QED BY <2>1, <2>2 DEF NextArtifact, Artifacts
<1>5. CASE t.asked = Latest
  <2>1. i = pointer[Global]
    BY <1>5 DEF Resolved
  <2>2. Whole(i)
    BY <1>3, <2>1 DEF IInv, PointersNameWholeBundles, Pointers
  <2> QED BY <1>3, <1>4, <2>2 DEF Whole
<1>6. CASE t.asked # Latest /\ t.got = 0
  BY <1>2, <1>4, <1>6 DEF Accepted, Readable
<1>7. CASE t.asked # Latest /\ t.got > 0
  <2>1. i = t.asked /\ i \in Ids
    BY <1>1, <1>7, ConstantsAssumption DEF Resolved, Readings, Ids, Latest
  <2>2. file[i]["index"] = "whole"
    BY <1>1, <1>7, <2>1 DEF IInv, SearchPastIndex
  <2>3. Whole(i)
    BY <2>1, <2>2 DEF IInv, IndexLast
  <2> QED BY <1>3, <1>4, <2>3 DEF Whole
<1> QED BY <1>4, <1>5, <1>6, <1>7

\* A search that answers has read complete artifacts, whatever is being written
\* or was left half-written meanwhile.
THEOREM SearchSeesWholeHolds == Spec => SearchSeesWhole
<1>1. IInv => [\A p \in Procs :
        (Read(p) /\ task[p].tool = "snapshot_search") => Seen(task[p]) = "whole"]_vars
  BY SearchReadsWhole
<1> QED BY <1>1, Invariant, PTL DEF SearchSeesWhole

\* A snapshot that no other process raced ends as the one both pointers and the
\* refs in memory name, whatever an earlier crash left behind.
THEOREM FinishedIsLatestHolds == Spec => FinishedIsLatest
<1>1. ASSUME IInv, NEW p \in Procs, MarkCurrent(p), task[p].alone
      PROVE  LET i == task[p].id
             IN pointer[Global] = i /\ pointer[taken[i]] = i /\ held[p] = i
  <2>1. WriterAt(p) /\ task[p].step = 8
    BY <1>1 DEF MarkCurrent, Taking, IInv, WritersAt
  <2> QED BY <1>1, <2>1 DEF WriterAt
<1>2. IInv => [\A p \in Procs : (MarkCurrent(p) /\ task[p].alone) =>
        LET i == task[p].id
        IN pointer[Global] = i /\ pointer[taken[i]] = i /\ held[p] = i]_vars
  BY <1>1
<1> QED BY <1>2, Invariant, PTL DEF FinishedIsLatest

-----------------------------------------------------------------------------
(* The directory implements BundleStore. *)

\* The directory starts as an empty store.
LEMMA StoreInitially == Init => Store!StoreInit
<1> SUFFICES ASSUME Init PROVE Store!StoreInit
  OBVIOUS
<1>1. Len(taken) = 0
  BY DEF Init
<1>2. Published = {}
  BY <1>1 DEF Published
<1> QED BY <1>2 DEF Init, Store!StoreInit, Pointers, Store!Pointers

\* A step that writes nothing shows readers nothing new.
LEMMA NothingPublished ==
  ASSUME IInv, [Next]_vars, UNCHANGED disk
  PROVE  UNCHANGED Store!storeVars
<1>1. CASE UNCHANGED taken
  BY <1>1 DEF Published, Whole, disk, Store!storeVars
<1>2. CASE taken' # taken
  <2>1. PICK p \in Procs, c \in Contexts : TakeSnapshot(p, c)
    BY <1>2 DEF Next, Step, vars, RenderFails, Render, OpenNext, FillNext, MarkCurrent,
                WriteFails, Restart, BeginRead, Read, ReadFails, LocatorFromMemory
  <2>2. taken' = Append(taken, c) /\ Len(taken) < MaxSnapshots
    BY <2>1 DEF TakeSnapshot
  <2>3. /\ Len(taken) \in Nat /\ Len(taken') = Len(taken) + 1
        /\ \A j \in 1..Len(taken) : taken'[j] = taken[j]
    BY <2>2 DEF IInv, TypeOK
  <2>4. Len(taken) + 1 \in Ids
    BY <2>2, <2>3, ConstantsAssumption DEF Ids
  <2>5. ~Whole(Len(taken) + 1)
    BY <2>3, <2>4 DEF IInv, UntakenAbsent, Whole, Artifacts
  <2>6. \A j \in 1..Len(taken') : Whole(j)' <=> Whole(j)
    BY DEF Whole, disk
  <2>7. {j \in 1..Len(taken') : Whole(j)'} = {j \in 1..Len(taken) : Whole(j)}
    BY <2>3, <2>5, <2>6
  <2>8. Published' = Published
    BY <2>3, <2>7 DEF Published
  <2> QED BY <2>8 DEF disk, Store!storeVars
<1> QED BY <1>1, <1>2

\* A bundle that becomes whole is added to what readers see.
LEMMA WholeIsPublished ==
  ASSUME IInv, NEW i \in 1..Len(taken), UNCHANGED taken,
         \A j \in Ids \ {i} : Whole(j)' <=> Whole(j)
  PROVE  /\ ~Whole(i)' /\ ~Whole(i) => Published' = Published
         /\ Whole(i)' => Published' = Published \cup {<<i, taken[i]>>}
<1>1. \A j \in 1..Len(taken) : j \in Ids
  BY ConstantsAssumption DEF IInv, TypeOK, Ids
<1>2. ASSUME ~Whole(i)', ~Whole(i)
      PROVE  {j \in 1..Len(taken) : Whole(j)'} = {j \in 1..Len(taken) : Whole(j)}
  BY <1>1, <1>2
<1>3. ASSUME Whole(i)'
      PROVE  {j \in 1..Len(taken) : Whole(j)'} = {j \in 1..Len(taken) : Whole(j)} \cup {i}
  BY <1>1, <1>3
<1>4. ASSUME Whole(i)'
      PROVE  Published' = Published \cup {<<i, taken[i]>>}
  BY <1>3, <1>4 DEF Published
<1> QED BY <1>2, <1>4 DEF Published

\* Every step of the processes is a step of the store or none at all: the last
\* artifact publishes a bundle, opening a pointer blanks it, completing it points.
LEMMA StoreStep == IInv /\ [Next]_vars => [Store!StoreNext]_(Store!storeVars)
<1> SUFFICES ASSUME IInv, [Next]_vars PROVE [Store!StoreNext]_(Store!storeVars)
  OBVIOUS
<1>1. CASE UNCHANGED disk
  BY <1>1, NothingPublished
<1>2. ASSUME NEW p \in Procs, OpenNext(p)
      PROVE  [Store!StoreNext]_(Store!storeVars)
  <2> DEFINE i == task[p].id
  <2>1. PICK t \in Takings :
          /\ Taking(p) /\ task[p].at = "write"
          /\ Put(i, task[p].step, "cut") \/ PutPointer(i, task[p].step, 0)
          /\ t.id = i /\ t.alone = task[p].alone /\ t.at = "write"
          /\ t.step = task[p].step
          /\ task' = [task EXCEPT ![p] = t]
          /\ UNCHANGED <<taken, held, named>>
    BY <1>2, OpenNextCases
  <2>2. i \in 1..Len(taken) /\ i \in Ids
    BY <2>1, WriterKnown
  <2>3. CASE Put(i, task[p].step, "cut")
    <3>1. ~Whole(i) /\ ~Whole(i)' /\ \A j \in Ids \ {i} : Whole(j)' <=> Whole(j)
      BY <2>1, <2>3, PutStep
    <3>2. Published' = Published
      BY <2>1, <2>2, <3>1, WholeIsPublished
    <3> QED BY <2>3, <3>2 DEF Put, Store!storeVars
  <2>4. CASE PutPointer(i, task[p].step, 0)
    <3>1. PointerOf(i, task[p].step) \in Store!Pointers
      BY <2>2, WriterKnown, <2>1 DEF PointerOf, Store!Pointers
    <3>2. Published' = Published
      BY <2>1, <2>4 DEF Published, Whole, PutPointer
    <3>3. Store!Blank(PointerOf(i, task[p].step))
      BY <2>4, <3>2 DEF PutPointer, Store!Blank
    <3> QED BY <3>1, <3>3 DEF Store!StoreNext
  <2> QED BY <2>1, <2>3, <2>4
<1>3. ASSUME NEW p \in Procs, FillNext(p)
      PROVE  [Store!StoreNext]_(Store!storeVars)
  <2> DEFINE i == task[p].id
             k == task[p].step
  <2>1. PICK t \in Takings :
          /\ Taking(p) /\ task[p].at = "write"
          /\ Put(i, k, "whole") \/ PutPointer(i, k, i)
          /\ t.id = i /\ t.alone = task[p].alone /\ t.at = "write"
          /\ t.step = k + 1
          /\ task' = [task EXCEPT ![p] = t]
          /\ UNCHANGED <<taken, held, named>>
    BY <1>3, FillNextCases
  <2>2. /\ i \in 1..Len(taken) /\ i \in Ids /\ taken[i] \in Contexts
        /\ WriterAt(p) /\ task[p] \in Takings
    BY <2>1, WriterKnown
  <2>3. CASE Put(i, k, "whole")
    <3>1. /\ ~Whole(i) /\ Whole(i)' <=> k = 5
          /\ \A j \in Ids \ {i} : Whole(j)' <=> Whole(j)
      BY <2>1, <2>3, PutStep
    <3>2. ~Whole(i)
      BY <2>1, <2>3, PutStep
    <3>3. UNCHANGED pointer
      BY <2>3 DEF Put
    <3>4. CASE k # 5
      <4>1. Published' = Published
        BY <2>1, <2>2, <3>1, <3>2, <3>4, WholeIsPublished
      <4> QED BY <3>3, <4>1 DEF Store!storeVars
    <3>5. CASE k = 5
      <4>1. Published' = Published \cup {<<i, taken[i]>>}
        BY <2>1, <2>2, <3>1, <3>5, WholeIsPublished
      <4>2. \A b \in Published : b[1] # i
        BY <3>2 DEF Published
      <4>3. Store!Publish(i, taken[i])
        BY <3>3, <4>1, <4>2 DEF Store!Publish
      <4> QED BY <2>2, <4>3 DEF Store!StoreNext, Ids, Store!Ids
    <3> QED BY <3>4, <3>5
  <2>4. CASE PutPointer(i, k, i)
    <3>1. k \in {6, 7}
      BY <2>4 DEF PutPointer
    <3>2. Whole(i)
      <4>1. \A l \in 1..5 : file[i][ArtifactOrder[l]] = "whole"
        BY <2>2, <3>1 DEF WriterAt
      <4> QED BY <4>1, OrderOfArtifacts DEF Whole
    <3>3. <<i, taken[i]>> \in Published
      BY <2>2, <3>2 DEF Published
    <3>4. Published' = Published
      BY <2>1, <2>4 DEF Published, Whole, PutPointer
    <3>5. PointerOf(i, k) \in {Global, taken[i]}
      BY DEF PointerOf
    <3>6. Store!Point(PointerOf(i, k), i, taken[i])
      BY <2>4, <3>3, <3>4, <3>5 DEF PutPointer, Store!Point
    <3>7. PointerOf(i, k) \in Store!Pointers
      BY <2>2, <3>5 DEF Store!Pointers
    <3> QED BY <2>2, <3>6, <3>7 DEF Store!StoreNext, Ids, Store!Ids
  <2> QED BY <2>1, <2>3, <2>4
<1>4. CASE \E p \in Procs : OpenNext(p) \/ FillNext(p)
  BY <1>2, <1>3, <1>4
<1> QED
  BY <1>1, <1>4 DEF Next, Step, vars, disk, TakeSnapshot, RenderFails, Render, MarkCurrent,
                    WriteFails, Restart, BeginRead, Read, ReadFails, LocatorFromMemory

\* For any number of processes, deaths and failed writes, the snapshot directory
\* behaves as BundleStore: bundles appear whole, never change, and a pointer
\* names one of its context or cannot be read.
THEOREM StoreSafetyHolds == Spec => StoreSafety
BY StoreInitially, StoreStep, Invariant, PTL
  DEF Spec, StoreSafety, Store!StoreSpec
=============================================================================
