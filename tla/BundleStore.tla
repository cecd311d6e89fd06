---------------------------- MODULE BundleStore ----------------------------
(***************************************************************************)
(* What the snapshot directory promises its readers: a bundle becomes      *)
(* visible as a whole and stays as it is, and a latest pointer names a     *)
(* visible bundle, its own context's when it is a scoped one, or cannot be *)
(* read.  SnapshotBundle implements it with five files and two pointers    *)
(* that are written one after the other by processes that may die.         *)
(***************************************************************************)
EXTENDS Naturals

CONSTANTS
  Contexts,      \* the Appium contexts that have a scoped pointer
  Global,        \* latest.json
  MaxSnapshots   \* bound: snapshots ever taken

VARIABLES
  published,  \* the bundles readers can see, as <<id, context>>
  pointer     \* the bundle each latest pointer names, 0 when unreadable

storeVars == <<published, pointer>>

Ids == 1..MaxSnapshots
Pointers == {Global} \cup Contexts

StoreInit ==
  /\ published = {}
  /\ pointer = [x \in Pointers |-> 0]

\* A new bundle becomes visible; it is never changed or withdrawn.
Publish(id, c) ==
  /\ \A b \in published : b[1] # id
  /\ published' = published \cup {<<id, c>>}
  /\ UNCHANGED pointer

Point(x, id, c) ==
  /\ <<id, c>> \in published
  /\ x \in {Global, c}
  /\ pointer' = [pointer EXCEPT ![x] = id]
  /\ UNCHANGED published

\* A pointer that is being rewritten cannot be read.
Blank(x) ==
  /\ pointer' = [pointer EXCEPT ![x] = 0]
  /\ UNCHANGED published

StoreNext ==
  \/ \E id \in Ids, c \in Contexts : Publish(id, c)
  \/ \E x \in Pointers, id \in Ids, c \in Contexts : Point(x, id, c)
  \/ \E x \in Pointers : Blank(x)

StoreSpec == StoreInit /\ [][StoreNext]_storeVars
=============================================================================
