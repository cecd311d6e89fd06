--------------------------- MODULE NativeTree_proofs ---------------------------
(***************************************************************************)
(* The properties of NativeTree, and of the two modules that read its      *)
(* snapshots, for every page source, whatever its size, and every budget:  *)
(* nothing is lost unsaid, nesting is kept, tap targets are the nearest,   *)
(* and search and actionable tree agree with them.                         *)
(***************************************************************************)
EXTENDS ActionableTree, DocumentTree_proofs, SequenceTheorems

-----------------------------------------------------------------------------
(* The inductive invariant. *)

\* Some of the elements of a page, each under its nearest ancestor among them,
\* and all of them in one.
PartOf(page, sub) ==
  /\ DOMAIN sub \subseteq DOMAIN page
  /\ \A n \in DOMAIN sub : sub[n] = Nearest(Above(page, n) \cap DOMAIN sub)
  /\ \E r \in DOMAIN sub : \A n \in DOMAIN sub : n = r \/ r \in Above(page, n)

TreeIsPart == PartOf(raw, up)

Untouched == pc \in {"semantics", "prune"} => up = raw /\ ~truncated

\* What is left out is said.
OmittedIsSaid == ~truncated => omitted = {}

NotYet ==
  /\ pc \notin {"links", "done"} => ref = [n \in 1..N |-> NoRef]
  /\ pc # "done" => target = [n \in 1..N |-> NoRef]

InSight(n) == el[n].visible /\ Tells(n)

NothingLost ==
  pc \notin {"semantics", "prune"} /\ ~truncated => \A n \in 1..N : InSight(n) => n \in DOMAIN up

RefsAssigned ==
  pc \in {"links", "done"} => \A n \in 1..N : ref[n] # NoRef <=> n \in DOMAIN up /\ NeedsRef(n)

IsLinked(n) ==
  n \in DOMAIN up /\ ref[n] = NoRef /\ role[n] = "text" /\ el[n].named /\ RefAbove(n) # {}

TargetsLinked ==
  pc = "done" => \A n \in 1..N : target[n] = IF IsLinked(n) THEN ref[LastOf(RefAbove(n))] ELSE NoRef

IInv ==
  /\ TypeOK /\ TreeIsPart /\ Untouched /\ OmittedIsSaid /\ NotYet
  /\ NothingLost /\ RefsAssigned /\ TargetsLinked

-----------------------------------------------------------------------------
(* Parts of a page. *)

LEMMA PageFacts ==
  ASSUME NEW page \in Trees
  PROVE  /\ Forest(page) /\ DOMAIN page = 1..N /\ N \in Nat \ {0} /\ page[1] = 0
         /\ \A n \in 1..N : Above(page, n) \subseteq 1..N /\ \A a \in Above(page, n) : a < n
         /\ Above(page, 1) = {}
<1>1. Forest(page) /\ DOMAIN page = 1..N /\ N \in Nat \ {0} /\ page[1] = 0 /\ 1 \in 1..N
  BY TreeIsForest, NAssumption DEF Trees
<1> QED BY <1>1, AboveBefore, AboveIs

LEMMA PartNesting ==
  ASSUME NEW page \in Trees, NEW sub, PartOf(page, sub)
  PROVE  /\ Forest(sub)
         /\ \A n \in DOMAIN sub : Above(sub, n) = Above(page, n) \cap DOMAIN sub
<1> DEFINE K == DOMAIN sub
<1>1. /\ Forest(page) /\ K \in SUBSET DOMAIN sub /\ DOMAIN sub \subseteq DOMAIN page
      /\ \A n \in DOMAIN sub : sub[n] = Nearest(Above(page, n) \cap K)
  BY PageFacts DEF PartOf
<1> HIDE DEF K
<1>2. Forest(sub) /\ \A n \in DOMAIN sub : Above(sub, n) = Above(page, n) \cap K
  BY ONLY <1>1, Contraction
<1> QED BY <1>2 DEF K

\* A part of a page is a tree.
LEMMA PartTypes ==
  ASSUME NEW page \in Trees, NEW sub, PartOf(page, sub)
  PROVE  /\ DOMAIN sub \subseteq 1..N /\ DOMAIN sub # {}
         /\ \A n \in DOMAIN sub : sub[n] \in DOMAIN sub \cup {0}
         /\ Cardinality({n \in DOMAIN sub : sub[n] = 0}) = 1
<1>1. /\ Forest(sub) /\ DOMAIN sub \subseteq 1..N
      /\ \A n \in DOMAIN sub : Above(sub, n) = Above(page, n) \cap DOMAIN sub
  BY PartNesting, PageFacts DEF PartOf
<1>2. PICK r \in DOMAIN sub : \A n \in DOMAIN sub : n = r \/ r \in Above(page, n)
  BY DEF PartOf
<1>3. sub[r] = 0
  <2>1. SUFFICES ASSUME sub[r] # 0 PROVE FALSE
    OBVIOUS
  <2>2. sub[r] \in DOMAIN sub /\ sub[r] \in Above(sub, r) /\ sub[r] < r /\ r \in Nat /\ sub[r] \in Nat
    BY <1>1, <2>1, AboveIs DEF Forest
  <2>3. r \in Above(sub, sub[r])
    BY <1>1, <1>2, <2>2
  <2> QED BY <1>1, <2>2, <2>3, AboveBefore
<1>4. \A n \in DOMAIN sub : sub[n] = 0 => n = r
  <2> SUFFICES ASSUME NEW n \in DOMAIN sub, sub[n] = 0, n # r PROVE FALSE
    OBVIOUS
  <2>1. r \in Above(sub, n)
    BY <1>1, <1>2
  <2> QED BY <1>1, <2>1, AboveIs
<1>5. {n \in DOMAIN sub : sub[n] = 0} = {r}
  BY <1>3, <1>4
<1> QED BY <1>1, <1>5, FS_Singleton DEF Forest

\* A page is a part of itself.
LEMMA WholeIsPart ==
  ASSUME NEW page \in Trees
  PROVE  PartOf(page, page)
<1>1. /\ Forest(page) /\ DOMAIN page = 1..N /\ 1 \in 1..N
      /\ \A n \in 1..N : Above(page, n) \subseteq 1..N
  BY PageFacts, NAssumption
<1>2. \A n \in 1..N : page[n] = Nearest(Above(page, n) \cap 1..N)
  <2> TAKE n \in 1..N
  <2>1. Above(page, n) \cap 1..N = Above(page, n)
    BY <1>1
  <2> QED BY <1>1, <2>1, ParentIsNearest
<1>3. \A n \in 1..N : n = 1 \/ 1 \in Above(page, n)
  <2>1. \A n \in 1..N : n = 1 \/ n \in 2..N
    BY NAssumption
  <2> QED BY <2>1, RootAboveAll
<1> QED BY <1>1, <1>2, <1>3 DEF PartOf

\* Elements that hold their ancestors among them, down to fewer of these.
LEMMA UpwardClosedIsPart ==
  ASSUME NEW page \in Trees, NEW sub, PartOf(page, sub),
         NEW D \in SUBSET DOMAIN sub, D # {},
         \A n \in D : Above(sub, n) \subseteq D
  PROVE  PartOf(page, [n \in D |-> sub[n]])
<1> DEFINE less == [n \in D |-> sub[n]]
<1>1. /\ Forest(sub) /\ DOMAIN sub \subseteq DOMAIN page
      /\ \A n \in DOMAIN sub : Above(sub, n) = Above(page, n) \cap DOMAIN sub
  BY PartNesting DEF PartOf
<1>2. ASSUME NEW n \in D
      PROVE  less[n] = Nearest(Above(page, n) \cap D)
  <2>1. Above(page, n) \cap D = Above(page, n) \cap DOMAIN sub
    BY <1>1
  <2> QED BY <2>1 DEF PartOf
<1>3. \E r \in D : \A n \in D : n = r \/ r \in Above(page, n)
  <2>1. PICK r \in DOMAIN sub : \A n \in DOMAIN sub : n = r \/ r \in Above(page, n)
    BY DEF PartOf
  <2>2. \A n \in D : n = r \/ r \in Above(sub, n)
    BY <1>1, <2>1
  <2> QED BY <2>1, <2>2
<1>4. DOMAIN less = D
  OBVIOUS
<1> HIDE DEF less
<1>5. PartOf(page, less)
  BY <1>1, <1>2, <1>3, <1>4 DEF PartOf
<1> QED BY <1>5 DEF less

-----------------------------------------------------------------------------
(* Pruning. *)

IsKept(kept) ==
  kept = [n \in 1..N |-> ~ShouldPrune(n, \E c \in Children(raw, n) : kept[c])]

\* The recursive definition of Kept has a solution.
LEMMA KeptExists ==
  ASSUME raw \in Trees
  PROVE  \E kept : IsKept(kept)
<1> DEFINE Stays(n) == ~ShouldPrune(n, FALSE)
           kept == [n \in 1..N |-> \E m \in Subtree(raw, n) : Stays(m)]
<1>0. Forest(raw) /\ DOMAIN raw = 1..N
  BY PageFacts
<1>1. ASSUME NEW n \in 1..N
      PROVE  kept[n] <=> Stays(n) \/ \E c \in Children(raw, n) : kept[c]
  <2>1. ASSUME NEW m \in Subtree(raw, n), Stays(m), ~Stays(n)
        PROVE  \E c \in Children(raw, n) : kept[c]
    <3>1. m \in 1..N /\ n \in Above(raw, m)
      BY <1>0, <2>1 DEF Subtree
    <3>2. PICK c \in Children(raw, n) : c = m \/ c \in Above(raw, m)
      BY <1>0, <3>1, ChildTowards
    <3>3. c \in 1..N /\ m \in Subtree(raw, c)
      BY <1>0, <3>1, <3>2 DEF Children, Subtree
    <3> QED BY <2>1, <3>2, <3>3
  <2>2. ASSUME NEW c \in Children(raw, n), kept[c]
        PROVE  kept[n]
    <3>1. c \in 1..N /\ n \in Above(raw, c)
      <4>1. c \in 1..N /\ raw[c] = n /\ raw[c] # 0
        BY <1>0 DEF Children
      <4> QED BY <1>0, <4>1, AboveIs
    <3>2. PICK m \in Subtree(raw, c) : Stays(m)
      BY <2>2, <3>1
    <3>3. m \in Subtree(raw, n)
      BY <1>0, <3>1, <3>2, AboveTransitive DEF Subtree
    <3> QED BY <3>2, <3>3
  <2>3. Stays(n) => kept[n]
    BY <1>0 DEF Subtree
  <2>4. kept[n] => \E m \in Subtree(raw, n) : Stays(m)
    OBVIOUS
  <2> HIDE DEF kept, Stays
  <2> QED BY <2>1, <2>2, <2>3, <2>4
<1>2. ASSUME NEW n \in 1..N
      PROVE  kept[n] = ~ShouldPrune(n, \E c \in Children(raw, n) : kept[c])
  <2> DEFINE P == \E c \in Children(raw, n) : kept[c]
             A == \E m \in Subtree(raw, n) : Stays(m)
  <2>1. kept[n] = A
    OBVIOUS
  <2>2. A <=> Stays(n) \/ P
    BY <1>1, <2>1
  <2> HIDE DEF P, kept
  <2>3. ~ShouldPrune(n, P) <=> Stays(n) \/ P
    BY DEF ShouldPrune
  <2>4. A = ~ShouldPrune(n, P)
    BY <2>2, <2>3
  <2> QED BY <2>1, <2>4 DEF P
<1>3. IsKept(kept)
  <2>1. kept = [n \in 1..N |-> kept[n]]
    OBVIOUS
  <2> HIDE DEF kept
  <2> QED BY <1>2, <2>1 DEF IsKept
<1> QED BY <1>3

\* What stays by itself is kept, and so is everything it lies in.
LEMMA KeptIs ==
  ASSUME raw \in Trees
  PROVE  /\ Kept \subseteq 1..N
         /\ \A n \in 1..N : ~ShouldPrune(n, FALSE) => n \in Kept
         /\ \A n \in Kept : Above(raw, n) \subseteq Kept
<1> DEFINE kept == CHOOSE k : IsKept(k)
<1>0. Forest(raw) /\ DOMAIN raw = 1..N
  BY PageFacts
<1>1. IsKept(kept)
  BY KeptExists
<1>2. Kept = {n \in 1..N : kept[n]}
  BY DEF Kept, IsKept
<1> HIDE DEF kept
<1>3. \A n \in 1..N : n \in Kept <=> ~ShouldPrune(n, \E c \in Children(raw, n) : kept[c])
  BY <1>1, <1>2 DEF IsKept
<1>4. ASSUME NEW n \in 1..N, n \in Kept, raw[n] # 0
      PROVE  raw[n] \in Kept
  <2>1. raw[n] \in 1..N /\ n \in Children(raw, raw[n]) /\ kept[n]
    BY <1>0, <1>2, <1>4 DEF Forest, Children
  <2> QED BY <1>3, <2>1 DEF ShouldPrune
<1> DEFINE S == {n \in 1..N : n \in Kept => Above(raw, n) \subseteq Kept}
<1>5. ASSUME NEW n \in 1..N, raw[n] # 0 => raw[n] \in S
      PROVE  n \in S
  BY <1>0, <1>4, <1>5, AboveIs
<1>6. S = 1..N
  <2> HIDE DEF S
  <2>1. S \in SUBSET 1..N
    BY DEF S
  <2> QED BY <1>0, <1>5, <2>1, Downward
<1> QED BY <1>2, <1>3, <1>6 DEF ShouldPrune

-----------------------------------------------------------------------------
(* The collapse. *)

Nodes == {n \in Kept : ~Transparent(n)}

Unwrapped == [n \in Nodes |-> NearestStaying(n)]

\* Without its transparent wrappers a page keeps who lies inside whom.
LEMMA UnwrappedIsPart ==
  ASSUME raw \in Trees, Kept # {}
  PROVE  PartOf(raw, Unwrapped) /\ 1 \in Nodes /\ DOMAIN Unwrapped = Nodes
<1>0. DOMAIN raw = 1..N /\ Nodes \subseteq 1..N /\ Kept \subseteq 1..N
  BY PageFacts, KeptIs DEF Nodes
<1>1. \A n \in 1..N : n = 1 \/ 1 \in Above(raw, n)
  <2>1. \A n \in 1..N : n = 1 \/ n \in 2..N
    BY NAssumption
  <2> QED BY <2>1, RootAboveAll
<1>2. 1 \in Nodes
  BY <1>0, <1>1, KeptIs DEF Nodes, Transparent
<1>3. ASSUME NEW n \in Nodes
      PROVE  NearestStaying(n) = Nearest(Above(raw, n) \cap Nodes)
  <2>1. Above(raw, n) \subseteq Kept
    BY KeptIs DEF Nodes
  <2>2. {a \in Above(raw, n) : ~Transparent(a)} = Above(raw, n) \cap Nodes
    BY <2>1 DEF Nodes
  <2> QED BY <2>2 DEF NearestStaying, Nearest
<1>4. DOMAIN Unwrapped = Nodes /\ \A n \in Nodes : Unwrapped[n] = NearestStaying(n)
  BY DEF Unwrapped
<1> QED BY <1>0, <1>1, <1>2, <1>3, <1>4 DEF PartOf

\* A root that has one child may be replaced by it.
LEMMA OnlyChildIsPart ==
  ASSUME NEW page \in Trees, NEW sub, PartOf(page, sub),
         1 \in DOMAIN sub, Cardinality(Children(sub, 1)) = 1,
         IsFiniteSet(Children(sub, 1))
  PROVE  PartOf(page, [n \in DOMAIN sub \ {1} |-> IF sub[n] = 1 THEN 0 ELSE sub[n]])
<1> DEFINE D == DOMAIN sub \ {1}
           less == [n \in D |-> IF sub[n] = 1 THEN 0 ELSE sub[n]]
           Over(n) == Above(sub, n)
<1>0. /\ Forest(page) /\ DOMAIN page = 1..N /\ DOMAIN sub \subseteq 1..N
      /\ Forest(sub) /\ \A n \in DOMAIN sub : Over(n) = Above(page, n) \cap DOMAIN sub
  BY PageFacts, PartNesting DEF PartOf
<1>1. \A n \in D : n \in 2..N /\ 1 \in Above(page, n)
  <2>1. \A n \in D : n \in 2..N
    BY <1>0
  <2> QED BY <2>1, RootAboveAll
<1>2. PICK c : Children(sub, 1) = {c}
  BY FS_Singleton
<1>3. \A n \in D : n = c \/ c \in Over(n)
  <2> TAKE n \in D
  <2>1. 1 \in Over(n) /\ n \in DOMAIN sub
    BY <1>0, <1>1
  <2>2. \E x \in Children(sub, 1) : x = n \/ x \in Over(n)
    BY <1>0, <2>1, ChildTowards
  <2> QED BY <1>2, <2>2
<1>4. c \in D
  <2>1. c \in DOMAIN sub /\ sub[c] = 1
    BY <1>2 DEF Children
  <2>2. c # 1
    BY <1>0, <2>1 DEF Forest
  <2> QED BY <2>1, <2>2
<1>5. ASSUME NEW n \in D
      PROVE  less[n] = Nearest(Above(page, n) \cap D)
  <2> DEFINE A == Over(n)
  <2>1. /\ sub[n] = Nearest(A) /\ 1 \in A /\ A \subseteq DOMAIN sub
        /\ Above(page, n) \cap D = A \ {1}
        /\ \A a \in A : a \in Nat /\ a < n /\ n \in Nat
    BY <1>0, <1>1, ParentIsNearest, AboveBefore
  <2>2. A \in SUBSET Nat /\ n \in Nat /\ \A a \in A : a <= n
    BY <2>1
  <2> HIDE DEF A
  <2>3. LastOf(A) \in A /\ \A a \in A : a <= LastOf(A)
    BY <2>1, <2>2, LastOfIs
  <2>4. sub[n] = LastOf(A)
    BY <2>1 DEF Nearest
  <2>5. CASE LastOf(A) = 1
    <3>1. A \ {1} = {}
      <4>1. \A a \in A : a <= 1 /\ a \in Nat /\ a \in 1..N
        BY <1>0, <2>1, <2>3, <2>5
      <4> QED BY <4>1
    <3> QED BY <2>1, <2>4, <2>5, <3>1 DEF Nearest
  <2>6. CASE LastOf(A) # 1
    <3> DEFINE B == A \ {1}
    <3>1. LastOf(A) \in B /\ B \in SUBSET Nat /\ \A b \in B : b <= LastOf(A)
      BY <2>2, <2>3, <2>6
    <3> HIDE DEF B
    <3>2. LastOf(B) = LastOf(A) /\ B # {}
      BY <3>1, LastOfUnique
    <3> QED BY <2>1, <2>4, <2>6, <3>2 DEF Nearest, B
  <2> QED BY <2>5, <2>6
<1>6. \A n \in D : n = c \/ c \in Above(page, n)
  BY <1>0, <1>3
<1>7. DOMAIN less = D /\ D \subseteq DOMAIN page
  BY <1>0
<1> HIDE DEF less, D
<1>8. PartOf(page, less)
  BY <1>4, <1>5, <1>6, <1>7 DEF PartOf
<1> QED BY <1>8 DEF less, D

\* What comes out of pruning and collapsing is a part of the page, with all
\* that is in sight.
LEMMA CollapsedIs ==
  ASSUME raw \in Trees
  PROVE  /\ PartOf(raw, Collapsed)
         /\ \A n \in 1..N : InSight(n) => n \in DOMAIN Collapsed
<1> DEFINE Plainly == Plain(1) /\ Cardinality(Children(Unwrapped, 1)) = 1
           less == [n \in Nodes \ {1} |-> IF Unwrapped[n] = 1 THEN 0 ELSE Unwrapped[n]]
<1>0. Collapsed = IF Kept = {} THEN [n \in {1} |-> 0] ELSE IF Plainly THEN less ELSE Unwrapped
  BY DEF Collapsed, Nodes, Unwrapped
<1>1. \A n \in 1..N : InSight(n) => n \in Nodes /\ ~Plain(n)
  <2>1. \A n \in 1..N : InSight(n) => n \in Kept
    BY KeptIs DEF InSight, ShouldPrune
  <2> QED BY <2>1 DEF InSight, Nodes, Transparent, Plain, Tells
<1>2. CASE Kept = {}
  <2>1. Nodes = {} /\ Collapsed = [n \in {1} |-> 0]
    BY <1>0, <1>2 DEF Nodes
  <2>2. PartOf(raw, Collapsed)
    <3>1. Above(raw, 1) = {} /\ 1 \in DOMAIN raw
      BY PageFacts, NAssumption
    <3> QED BY <2>1, <3>1 DEF PartOf, Nearest
  <2> QED BY <1>1, <2>1, <2>2
<1>3. CASE Kept # {} /\ Plainly
  <2>1. PartOf(raw, Unwrapped) /\ 1 \in Nodes /\ DOMAIN Unwrapped = Nodes
    BY <1>3, UnwrappedIsPart
  <2>2. IsFiniteSet(Children(Unwrapped, 1))
    <3>1. DOMAIN Unwrapped \subseteq 1..N
      BY <2>1, KeptIs DEF Nodes
    <3>2. Children(Unwrapped, 1) \in SUBSET 1..N
      BY <3>1 DEF Children
    <3>3. IsFiniteSet(1..N)
      BY NAssumption, FS_Interval
    <3> QED BY <3>2, <3>3, FS_Subset
  <2>3. PartOf(raw, less)
    BY <1>3, <2>1, <2>2, OnlyChildIsPart
  <2>4. Collapsed = less /\ DOMAIN less = Nodes \ {1}
    BY <1>0, <1>3
  <2> HIDE DEF less
  <2> QED BY <1>1, <1>3, <2>3, <2>4
<1>4. CASE Kept # {} /\ ~Plainly
  <2>1. PartOf(raw, Unwrapped) /\ DOMAIN Unwrapped = Nodes
    BY <1>4, UnwrappedIsPart
  <2>2. Collapsed = Unwrapped
    BY <1>0, <1>4
  <2> QED BY <1>1, <2>1, <2>2
<1> QED BY <1>2, <1>3, <1>4

-----------------------------------------------------------------------------
(* The passes keep the invariant. *)

LEMMA InferSemanticsKeeps ==
  ASSUME IInv, InferSemantics
  PROVE  IInv'
<1>1. /\ pc = "semantics" /\ pc' = "prune"
      /\ UNCHANGED <<raw, el, budget, up, omitted, truncated, kind, ref, target>>
  BY DEF InferSemantics, source
<1>2. TypeOK' /\ TreeIsPart' /\ Untouched' /\ OmittedIsSaid' /\ NotYet'
  BY <1>1 DEF IInv, TypeOK, TreeIsPart, Untouched, OmittedIsSaid, NotYet
<1>3. NothingLost' /\ RefsAssigned' /\ TargetsLinked'
  BY <1>1 DEF NothingLost, RefsAssigned, TargetsLinked
<1> QED BY <1>2, <1>3 DEF IInv

LEMMA PruneAndCollapseKeeps ==
  ASSUME IInv, PruneAndCollapse
  PROVE  IInv'
<1>1. /\ pc = "prune" /\ pc' = "enforce" /\ up' = Collapsed /\ raw \in Trees
      /\ UNCHANGED <<raw, el, budget, role, omitted, truncated, kind, ref, target>>
  BY DEF IInv, TypeOK, PruneAndCollapse, source
<1>2. PartOf(raw, Collapsed) /\ \A n \in 1..N : InSight(n) => n \in DOMAIN Collapsed
  BY <1>1, CollapsedIs
<1>3. TreeIsPart'
  BY <1>1, <1>2 DEF TreeIsPart
<1>4. TypeOK'
  <2>1. /\ DOMAIN up' \subseteq 1..N /\ DOMAIN up' # {}
        /\ \A n \in DOMAIN up' : up'[n] \in DOMAIN up' \cup {0}
        /\ Cardinality({n \in DOMAIN up' : up'[n] = 0}) = 1
    BY <1>1, <1>2, PartTypes
  <2>2. \A n \in 1..N : ref'[n] = NoRef /\ target'[n] = NoRef
    BY <1>1 DEF IInv, NotYet
  <2> QED BY <1>1, <2>1, <2>2 DEF IInv, TypeOK
<1>5. Untouched' /\ OmittedIsSaid' /\ NotYet' /\ RefsAssigned' /\ TargetsLinked'
  BY <1>1 DEF IInv, Untouched, OmittedIsSaid, NotYet, RefsAssigned, TargetsLinked
<1>6. NothingLost'
  BY <1>1, <1>2 DEF NothingLost, InSight, Tells, IsActionable
<1> QED BY <1>3, <1>4, <1>5, <1>6 DEF IInv

LEMMA OmitDeepestKeeps ==
  ASSUME IInv, OmitDeepest
  PROVE  IInv'
<1> DEFINE n == DeepestOmittable
           D == DOMAIN up \ (Subtree(up, n) \ {n})
<1>1. /\ pc = "enforce" /\ pc' = pc /\ CanOmit /\ raw \in Trees /\ PartOf(raw, up)
      /\ omitted' = omitted \cup {n} /\ up' = [e \in D |-> up[e]] /\ truncated' = TRUE
      /\ UNCHANGED <<raw, el, budget, role, kind, ref, target>>
  BY DEF IInv, TypeOK, TreeIsPart, OmitDeepest, source
<1>2. Forest(up) /\ DOMAIN up \subseteq 1..N
  BY <1>1, PartNesting, PageFacts DEF PartOf
<1>3. n \in 1..N
  <2> DEFINE Depths == {Depth(up, m) : m \in Omittable}
             Deepest == {e \in Omittable : \A m \in Omittable : Depth(up, m) <= Depth(up, e)}
  <2>1. Omittable \subseteq 1..N /\ Omittable # {}
    BY <1>1, <1>2 DEF Omittable, CanOmit
  <2>2. \A m \in Omittable : Depth(up, m) \in Nat /\ Depth(up, m) <= N
    <3> TAKE m \in Omittable
    <3>1. Above(up, m) \in SUBSET 1..N
      <4>1. m \in DOMAIN up
        BY DEF Omittable
      <4> QED BY <1>2, <4>1, AboveBefore
    <3>2. IsFiniteSet(1..N) /\ Cardinality(1..N) = N /\ N \in Nat
      BY NAssumption, FS_Interval
    <3>3. IsFiniteSet(Above(up, m)) /\ Cardinality(Above(up, m)) <= N
      BY <3>1, <3>2, FS_Subset
    <3> QED BY <3>3, FS_CardinalityType DEF Depth
  <2>3. Depths \in SUBSET Nat /\ Depths # {} /\ N \in Nat /\ \A d \in Depths : d <= N
    BY <2>1, <2>2, NAssumption
  <2>4. PICK e \in Omittable : Depth(up, e) = LastOf(Depths) /\ \A d \in Depths : d <= LastOf(Depths)
    <3>1. LastOf(Depths) \in Depths /\ \A d \in Depths : d <= LastOf(Depths)
      <4> HIDE DEF Depths
      <4> QED BY <2>3, LastOfIs
    <3> QED BY <3>1
  <2>5. e \in Deepest
    BY <2>4
  <2>6. Deepest # {} /\ Deepest \in SUBSET Nat
    <3>1. Deepest \subseteq Omittable /\ 1..N \subseteq Nat
      OBVIOUS
    <3> HIDE DEF Deepest
    <3> QED BY <2>1, <2>5, <3>1
  <2>7. FirstOf(Deepest) \in Deepest
    <3> HIDE DEF Deepest
    <3> QED BY <2>6, FirstOfIs
  <2> QED BY <2>1, <2>7 DEF DeepestOmittable
<1> HIDE DEF n
<1>4. \A e \in D : Above(up, e) \subseteq D
  <2> SUFFICES ASSUME NEW e \in D, NEW a \in Above(up, e), a \notin D
               PROVE  FALSE
    OBVIOUS
  <2>1. a \in DOMAIN up /\ e \in DOMAIN up /\ n \in Above(up, a)
    BY <1>2, AboveBefore DEF Subtree
  <2>2. n \in Above(up, e)
    BY <1>2, <2>1, AboveTransitive
  <2>3. n # e
    BY <1>2, <2>1, <2>2, AboveBefore
  <2> QED BY <2>1, <2>2, <2>3 DEF Subtree
<1>5. D # {}
  <2>1. PICK r \in DOMAIN up : up[r] = 0
    <3>1. Cardinality({e \in DOMAIN up : up[e] = 0}) = 1
      BY DEF IInv, TypeOK
    <3> QED BY <3>1, FS_EmptySet
  <2>2. Above(up, r) = {}
    BY <1>2, <2>1, AboveIs
  <2> QED BY <2>1, <2>2 DEF Subtree
<1>6. TreeIsPart'
  <2> HIDE DEF D
  <2>1. D \in SUBSET DOMAIN up
    BY DEF D
  <2>2. PartOf(raw, [e \in D |-> up[e]])
    BY <1>1, <1>4, <1>5, <2>1, UpwardClosedIsPart
  <2> QED BY <1>1, <2>2 DEF TreeIsPart
<1>7. TypeOK'
  <2>1. /\ DOMAIN up' \subseteq 1..N /\ DOMAIN up' # {}
        /\ \A e \in DOMAIN up' : up'[e] \in DOMAIN up' \cup {0}
        /\ Cardinality({e \in DOMAIN up' : up'[e] = 0}) = 1
    BY <1>1, <1>6, PartTypes DEF TreeIsPart
  <2>2. \A e \in 1..N : ref'[e] = NoRef /\ target'[e] = NoRef
    BY <1>1 DEF IInv, NotYet
  <2>3. omitted' \subseteq 1..N /\ truncated' \in BOOLEAN
    BY <1>1, <1>3 DEF IInv, TypeOK
  <2> HIDE DEF D
  <2> QED BY <1>1, <2>1, <2>2, <2>3 DEF IInv, TypeOK
<1>8. Untouched' /\ OmittedIsSaid' /\ NotYet' /\ NothingLost' /\ RefsAssigned' /\ TargetsLinked'
  BY <1>1 DEF IInv, Untouched, OmittedIsSaid, NotYet, NothingLost, RefsAssigned, TargetsLinked
<1> QED BY <1>6, <1>7, <1>8 DEF IInv

LEMMA EnforcedKeeps ==
  ASSUME IInv, Enforced
  PROVE  IInv'
<1>1. /\ pc = "enforce" /\ pc' = "containers"
      /\ UNCHANGED <<raw, el, budget, role, up, omitted, truncated, kind, ref, target>>
  BY DEF Enforced, source
<1>2. TypeOK' /\ TreeIsPart' /\ Untouched' /\ OmittedIsSaid' /\ NotYet'
  BY <1>1 DEF IInv, TypeOK, TreeIsPart, Untouched, OmittedIsSaid, NotYet
<1>3. NothingLost' /\ RefsAssigned' /\ TargetsLinked'
  BY <1>1 DEF IInv, NothingLost, InSight, Tells, IsActionable, RefsAssigned, TargetsLinked
<1> QED BY <1>2, <1>3 DEF IInv

\* Under tabs no role becomes that of a text box.
LEMMA DetectContainersKeeps ==
  ASSUME IInv, DetectContainers
  PROVE  IInv'
<1>1. /\ pc = "containers" /\ pc' = "refs"
      /\ role' = [n \in 1..N |-> IF n \in DOMAIN up THEN RoleUnder(n) ELSE role[n]]
      /\ UNCHANGED <<raw, el, budget, up, omitted, truncated, ref, target>>
  BY DEF DetectContainers, source
<1>2. TypeOK' /\ TreeIsPart' /\ Untouched' /\ OmittedIsSaid' /\ NotYet'
  BY <1>1 DEF IInv, TypeOK, TreeIsPart, Untouched, OmittedIsSaid, NotYet
<1>3. \A n \in 1..N : role'[n] = "textbox" => role[n] = "textbox"
  BY <1>1 DEF RoleUnder
<1>4. NothingLost'
  BY <1>1, <1>3 DEF IInv, NothingLost, InSight, Tells, IsActionable
<1>5. RefsAssigned' /\ TargetsLinked'
  BY <1>1 DEF RefsAssigned, TargetsLinked
<1> QED BY <1>2, <1>4, <1>5 DEF IInv

LEMMA UniqueRefIsRef ==
  ASSUME TypeOK, NEW n \in 1..N
  PROVE  UniqueRef(n) # NoRef
<1>1. PICK S : Base(n) \in Seq(S) /\ Base(n) # NoRef
  <2>1. CASE el[n].base = NoRef
    <3>1. <<role[n]>> \in Seq({role[n]}) /\ <<role[n]>> # <<>>
      OBVIOUS
    <3> QED BY <2>1, <3>1 DEF Base, NoRef
  <2>2. CASE el[n].base # NoRef
    <3> DEFINE b == el[n].base
               S == {b[i] : i \in 1..Len(b)}
    <3>1. Len(b) \in Nat /\ b = SubSeq(b, 1, Len(b))
      BY BasesAssumption DEF TypeOK, IsSequence
    <3>2. SubSeq(b, 1, Len(b)) \in Seq(S)
      BY <3>1, SubSeqProperties
    <3> QED BY <2>2, <3>1, <3>2 DEF Base
  <2> QED BY <2>1, <2>2
<1>2. ASSUME NEW k
      PROVE  Append(Base(n), k) # NoRef
  <2> DEFINE P == S \cup {k}
  <2>1. Base(n) \in Seq(P) /\ k \in P
    BY <1>1
  <2> HIDE DEF P
  <2> QED BY <2>1, AppendProperties DEF NoRef
<1> QED BY <1>1, <1>2 DEF UniqueRef

LEMMA AssignRefsKeeps ==
  ASSUME IInv, AssignRefs
  PROVE  IInv'
<1>1. /\ pc = "refs" /\ pc' = "links"
      /\ ref' = [n \in 1..N |-> IF n \in DOMAIN up /\ NeedsRef(n) THEN UniqueRef(n) ELSE NoRef]
      /\ UNCHANGED <<raw, el, budget, role, up, omitted, truncated, kind, target>>
  BY DEF AssignRefs, source
<1>2. \A n \in 1..N : ref'[n] # NoRef <=> n \in DOMAIN up /\ NeedsRef(n)
  BY <1>1, UniqueRefIsRef DEF IInv
<1>3. TypeOK'
  <2>1. \A n \in 1..N : target'[n] = NoRef
    BY <1>1 DEF IInv, NotYet
  <2> QED BY <1>1, <1>2, <2>1 DEF IInv, TypeOK
<1>4. TreeIsPart' /\ Untouched' /\ OmittedIsSaid' /\ NotYet' /\ TargetsLinked'
  BY <1>1 DEF IInv, TreeIsPart, Untouched, OmittedIsSaid, NotYet, TargetsLinked
<1>5. NothingLost' /\ RefsAssigned'
  BY <1>1, <1>2 DEF IInv, NothingLost, InSight, Tells, IsActionable, RefsAssigned, NeedsRef
<1> QED BY <1>3, <1>4, <1>5 DEF IInv

LEMMA LinkTextsKeeps ==
  ASSUME IInv, LinkTexts
  PROVE  IInv'
<1>1. /\ pc = "links" /\ pc' = "done"
      /\ target' = [n \in 1..N |-> IF IsLinked(n) THEN ref[LastOf(RefAbove(n))] ELSE NoRef]
      /\ UNCHANGED <<raw, el, budget, role, up, omitted, truncated, kind, ref>>
  BY DEF LinkTexts, IsLinked, source
<1>2. TypeOK'
  <2>1. \A n \in 1..N : target'[n] # NoRef => n \in DOMAIN up
    BY <1>1 DEF IsLinked
  <2> QED BY <1>1, <2>1 DEF IInv, TypeOK
<1>3. TreeIsPart' /\ Untouched' /\ OmittedIsSaid' /\ NotYet'
  BY <1>1 DEF IInv, TreeIsPart, Untouched, OmittedIsSaid, NotYet
<1>4. NothingLost' /\ RefsAssigned'
  BY <1>1 DEF IInv, NothingLost, InSight, Tells, IsActionable, RefsAssigned, NeedsRef
<1>5. TargetsLinked'
  BY <1>1 DEF TargetsLinked, IsLinked, RefAbove
<1> QED BY <1>2, <1>3, <1>4, <1>5 DEF IInv

LEMMA InvariantInit == Init => IInv
<1> SUFFICES ASSUME Init PROVE IInv
  OBVIOUS
<1>1. /\ pc = "semantics" /\ raw \in Trees /\ up = raw /\ omitted = {} /\ truncated = FALSE
      /\ ref = [n \in 1..N |-> NoRef] /\ target = [n \in 1..N |-> NoRef]
  BY DEF Init
<1>2. PartOf(raw, up)
  BY <1>1, WholeIsPart
<1>3. /\ DOMAIN up \subseteq 1..N /\ DOMAIN up # {}
      /\ \A n \in DOMAIN up : up[n] \in DOMAIN up \cup {0}
      /\ Cardinality({n \in DOMAIN up : up[n] = 0}) = 1
  BY <1>1, <1>2, PartTypes
<1>4. TypeOK
  BY <1>1, <1>3 DEF Init, TypeOK
<1> QED BY <1>1, <1>2, <1>4 DEF IInv, TreeIsPart, Untouched, OmittedIsSaid, NotYet, NothingLost,
           RefsAssigned, TargetsLinked

LEMMA InvariantStep == IInv /\ [Next]_vars => IInv'
<1> SUFFICES ASSUME IInv, [Next]_vars PROVE IInv'
  OBVIOUS
<1>1. CASE InferSemantics
  BY <1>1, InferSemanticsKeeps
<1>2. CASE PruneAndCollapse
  BY <1>2, PruneAndCollapseKeeps
<1>3. CASE OmitDeepest
  BY <1>3, OmitDeepestKeeps
<1>4. CASE Enforced
  BY <1>4, EnforcedKeeps
<1>5. CASE DetectContainers
  BY <1>5, DetectContainersKeeps
<1>6. CASE AssignRefs
  BY <1>6, AssignRefsKeeps
<1>7. CASE LinkTexts
  BY <1>7, LinkTextsKeeps
<1>8. CASE UNCHANGED vars
  <2>1. UNCHANGED <<pc, raw, el, budget, role, up, omitted, truncated, kind, ref, target>>
    BY <1>8 DEF vars, source
  <2>2. TypeOK' /\ TreeIsPart' /\ Untouched' /\ OmittedIsSaid' /\ NotYet'
    BY <2>1 DEF IInv, TypeOK, TreeIsPart, Untouched, OmittedIsSaid, NotYet
  <2>3. NothingLost' /\ RefsAssigned'
    BY <2>1 DEF IInv, NothingLost, InSight, Tells, IsActionable, RefsAssigned, NeedsRef
  <2>4. TargetsLinked'
    BY <2>1 DEF IInv, TargetsLinked, IsLinked, RefAbove
  <2> QED BY <2>2, <2>3, <2>4 DEF IInv
<1> QED BY <1>1, <1>2, <1>3, <1>4, <1>5, <1>6, <1>7, <1>8 DEF Next, Done

-----------------------------------------------------------------------------
(* Who is acted on. *)

\* The elements a tap on n could be meant for.
Actors(n) == {a \in Above(up, n) \cup {n} : Actionable(a)}

NearestRef(n) == LastOf(RefAbove(n))

LEMMA TreeFacts ==
  ASSUME IInv
  PROVE  /\ Forest(up) /\ DOMAIN up \subseteq 1..N
         /\ \A n \in DOMAIN up : \A a \in Above(up, n) : a \in DOMAIN up /\ a \in Nat /\ n \in Nat /\ a < n
<1>1. Forest(up) /\ DOMAIN up \subseteq 1..N
  BY PartNesting DEF IInv, TypeOK, TreeIsPart
<1> QED BY <1>1, AboveBefore

LEMMA ActorsBefore ==
  ASSUME IInv, NEW n \in DOMAIN up
  PROVE  Actors(n) \in SUBSET Nat /\ n \in Nat /\ \A a \in Actors(n) : a <= n /\ a \in DOMAIN up
<1>1. n \in Nat /\ \A a \in Above(up, n) : a \in DOMAIN up /\ a \in Nat /\ a <= n
  BY TreeFacts
<1> QED BY <1>1 DEF Actors

\* The one inside all others is acted on.
LEMMA TextTargetIs ==
  ASSUME IInv, NEW n \in DOMAIN up, NEW t \in Actors(n),
         \A a \in Actors(n) : a = t \/ a \in Above(up, t)
  PROVE  TextTarget(n) = t
<1>1. Actors(n) \in SUBSET Nat /\ t \in DOMAIN up
  BY ActorsBefore
<1>2. \A a \in Actors(n) : a <= t
  BY <1>1, TreeFacts
<1>3. LastOf(Actors(n)) = t
  BY <1>1, <1>2, LastOfUnique
<1> QED BY <1>3 DEF TextTarget, Actors

LEMMA TextTargetAmong ==
  ASSUME IInv, NEW n \in DOMAIN up, Actors(n) # {}
  PROVE  TextTarget(n) \in Actors(n) /\ \A a \in Actors(n) : a <= TextTarget(n)
<1>1. LastOf(Actors(n)) \in Actors(n) /\ \A a \in Actors(n) : a <= LastOf(Actors(n))
  BY ActorsBefore, LastOfIs
<1> QED BY <1>1 DEF TextTarget, Actors

LEMMA NoTextTarget ==
  ASSUME NEW n, Actors(n) = {}
  PROVE  TextTarget(n) = 0
BY DEF TextTarget, Actors

LEMMA SameActors ==
  ASSUME NEW m, NEW n, Actors(m) = Actors(n)
  PROVE  TextTarget(m) = TextTarget(n)
BY DEF TextTarget, Actors

\* Nothing with a ref lies between a text and its tap target, so a tap on the
\* one is meant for what a tap on the other is meant for.
LEMMA LinkIs ==
  ASSUME IInv, NEW n \in DOMAIN up, ref[n] = NoRef, RefAbove(n) # {}
  PROVE  /\ NearestRef(n) \in Above(up, n) /\ ref[NearestRef(n)] # NoRef
         /\ \A a \in Above(up, n) : ref[a] # NoRef => a = NearestRef(n) \/ a \in Above(up, NearestRef(n))
         /\ Actors(n) = Actors(NearestRef(n))
<1> DEFINE t == NearestRef(n)
<1>1. Forest(up)
  BY TreeFacts
<1>2. RefAbove(n) \in SUBSET Above(up, n)
  BY DEF RefAbove
<1>3. t \in RefAbove(n) /\ \A a \in RefAbove(n) : a # t => a \in Above(up, t)
  BY <1>1, <1>2, LastAbove DEF NearestRef
<1> HIDE DEF t
<1>4. \A a \in Above(up, t) : a \in Above(up, n)
  BY <1>1, <1>2, <1>3, AboveTransitive
<1>5. Actors(n) \subseteq Actors(t)
  BY <1>3 DEF Actors, Actionable, RefAbove
<1>6. Actors(t) \subseteq Actors(n)
  BY <1>3, <1>4 DEF Actors, RefAbove
<1>7. t \in Above(up, n) /\ ref[t] # NoRef /\ \A a \in Above(up, n) : ref[a] # NoRef => a = t \/ a \in Above(up, t)
  BY <1>3 DEF RefAbove
<1> QED BY <1>5, <1>6, <1>7 DEF t

LEMMA TextTargetIsLinked ==
  ASSUME IInv, pc = "done", NEW n \in TextTargets
  PROVE  IsLinked(n) /\ target[n] = ref[NearestRef(n)] /\ n \in DOMAIN up
<1>1. n \in DOMAIN up /\ n \in 1..N /\ target[n] # NoRef
  BY TreeFacts DEF TextTargets
<1>2. target[n] = IF IsLinked(n) THEN ref[LastOf(RefAbove(n))] ELSE NoRef
  BY <1>1 DEF IInv, TargetsLinked
<1> QED BY <1>1, <1>2 DEF NearestRef

\* Where refs differ, looking one up gives the element that holds it.
LEMMA RefIsOwn ==
  ASSUME IInv, ~Collide, NEW n \in DOMAIN up, ref[n] # NoRef
  PROVE  RefMap(ref[n]) = n
<1>1. Named(ref[n]) = {n}
  BY DEF Named, Collide
<1>2. n \in Nat
  BY TreeFacts
<1> QED BY <1>1, <1>2, LastOfOne DEF RefMap

LEMMA TargetHolder ==
  ASSUME IInv, pc = "done", ~Collide, NEW n \in TextTargets
  PROVE  RefMap(target[n]) = NearestRef(n)
<1>1. IsLinked(n) /\ target[n] = ref[NearestRef(n)] /\ n \in DOMAIN up
  BY TextTargetIsLinked
<1>2. NearestRef(n) \in DOMAIN up /\ ref[NearestRef(n)] # NoRef
  BY <1>1, LinkIs, TreeFacts DEF IsLinked
<1> QED BY <1>1, <1>2, RefIsOwn

-----------------------------------------------------------------------------
(* The invariant holds throughout. *)
THEOREM Invariant == Spec => []IInv
BY InvariantInit, InvariantStep, PTL DEF Spec

\* Every variable keeps its type, and the snapshot is a tree throughout.
THEOREM TypeCorrect == Spec => []TypeOK
<1>1. IInv => TypeOK
  BY DEF IInv
<1> QED BY <1>1, Invariant, PTL

\* What an agent could see or use on the screen is rendered, or the snapshot says
\* that it is truncated, on screens of any size and for every max_nodes.
THEOREM NothingLostHolds == Spec => []NothingLostUnsaid
<1>1. IInv => NothingLostUnsaid
  BY DEF IInv, NothingLost, InSight, OmittedIsSaid, NothingLostUnsaid
<1> QED BY <1>1, Invariant, PTL

\* Pruning, collapsing and truncating keep who lies inside whom, however deep the
\* page is.
THEOREM AncestryKeptHolds == Spec => []AncestryKept
<1>1. IInv => AncestryKept
  BY PartNesting DEF IInv, TypeOK, TreeIsPart, AncestryKept
<1> QED BY <1>1, Invariant, PTL

\* A persisted tap target is what find_text acts on, or a container on the way
\* to it, when no two elements share a ref.
THEOREM TapTargetHolds == Spec => []TapTargetIsNearest
<1>1. IInv => TapTargetIsNearest
  <2> SUFFICES ASSUME IInv, pc = "done", ~Collide, NEW n \in DOMAIN up, target[n] # NoRef
               PROVE  LET t == RefMap(target[n])
                      IN  /\ t \in Above(up, n)
                          /\ TextTarget(n) # t =>
                               /\ ~Actionable(t)
                               /\ TextTarget(n) # 0 => TextTarget(n) \in Above(up, t)
    BY DEF TapTargetIsNearest
  <2> DEFINE t == NearestRef(n)
  <2>1. n \in TextTargets
    BY DEF TextTargets
  <2>2. RefMap(target[n]) = t /\ IsLinked(n)
    BY <2>1, TargetHolder, TextTargetIsLinked
  <2>3. t \in Above(up, n) /\ Actors(n) = Actors(t)
    BY <2>2, LinkIs DEF IsLinked
  <2>4. t \in DOMAIN up
    BY <2>3, TreeFacts
  <2> HIDE DEF t
  <2>5. Actionable(t) => TextTarget(n) = t
    <3>1. SUFFICES ASSUME Actionable(t) PROVE TextTarget(t) = t
      BY <2>3, SameActors
    <3>2. t \in Actors(t) /\ \A a \in Actors(t) : a = t \/ a \in Above(up, t)
      BY <3>1 DEF Actors
    <3> QED BY <2>4, <3>2, TextTargetIs
  <2>6. TextTarget(n) # t /\ TextTarget(n) # 0 => TextTarget(n) \in Above(up, t)
    <3>1. SUFFICES ASSUME TextTarget(t) # t, TextTarget(t) # 0 PROVE TextTarget(t) \in Above(up, t)
      BY <2>3, SameActors
    <3>2. Actors(t) # {}
      BY <3>1, NoTextTarget
    <3>3. TextTarget(t) \in Actors(t)
      BY <2>4, <3>2, TextTargetAmong
    <3> QED BY <3>1, <3>3 DEF Actors
  <2> QED BY <2>2, <2>3, <2>5, <2>6
<1> QED BY <1>1, Invariant, PTL

-----------------------------------------------------------------------------
(* Search. *)

\* The ref under which a search reports an element.
Reported(m) == IF ref[m] # NoRef THEN ref[m] ELSE target[m]

LEMMA LinkedInSearch ==
  ASSUME IInv, pc = "done", NEW m \in DOMAIN up, el[m].named, role[m] = "text", ref[m] = NoRef,
         TextTarget(m) # 0
  PROVE  m \in TextTargets
<1>1. Actors(m) # {}
  BY NoTextTarget
<1>2. RefAbove(m) # {}
  BY <1>1 DEF Actors, Actionable, RefAbove
<1>3. IsLinked(m) /\ m \in 1..N
  BY <1>2, TreeFacts DEF IsLinked
<1>4. target[m] = ref[NearestRef(m)]
  BY <1>3 DEF IInv, TargetsLinked, NearestRef
<1> QED BY <1>2, <1>4, LinkIs DEF TextTargets

LEMMA CarrierReported ==
  ASSUME IInv, pc = "done", NEW q, NEW m \in Carriers(q), TextTarget(m) # 0
  PROVE  /\ m \in DOMAIN up /\ Reported(m) \in MatchedRefs(q, AnyRole)
         /\ ref[m] = NoRef => m \in TextTargets
<1>1. m \in DOMAIN up /\ q \in Names(m) /\ (role[m] = "text" \/ Actionable(m)) /\ el[m].named
  BY DEF Carriers, Names
<1>2. CASE ref[m] # NoRef
  <2>1. m \in RefMatches(q, AnyRole)
    BY <1>1, <1>2 DEF RefMatches, Terms
  <2> QED BY <1>1, <1>2, <2>1 DEF Reported, MatchedRefs, SeenRefs
<1>3. CASE ref[m] = NoRef
  <2>1. m \in TextTargets
    BY <1>1, <1>3, LinkedInSearch DEF Actionable
  <2>2. target[m] \in SeenRefs(q, AnyRole) \/ m \in TextMatches(q, AnyRole)
    BY <1>1, <2>1 DEF TextMatches, TextTerms
  <2> QED BY <1>1, <1>3, <2>1, <2>2 DEF Reported, MatchedRefs
<1> QED BY <1>2, <1>3

LEMMA SameReport ==
  ASSUME IInv, pc = "done", ~Collide, NEW m \in DOMAIN up, NEW n \in DOMAIN up,
         ref[m] = NoRef => m \in TextTargets, ref[n] = NoRef => n \in TextTargets,
         Reported(m) = Reported(n)
  PROVE  TextTarget(m) = TextTarget(n)
<1> DEFINE Holder(e) == IF ref[e] # NoRef THEN e ELSE NearestRef(e)
<1>1. ASSUME NEW e \in DOMAIN up, ref[e] = NoRef => e \in TextTargets
      PROVE  /\ Holder(e) \in DOMAIN up /\ ref[Holder(e)] = Reported(e) /\ ref[Holder(e)] # NoRef
             /\ Actors(e) = Actors(Holder(e))
  <2>1. CASE ref[e] # NoRef
    BY <2>1 DEF Reported
  <2>2. CASE ref[e] = NoRef
    <3>1. IsLinked(e) /\ target[e] = ref[NearestRef(e)]
      BY <1>1, <2>2, TextTargetIsLinked
    <3>2. /\ NearestRef(e) \in DOMAIN up /\ ref[NearestRef(e)] # NoRef
          /\ Actors(e) = Actors(NearestRef(e))
      BY <2>2, <3>1, LinkIs, TreeFacts DEF IsLinked
    <3> QED BY <2>2, <3>1, <3>2 DEF Reported
  <2> QED BY <2>1, <2>2
<1> HIDE DEF Holder
<1>2. Holder(m) = Holder(n)
  BY <1>1 DEF Collide
<1>3. Actors(m) = Actors(n)
  BY <1>1, <1>2
<1> QED BY <1>3, SameActors

LEMMA MatchedRefsFinite ==
  ASSUME IInv, NEW q, NEW r
  PROVE  IsFiniteSet(MatchedRefs(q, r))
<1> DEFINE f == [n \in 1..N |-> ref[n]]
           g == [n \in 1..N |-> target[n]]
           F == {f[n] : n \in 1..N}
           G == {g[n] : n \in 1..N}
<1>1. IsFiniteSet(1..N)
  BY NAssumption, FS_Interval
<1>2. f \in Surjection(1..N, F) /\ g \in Surjection(1..N, G)
  BY DEF Surjection
<1>3. IsFiniteSet(F) /\ IsFiniteSet(G)
  <2> HIDE DEF f, g, F, G
  <2> QED BY <1>1, <1>2, FS_Surjection
<1>4. MatchedRefs(q, r) \in SUBSET (F \cup G)
  <2>1. \A n \in DOMAIN up : ref[n] \in F /\ target[n] \in G
    BY TreeFacts
  <2> HIDE DEF F, G
  <2> QED BY <2>1 DEF MatchedRefs, SeenRefs, RefMatches, TextMatches, TextTargets
<1>5. IsFiniteSet(F \cup G)
  <2> HIDE DEF F, G
  <2> QED BY <1>3, FS_Union
<1> HIDE DEF F, G
<1> QED BY <1>4, <1>5, FS_Subset

LEMMA TwoIn ==
  ASSUME NEW S, NEW x \in S, NEW y \in S, x # y, IsFiniteSet(S)
  PROVE  Cardinality(S) > 1
<1>1. Cardinality(S) \in Nat /\ Cardinality(S) # 0 /\ Cardinality(S) # 1
  BY FS_CardinalityType, FS_EmptySet, FS_Singleton
<1> QED BY <1>1

LEMMA TwoOf ==
  ASSUME NEW S, Cardinality(S) > 1
  PROVE  \E x, y \in S : x # y
<1>1. S # {} /\ \A x : S # {x}
  BY FS_EmptySet, FS_Singleton
<1> QED BY <1>1

\* A label that is shown is found, a text that another element is tapped for is
\* found whatever role is asked for, and a label with two targets is reported as
\* ambiguous, on screens of any size.
THEOREM SearchTellsAllHolds == Spec => []SearchTellsAll
<1>1. IInv => SearchTellsAll
  <2> SUFFICES ASSUME IInv, pc = "done", NEW q \in Labels
               PROVE  /\ (\E n \in Shown : q \in Names(n)) => Found(q, AnyRole) # {}
                      /\ \A m \in Carriers(q), r \in Roles :
                           role[m] = "text" /\ ref[m] = NoRef /\ TextTarget(m) # 0 => Found(q, r) # {}
                      /\ ~Collide /\ Cardinality({TextTarget(m) : m \in Carriers(q)} \ {0}) > 1
                           => Ambiguous(q, AnyRole)
    BY DEF SearchTellsAll
  <2>1. ASSUME NEW n \in Shown, q \in Names(n)
        PROVE  Found(q, AnyRole) # {}
    <3>1. CASE RefMatches(q, AnyRole) \cup TextMatches(q, AnyRole) # {}
      BY <3>1 DEF Found
    <3>2. CASE RefMatches(q, AnyRole) \cup TextMatches(q, AnyRole) = {}
      <4>1. n \in LineMatches(q, AnyRole)
        BY <2>1, <3>2 DEF LineMatches, LinesAllowed, Terms
      <4> QED BY <4>1 DEF Found
    <3> QED BY <3>1, <3>2
  <2>2. ASSUME NEW m \in Carriers(q), NEW r \in Roles,
               role[m] = "text", ref[m] = NoRef, TextTarget(m) # 0
        PROVE  Found(q, r) # {}
    <3>1. m \in DOMAIN up /\ el[m].named /\ q \in Names(m)
      BY DEF Carriers, Names
    <3>2. m \in TextTargets
      BY <2>2, <3>1, LinkedInSearch
    <3>3. target[m] \in SeenRefs(q, r) \/ m \in TextMatches(q, r)
      BY <3>1, <3>2 DEF TextMatches, TextTerms
    <3> QED BY <3>3 DEF Found, SeenRefs
  <2>3. ASSUME ~Collide, Cardinality({TextTarget(m) : m \in Carriers(q)} \ {0}) > 1
        PROVE  Ambiguous(q, AnyRole)
    <3> DEFINE T == {TextTarget(m) : m \in Carriers(q)} \ {0}
    <3>1. PICK x, y \in T : x # y
      <4> HIDE DEF T
      <4>1. Cardinality(T) > 1
        BY <2>3 DEF T
      <4> QED BY <4>1, TwoOf
    <3>2. PICK m \in Carriers(q) : x = TextTarget(m) /\ x # 0
      OBVIOUS
    <3>3. PICK n \in Carriers(q) : y = TextTarget(n) /\ y # 0
      OBVIOUS
    <3> HIDE DEF T
    <3>4. /\ m \in DOMAIN up /\ Reported(m) \in MatchedRefs(q, AnyRole)
          /\ ref[m] = NoRef => m \in TextTargets
          /\ n \in DOMAIN up /\ Reported(n) \in MatchedRefs(q, AnyRole)
          /\ ref[n] = NoRef => n \in TextTargets
      BY <3>2, <3>3, CarrierReported
    <3>5. Reported(m) # Reported(n)
      BY <2>3, <3>1, <3>2, <3>3, <3>4, SameReport
    <3> QED BY <3>4, <3>5, MatchedRefsFinite, TwoIn DEF Ambiguous
  <2> QED BY <2>1, <2>2, <2>3
<1> QED BY <1>1, Invariant, PTL

-----------------------------------------------------------------------------
(* Labels. *)

\* A text that is not inside another operable element belongs to the label.
LEMMA LabelTapsHere ==
  ASSUME IInv, NEW n \in DOMAIN up, Actionable(n), NEW m \in DOMAIN up,
         n \in Above(up, m), role[m] = "text",
         \A a \in Above(up, m) : n \in Above(up, a) => ~Actionable(a)
  PROVE  TextTarget(m) = n
<1>1. Forest(up) /\ n \in Nat /\ \A a \in Above(up, m) : a \in Nat
  BY TreeFacts
<1>2. n \in Actors(m)
  BY DEF Actors
<1>3. ASSUME NEW a \in Actors(m), a # n
      PROVE  a \in Above(up, n)
  <2>1. a \in Above(up, m) /\ Actionable(a)
    BY DEF Actors, Actionable, ACTIONABLE_ROLES
  <2>2. a < n \/ n < a
    BY <1>1, <1>3, <2>1
  <2>3. n < a => n \in Above(up, a)
    BY <1>1, <2>1, AboveChain
  <2>4. a < n => a \in Above(up, n)
    BY <1>1, <2>1, AboveChain
  <2> QED BY <2>1, <2>2, <2>3, <2>4
<1> QED BY <1>2, <1>3, TextTargetIs

\* A label is made of texts that a tap by text sends to the element labelled,
\* and an element that is the tap target of a near text has a label and a line,
\* on screens of any size and nesting of any depth.
THEOREM LabelsHold == Spec => []LabelsNameTheirTarget
<1>1. IInv => LabelsNameTheirTarget
  <2> SUFFICES ASSUME IInv, pc = "done", ~Collide PROVE LabelsNameTheirTarget
    BY DEF LabelsNameTheirTarget
  <2>0. /\ Forest(up) /\ DOMAIN up \subseteq 1..N
        /\ \A n \in DOMAIN up : \A a \in Above(up, n) : a \in DOMAIN up /\ a \in Nat /\ n \in Nat /\ a < n
    BY TreeFacts
  <2>1. ASSUME NEW n \in Records, NEW m \in LabelSources(n)
        PROVE  TextTarget(m) = n
    <3>0. n \in DOMAIN up /\ Actionable(n)
      BY DEF Records
    <3>1. CASE m = n
      <4>1. n \in Actors(n) /\ \A a \in Actors(n) : a = n \/ a \in Above(up, n)
        BY <3>0 DEF Actors
      <4> QED BY <3>0, <3>1, <4>1, TextTargetIs
    <3>2. CASE m \in DirectTexts(n)
      <4>1. m \in DOMAIN up /\ up[m] = n /\ role[m] = "text" /\ n # 0
        BY <2>0, <3>0, <3>2 DEF DirectTexts, Children
      <4>2. Above(up, m) = {n} \cup Above(up, n)
        BY <2>0, <4>1, AboveIs
      <4>3. \A a \in Above(up, m) : n \notin Above(up, a)
        BY <2>0, <3>0, <4>2, AboveTransitive
      <4> QED BY <3>0, <4>1, <4>2, <4>3, LabelTapsHere
    <3>3. CASE m \in CollectedTexts(n)
      <4>1. /\ m \in DOMAIN up /\ role[m] = "text" /\ n \in Above(up, m)
            /\ \A a \in Within(n) \cap Above(up, m) : ~Operable(a)
        BY <3>3 DEF CollectedTexts, Within, Subtree
      <4>2. \A a \in Above(up, m) : n \in Above(up, a) => a \in Within(n)
        BY <2>0, <4>1 DEF Within, Subtree
      <4>3. \A a \in Above(up, m) : n \in Above(up, a) => ~Actionable(a)
        BY <4>1, <4>2 DEF Operable
      <4> QED BY <3>0, <4>1, <4>3, LabelTapsHere
    <3> QED BY <3>0, <3>1, <3>2, <3>3 DEF LabelSources
  <2>2. ASSUME NEW m \in TextTargets, Actionable(NearestRef(m))
        PROVE  NearestRef(m) \in Lines /\ (Near(m, NearestRef(m)) => LabelOf(NearestRef(m)) # {})
    <3> DEFINE t == NearestRef(m)
    <3>1. m \in DOMAIN up /\ IsLinked(m)
      BY <2>2, TextTargetIsLinked
    <3>2. /\ t \in Above(up, m)
          /\ \A a \in Above(up, m) : ref[a] # NoRef => a = t \/ a \in Above(up, t)
      BY <3>1, LinkIs DEF IsLinked
    <3>3. t \in DOMAIN up /\ Actionable(t)
      BY <2>0, <2>2, <3>1, <3>2
    <3> HIDE DEF t
    <3>4. t \in Lines
      BY <3>3 DEF Lines, Subtree, Operable
    <3>5. ASSUME NEW a \in DOMAIN up, ref[a] = NoRef
          PROVE  ~Operable(a)
      <4>1. ~NeedsRef(a)
        BY <2>0, <3>5 DEF IInv, RefsAssigned
      <4> QED BY <3>5, <4>1 DEF NeedsRef, Operable, Actionable
    <3>6. ASSUME NEW a \in Within(t) \cap Above(up, m)
          PROVE  ~Operable(a)
      <4>1. a \in DOMAIN up /\ t \in Above(up, a) /\ t < a /\ t \in Nat /\ a \in Nat
        BY <2>0 DEF Within, Subtree
      <4>2. a # t /\ a \notin Above(up, t)
        BY <2>0, <3>3, <4>1
      <4> QED BY <3>2, <3>5, <4>1, <4>2
    <3>7. ASSUME Near(m, t), ~el[t].named
          PROVE  m \in CollectedTexts(t)
      <4>1. m \in Within(t)
        BY <2>0, <3>1, <3>2 DEF Within, Subtree
      <4>2. role[m] = "text" /\ el[m].named /\ ~Operable(m)
        BY <3>1, <3>5 DEF IsLinked
      <4> QED BY <3>6, <3>7, <4>1, <4>2 DEF CollectedTexts, Near
    <3>8. Near(m, t) => LabelSources(t) # {}
      BY <3>3, <3>7 DEF LabelSources
    <3> QED BY <3>4, <3>8 DEF LabelOf, t
  <2>3. \A m \in TextTargets : RefMap(target[m]) = NearestRef(m)
    BY TargetHolder
  <2> QED BY <2>1, <2>2, <2>3 DEF LabelsNameTheirTarget
<1> QED BY <1>1, Invariant, PTL
=============================================================================
