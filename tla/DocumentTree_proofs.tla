------------------------- MODULE DocumentTree_proofs -------------------------
(***************************************************************************)
(* Lemmas about the ancestors of the elements of a tree, for trees of any  *)
(* size, and about keeping some of the elements of a tree.                 *)
(***************************************************************************)
EXTENDS DocumentTree, FiniteSetTheorems, TLAPS

\* Every set of naturals that is not empty has a least element: its initial
\* segments are finite sets, which strict inclusion orders well.
LEMMA LeastOfNaturals ==
  ASSUME NEW S \in SUBSET Nat, S # {}
  PROVE  \E n \in S : \A m \in S : n <= m
<1> DEFINE Segments == {0..n : n \in S}
           R == StrictSubsetOrdering(Nat)
<1>1. Segments # {} /\ Segments \subseteq FiniteSubsetsOf(Nat)
  <2>1. \A n \in S : 0..n \in FiniteSubsetsOf(Nat)
    BY FS_Interval DEF FiniteSubsetsOf
  <2> QED BY <2>1
<1>2. PICK T \in Segments : \A U \in Segments : <<U, T>> \notin R
  <2>1. IsWellFoundedOn(R, FiniteSubsetsOf(Nat))
    BY FS_StrictSubsetOrderingWellFounded
  <2> HIDE DEF R, Segments
  <2> QED BY <1>1, <2>1, WFMin
<1>3. PICK n \in S : T = 0..n
  BY <1>2
<1>4. ASSUME NEW m \in S, m < n
      PROVE  FALSE
  <2>1. 0..m \subseteq 0..n /\ n \in 0..n /\ n \notin 0..m
    BY <1>4
  <2>2. <<0..m, T>> \in R
    BY <1>3, <2>1 DEF StrictSubsetOrdering
  <2> QED BY <1>2, <2>2
<1> QED BY <1>4

-----------------------------------------------------------------------------
(* Ancestors. *)

\* Parents come earlier, so there is no cycle.
Forest(up) ==
  /\ DOMAIN up \subseteq Nat \ {0}
  /\ \A n \in DOMAIN up : up[n] = 0 \/ (up[n] \in DOMAIN up /\ up[n] < n)

IsAbove(up, above) ==
  above = [e \in DOMAIN up |-> IF up[e] = 0 THEN {} ELSE {up[e]} \cup above[up[e]]]

\* A set that holds the parent of e, and the parents of its elements.
UpTo(up, e, S) ==
  /\ up[e] # 0 => up[e] \in S
  /\ \A x \in S : up[x] # 0 => up[x] \in S

Ancestors(up, e) == {a \in DOMAIN up : \A S \in SUBSET DOMAIN up : UpTo(up, e, S) => a \in S}

\* The recursive definition of Above has a solution.
LEMMA AboveExists ==
  ASSUME NEW up, Forest(up)
  PROVE  \E above : IsAbove(up, above)
<1> DEFINE above == [e \in DOMAIN up |-> Ancestors(up, e)]
<1>1. ASSUME NEW e \in DOMAIN up, up[e] = 0
      PROVE  Ancestors(up, e) = {}
  <2>1. UpTo(up, e, {}) /\ {} \in SUBSET DOMAIN up
    BY <1>1 DEF UpTo
  <2> QED BY <2>1 DEF Ancestors
<1>2. ASSUME NEW e \in DOMAIN up, up[e] # 0
      PROVE  Ancestors(up, e) = {up[e]} \cup Ancestors(up, up[e])
  <2> DEFINE p == up[e]
  <2>0. p \in DOMAIN up
    BY <1>2 DEF Forest
  <2>1. ASSUME NEW S \in SUBSET DOMAIN up, UpTo(up, e, S)
        PROVE  p \in S /\ UpTo(up, p, S)
    BY <1>2, <2>1 DEF UpTo
  <2>2. {p} \cup Ancestors(up, p) \subseteq Ancestors(up, e)
    BY <2>0, <2>1 DEF Ancestors
  <2>3. UpTo(up, e, {p} \cup Ancestors(up, p))
    <3>1. up[p] # 0 => up[p] \in Ancestors(up, p)
      BY <2>0 DEF Forest, Ancestors, UpTo
    <3>2. ASSUME NEW x \in Ancestors(up, p), up[x] # 0
          PROVE  up[x] \in Ancestors(up, p)
      <4>1. x \in DOMAIN up /\ up[x] \in DOMAIN up
        BY <3>2 DEF Ancestors, Forest
      <4>2. ASSUME NEW S \in SUBSET DOMAIN up, UpTo(up, p, S)
            PROVE  up[x] \in S
        BY <3>2, <4>2 DEF Ancestors, UpTo
      <4> QED BY <4>1, <4>2 DEF Ancestors
    <3> QED BY <3>1, <3>2 DEF UpTo
  <2>4. {p} \cup Ancestors(up, p) \subseteq DOMAIN up
    BY <2>0 DEF Ancestors
  <2>5. Ancestors(up, e) \subseteq {p} \cup Ancestors(up, p)
    BY <2>3, <2>4 DEF Ancestors
  <2> QED BY <2>2, <2>5
<1>3. \A e \in DOMAIN up : up[e] # 0 => up[e] \in DOMAIN up
  BY DEF Forest
<1>4. IsAbove(up, above)
  BY <1>1, <1>2, <1>3 DEF IsAbove
<1> QED BY <1>4

\* The ancestors of an element are its parent and those of its parent.
LEMMA AboveIs ==
  ASSUME NEW up, Forest(up), NEW n \in DOMAIN up
  PROVE  /\ up[n] = 0 => Above(up, n) = {}
         /\ up[n] # 0 => Above(up, n) = {up[n]} \cup Above(up, up[n])
<1> DEFINE above == CHOOSE g : IsAbove(up, g)
<1>1. IsAbove(up, above)
  BY AboveExists
<1>2. \A m : Above(up, m) = above[m]
  BY DEF Above, IsAbove
<1>3. up[n] # 0 => up[n] \in DOMAIN up
  BY DEF Forest
<1> HIDE DEF above
<1>4. above[n] = IF up[n] = 0 THEN {} ELSE {up[n]} \cup above[up[n]]
  BY <1>1 DEF IsAbove
<1> QED BY <1>2, <1>3, <1>4

\* Induction from parents to children.
LEMMA Downward ==
  ASSUME NEW up, Forest(up), NEW S \in SUBSET DOMAIN up,
         \A n \in DOMAIN up : (up[n] # 0 => up[n] \in S) => n \in S
  PROVE  S = DOMAIN up
<1>1. SUFFICES ASSUME DOMAIN up \ S # {} PROVE FALSE
  OBVIOUS
<1>2. DOMAIN up \ S \subseteq Nat
  BY DEF Forest
<1>3. PICK n \in DOMAIN up \ S : \A m \in DOMAIN up \ S : n <= m
  BY <1>1, <1>2, LeastOfNaturals
<1>4. up[n] # 0 => up[n] \in DOMAIN up /\ up[n] < n /\ n \in Nat /\ up[n] \in Nat
  BY <1>3 DEF Forest
<1> QED BY <1>3, <1>4

LEMMA AboveBefore ==
  ASSUME NEW up, Forest(up), NEW n \in DOMAIN up, NEW a \in Above(up, n)
  PROVE  a \in DOMAIN up /\ a \in Nat /\ n \in Nat /\ a < n
<1> DEFINE S == {e \in DOMAIN up : \A x \in Above(up, e) : x \in DOMAIN up /\ x < e}
<1>1. ASSUME NEW e \in DOMAIN up, up[e] # 0 => up[e] \in S
      PROVE  e \in S
  <2>1. CASE up[e] = 0
    BY <2>1, AboveIs
  <2>2. CASE up[e] # 0
    <3>1. up[e] \in DOMAIN up /\ up[e] < e /\ up[e] \in Nat /\ e \in Nat /\ DOMAIN up \subseteq Nat
      BY <2>2 DEF Forest
    <3>2. \A x \in Above(up, up[e]) : x \in DOMAIN up /\ x < e
      BY <1>1, <2>2, <3>1
    <3> QED BY <2>2, <3>1, <3>2, AboveIs
  <2> QED BY <2>1, <2>2
<1>2. S = DOMAIN up
  <2> HIDE DEF S
  <2>1. S \in SUBSET DOMAIN up
    BY DEF S
  <2> QED BY <1>1, <2>1, Downward
<1> QED BY <1>2 DEF Forest

LEMMA AboveTransitive ==
  ASSUME NEW up, Forest(up), NEW n \in DOMAIN up, NEW a, NEW b,
         b \in Above(up, n), a \in Above(up, b)
  PROVE  a \in Above(up, n)
<1> DEFINE S == {e \in DOMAIN up : b \in Above(up, e) => a \in Above(up, e)}
<1>1. ASSUME NEW e \in DOMAIN up, up[e] # 0 => up[e] \in S
      PROVE  e \in S
  BY <1>1, AboveIs
<1>2. S = DOMAIN up
  <2> HIDE DEF S
  <2>1. S \in SUBSET DOMAIN up
    BY DEF S
  <2> QED BY <1>1, <2>1, Downward
<1> QED BY <1>2

\* The ancestors of an element are a chain.
LEMMA AboveChain ==
  ASSUME NEW up, Forest(up), NEW n \in DOMAIN up,
         NEW a \in Above(up, n), NEW b \in Above(up, n), a < b
  PROVE  a \in Above(up, b)
<1> DEFINE S == {e \in DOMAIN up : a \in Above(up, e) /\ b \in Above(up, e) => a \in Above(up, b)}
<1>1. ASSUME NEW e \in DOMAIN up, up[e] # 0 => up[e] \in S
      PROVE  e \in S
  <2>1. SUFFICES ASSUME a \in Above(up, e), b \in Above(up, e)
                 PROVE  a \in Above(up, b)
    OBVIOUS
  <2>2. up[e] # 0 /\ up[e] \in DOMAIN up /\ up[e] \in S
    BY <1>1, <2>1, AboveIs DEF Forest
  <2>3. CASE b = up[e]
    <3>1. a # up[e]
      BY <2>3, AboveBefore
    <3> QED BY <2>1, <2>2, <2>3, <3>1, AboveIs
  <2>4. CASE b # up[e]
    <3>1. b \in Above(up, up[e])
      BY <2>1, <2>2, <2>4, AboveIs
    <3>2. a # up[e]
      <4>1. b < up[e] /\ b \in Nat /\ up[e] \in Nat
        BY <2>2, <3>1, AboveBefore
      <4>2. a \in Nat
        BY AboveBefore
      <4> QED BY <4>1, <4>2
    <3> QED BY <2>1, <2>2, <3>1, <3>2, AboveIs
  <2> QED BY <2>3, <2>4
<1>2. S = DOMAIN up
  <2> HIDE DEF S
  <2>1. S \in SUBSET DOMAIN up
    BY DEF S
  <2> QED BY <1>1, <2>1, Downward
<1> QED BY <1>2

-----------------------------------------------------------------------------
(* The last and the first of a set of elements. *)

LEMMA LastOfIs ==
  ASSUME NEW S \in SUBSET Nat, NEW k \in Nat, \A n \in S : n <= k, S # {}
  PROVE  LastOf(S) \in S /\ \A m \in S : m <= LastOf(S)
<1>1. PICK d \in {k - n : n \in S} : \A x \in {k - n : n \in S} : d <= x
  <2>1. \A n \in S : k - n \in Nat
    OBVIOUS
  <2>2. {k - n : n \in S} # {} /\ {k - n : n \in S} \in SUBSET Nat
    BY <2>1
  <2> QED BY <2>2, LeastOfNaturals
<1>2. PICK n \in S : d = k - n
  BY <1>1
<1>3. \A m \in S : m <= n
  BY <1>1, <1>2
<1> QED BY <1>3 DEF LastOf

LEMMA FirstOfIs ==
  ASSUME NEW S \in SUBSET Nat, S # {}
  PROVE  FirstOf(S) \in S /\ \A m \in S : FirstOf(S) <= m
BY LeastOfNaturals DEF FirstOf

LEMMA LastOfUnique ==
  ASSUME NEW S \in SUBSET Nat, NEW n \in S, \A m \in S : m <= n
  PROVE  LastOf(S) = n
<1>1. LastOf(S) \in S /\ \A m \in S : m <= LastOf(S)
  BY DEF LastOf
<1>2. LastOf(S) \in Nat /\ n \in Nat /\ LastOf(S) <= n /\ n <= LastOf(S)
  BY <1>1
<1> QED BY <1>2

LEMMA LastOfOne ==
  ASSUME NEW n \in Nat
  PROVE  LastOf({n}) = n
BY DEF LastOf

\* Ancestors have a last one.
LEMMA LastAbove ==
  ASSUME NEW up, Forest(up), NEW n \in DOMAIN up, NEW S \in SUBSET Above(up, n), S # {}
  PROVE  /\ LastOf(S) \in S
         /\ \A a \in S : a # LastOf(S) => a \in Above(up, LastOf(S))
<1>1. /\ \A a \in S : a \in Nat /\ a < n /\ a <= n
      /\ n \in Nat
  BY AboveBefore
<1>2. S \in SUBSET Nat
  BY <1>1
<1>3. LastOf(S) \in S /\ \A m \in S : m <= LastOf(S)
  BY <1>1, <1>2, LastOfIs
<1>4. ASSUME NEW a \in S, a # LastOf(S)
      PROVE  a \in Above(up, LastOf(S))
  <2>1. a < LastOf(S)
    BY <1>1, <1>3, <1>4
  <2> QED BY <1>3, <2>1, AboveChain
<1> QED BY <1>3, <1>4

-----------------------------------------------------------------------------
(* A tree that keeps some of the elements of another, each under the nearest  *)
(* of its ancestors that may have children, keeps who lies in whom.           *)

Nearest(S) == IF S = {} THEN 0 ELSE LastOf(S)

LEMMA ParentIsNearest ==
  ASSUME NEW up, Forest(up), NEW n \in DOMAIN up
  PROVE  up[n] = Nearest(Above(up, n))
<1>1. CASE up[n] = 0
  BY <1>1, AboveIs DEF Nearest
<1>2. CASE up[n] # 0
  <2>1. Above(up, n) = {up[n]} \cup Above(up, up[n]) /\ up[n] \in DOMAIN up
    BY <1>2, AboveIs DEF Forest
  <2>2. \A a \in Above(up, n) : a \in Nat /\ a <= up[n]
    BY <2>1, AboveBefore
  <2>3. LastOf(Above(up, n)) = up[n]
    <3> DEFINE S == Above(up, n)
    <3>1. S \in SUBSET Nat /\ up[n] \in S /\ \A m \in S : m <= up[n]
      BY <2>1, <2>2
    <3> HIDE DEF S
    <3>2. LastOf(S) = up[n]
      BY <3>1, LastOfUnique
    <3> QED BY <3>2 DEF S
  <2> QED BY <2>1, <2>3 DEF Nearest
<1> QED BY <1>1, <1>2

\* The way down to an element leads through a child.
LEMMA ChildTowards ==
  ASSUME NEW up, Forest(up), NEW n \in DOMAIN up, NEW a \in Above(up, n)
  PROVE  \E c \in Children(up, a) : c = n \/ c \in Above(up, n)
<1> DEFINE S == {e \in DOMAIN up : a \in Above(up, e) =>
                   \E c \in Children(up, a) : c = e \/ c \in Above(up, e)}
<1>1. ASSUME NEW e \in DOMAIN up, up[e] # 0 => up[e] \in S
      PROVE  e \in S
  <2>1. SUFFICES ASSUME a \in Above(up, e)
                 PROVE  \E c \in Children(up, a) : c = e \/ c \in Above(up, e)
    OBVIOUS
  <2>2. /\ up[e] # 0 /\ up[e] \in S
        /\ Above(up, e) = {up[e]} \cup Above(up, up[e])
    BY <1>1, <2>1, AboveIs
  <2>3. CASE a = up[e]
    BY <2>3 DEF Children
  <2>4. CASE a # up[e]
    BY <2>1, <2>2, <2>4
  <2> QED BY <2>3, <2>4
<1>2. S = DOMAIN up
  <2> HIDE DEF S
  <2>1. S \in SUBSET DOMAIN up
    BY DEF S
  <2> QED BY <1>1, <2>1, Downward
<1> QED BY <1>2

\* When the sets over its elements grow and nest as ancestors do, and each
\* element is put under the last of them, they are the ancestors.
LEMMA NearestParents ==
  ASSUME NEW sub, DOMAIN sub \subseteq Nat \ {0},
         NEW over \in [DOMAIN sub -> SUBSET DOMAIN sub],
         \A n \in DOMAIN sub : sub[n] = Nearest(over[n]),
         \A n \in DOMAIN sub : \A a \in over[n] : a < n,
         \A n \in DOMAIN sub : \A b \in over[n] : \A a \in over[b] : a \in over[n],
         \A n \in DOMAIN sub : \A a, b \in over[n] : a < b => a \in over[b]
  PROVE  /\ Forest(sub)
         /\ \A n \in DOMAIN sub : Above(sub, n) = over[n]
<1>1. ASSUME NEW n \in DOMAIN sub, sub[n] # 0
      PROVE  /\ sub[n] \in over[n] /\ sub[n] \in DOMAIN sub /\ sub[n] < n
             /\ over[n] = {sub[n]} \cup over[sub[n]]
  <2>1. over[n] # {} /\ sub[n] = LastOf(over[n]) /\ n \in Nat
    BY <1>1 DEF Nearest
  <2>2. over[n] \in SUBSET Nat /\ over[n] \in SUBSET DOMAIN sub /\ \A a \in over[n] : a <= n
    <3>1. \A a \in over[n] : a \in Nat /\ a < n
      OBVIOUS
    <3> QED BY <2>1, <3>1
  <2>3. sub[n] \in over[n] /\ \A a \in over[n] : a <= sub[n]
    <3> DEFINE S == over[n]
    <3>1. S \in SUBSET Nat /\ (\A a \in S : a <= n) /\ n \in Nat /\ S # {} /\ sub[n] = LastOf(S)
      BY <2>1, <2>2
    <3> HIDE DEF S
    <3>2. sub[n] \in S /\ \A a \in S : a <= sub[n]
      BY ONLY <3>1, LastOfIs
    <3> QED BY <3>2 DEF S
  <2>4. \A a \in over[n] : a # sub[n] => a \in over[sub[n]]
    <3>1. \A a \in over[n] : a # sub[n] => a < sub[n]
      BY <2>2, <2>3
    <3> QED BY <2>3, <3>1
  <2> QED BY <2>2, <2>3, <2>4
<1>2. ASSUME NEW n \in DOMAIN sub, sub[n] = 0
      PROVE  over[n] = {}
  <2>1. SUFFICES ASSUME over[n] # {} PROVE FALSE
    OBVIOUS
  <2>2. over[n] \in SUBSET Nat /\ n \in Nat /\ \A a \in over[n] : a <= n
    <3>1. n \in Nat /\ \A a \in over[n] : a \in Nat /\ a < n
      OBVIOUS
    <3> QED BY <3>1
  <2>3. LastOf(over[n]) \in over[n]
    BY <2>1, <2>2, LastOfIs
  <2> QED BY <1>2, <2>1, <2>3 DEF Nearest
<1>3. Forest(sub)
  BY <1>1 DEF Forest
<1> DEFINE S == {n \in DOMAIN sub : Above(sub, n) = over[n]}
<1>4. ASSUME NEW n \in DOMAIN sub, sub[n] # 0 => sub[n] \in S
      PROVE  n \in S
  <2>1. CASE sub[n] = 0
    BY <1>2, <1>3, <2>1, AboveIs
  <2>2. CASE sub[n] # 0
    <3>1. Above(sub, sub[n]) = over[sub[n]]
      BY <1>4, <2>2
    <3>2. Above(sub, n) = {sub[n]} \cup Above(sub, sub[n])
      BY <1>3, <2>2, AboveIs
    <3> QED BY <1>1, <2>2, <3>1, <3>2
  <2> QED BY <2>1, <2>2
<1>5. S = DOMAIN sub
  <2> HIDE DEF S
  <2>1. S \in SUBSET DOMAIN sub
    BY DEF S
  <2> QED BY <1>3, <1>4, <2>1, Downward
<1> QED BY <1>3, <1>5

\* Elements of a tree, put under the nearest of their ancestors that is kept.
LEMMA Contraction ==
  ASSUME NEW up, Forest(up), NEW sub, DOMAIN sub \subseteq DOMAIN up,
         NEW K \in SUBSET DOMAIN sub,
         \A n \in DOMAIN sub : sub[n] = Nearest(Above(up, n) \cap K)
  PROVE  /\ Forest(sub)
         /\ \A n \in DOMAIN sub : Above(sub, n) = Above(up, n) \cap K
<1> DEFINE over == [n \in DOMAIN sub |-> Above(up, n) \cap K]
<1>1. DOMAIN sub \subseteq Nat \ {0} /\ over \in [DOMAIN sub -> SUBSET DOMAIN sub]
  BY DEF Forest
<1>2. /\ \A n \in DOMAIN sub : sub[n] = Nearest(over[n])
      /\ \A n \in DOMAIN sub : \A a \in over[n] : a < n
  BY AboveBefore
<1>3. \A n \in DOMAIN sub : \A b \in over[n] : \A a \in over[b] : a \in over[n]
  BY AboveTransitive
<1>4. \A n \in DOMAIN sub : \A a, b \in over[n] : a < b => a \in over[b]
  BY AboveChain
<1>5. \A n \in DOMAIN sub : over[n] = Above(up, n) \cap K
  OBVIOUS
<1> HIDE DEF over
<1> QED BY <1>1, <1>2, <1>3, <1>4, <1>5, NearestParents

-----------------------------------------------------------------------------
(* Trees. *)

LEMMA TreeIsForest ==
  ASSUME NEW up \in Trees
  PROVE  Forest(up) /\ DOMAIN up = 1..N
<1>1. \A n \in 1..N : n = 1 \/ n \in 2..N
  BY NAssumption
<1> QED BY <1>1, NAssumption DEF Trees, Forest

\* Everything lies in the root.
LEMMA RootAboveAll ==
  ASSUME NEW up \in Trees, NEW n \in 2..N
  PROVE  1 \in Above(up, n)
<1>0. Forest(up) /\ DOMAIN up = 1..N /\ \A e \in 2..N : up[e] \in 1..(e - 1)
  BY TreeIsForest DEF Trees
<1> DEFINE S == {e \in 1..N : e = 1 \/ 1 \in Above(up, e)}
<1>1. ASSUME NEW e \in DOMAIN up, up[e] # 0 => up[e] \in S
      PROVE  e \in S
  <2>1. CASE e = 1
    BY <1>0, <2>1
  <2>2. CASE e # 1
    <3>1. up[e] # 0 /\ up[e] \in S
      BY <1>0, <1>1, <2>2, NAssumption
    <3>2. Above(up, e) = {up[e]} \cup Above(up, up[e])
      BY <1>0, <3>1, AboveIs
    <3> QED BY <1>0, <3>1, <3>2
  <2> QED BY <2>1, <2>2
<1>2. S = DOMAIN up
  <2> HIDE DEF S
  <2>1. S \in SUBSET DOMAIN up
    BY <1>0 DEF S
  <2> QED BY <1>0, <1>1, <2>1, Downward
<1>3. n \in S /\ n # 1
  <2> HIDE DEF S
  <2>1. n \in DOMAIN up /\ n # 1
    BY <1>0, NAssumption
  <2> QED BY <1>2, <2>1
<1> QED BY <1>3

\* The element after one lies in it, or in what that one lies in.
LEMMA AboveNext ==
  ASSUME NEW up \in Trees, NEW n \in 2..N
  PROVE  Above(up, n) \subseteq {n - 1} \cup Above(up, n - 1)
<1>1. /\ Forest(up) /\ DOMAIN up = 1..N /\ n - 1 \in 1..N
      /\ up[n] \in 1..(n - 1) /\ up[n] \in {n - 1} \cup Above(up, n - 1)
  <2>1. n \in 1..N \ {1} /\ n - 1 \in 1..N
    BY NAssumption
  <2>2. Forest(up) /\ DOMAIN up = 1..N
    BY TreeIsForest
  <2>3. InDocumentOrder(up)
    BY DEF Trees
  <2> QED BY <2>1, <2>2, <2>3 DEF InDocumentOrder
<1>2. Above(up, n) = {up[n]} \cup Above(up, up[n])
  BY <1>1, NAssumption, AboveIs
<1> QED BY <1>1, <1>2, AboveTransitive

\* What follows an element before the end of one it is in is in that one too.
LEMMA AboveSpan ==
  ASSUME NEW up \in Trees, NEW n \in 1..N, NEW b \in 1..N, b < n,
         NEW a \in Above(up, n), a < b
  PROVE  a \in Above(up, b)
<1>0. Forest(up) /\ DOMAIN up = 1..N /\ N \in Nat /\ a \in Nat
  BY TreeIsForest, NAssumption, AboveBefore
<1> DEFINE S == {k \in b..(n - 1) : a \notin Above(up, k)}
<1>1. SUFFICES ASSUME b \in S PROVE FALSE
  BY <1>0
<1>2. S \in SUBSET Nat /\ (\A k \in S : k <= n) /\ n \in Nat
  BY <1>0
<1>3. PICK k \in S : \A m \in S : m <= k
  <2> HIDE DEF S
  <2> QED BY <1>0, <1>1, <1>2, LastOfIs
<1>4. k + 1 \in 2..N /\ (k + 1) - 1 = k /\ a < k /\ (k + 1 = n \/ k + 1 \in b..(n - 1))
  BY <1>0, <1>3
<1>5. a \in Above(up, k + 1)
  BY <1>0, <1>3, <1>4
<1>6. Above(up, k + 1) \subseteq {k} \cup Above(up, k)
  BY <1>4, AboveNext
<1> QED BY <1>0, <1>3, <1>4, <1>5, <1>6
=============================================================================
