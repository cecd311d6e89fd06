---------------------------- MODULE DocumentTree ----------------------------
(***************************************************************************)
(* Trees of at most N elements, numbered in document order from the root   *)
(* 1: a tree is the function from each of its elements to its parent, 0    *)
(* for the root.                                                           *)
(***************************************************************************)
EXTENDS Naturals, FiniteSets, Sequences

CONSTANT N

ASSUME NAssumption == N \in Nat \ {0}

\* Proper ancestors of element n of a tree in document order.
Above(up, n) ==
  LET above[e \in DOMAIN up] ==
        IF up[e] = 0 THEN {} ELSE {up[e]} \cup above[up[e]]
  IN  above[n]

Subtree(up, n) == {e \in DOMAIN up : e = n \/ n \in Above(up, e)}

Children(up, n) == {e \in DOMAIN up : up[e] = n}

Depth(up, n) == Cardinality(Above(up, n))

\* In document order an element follows its parent, or the subtree of an
\* earlier child of its parent.
InDocumentOrder(up) ==
  /\ up[1] = 0
  /\ \A n \in DOMAIN up \ {1} :
       up[n] \in 1..(n - 1) /\ up[n] \in {n - 1} \cup Above(up, n - 1)

Trees == {up \in [1..N -> 0..(N - 1)] : 
            /\ up[1] = 0
            /\ \A n \in 2..N : up[n] \in 1..(n - 1)
            /\ InDocumentOrder(up)}

\* What a ref is derived from; a number may be appended to it.
IsSequence(s) == Len(s) \in Nat /\ s = SubSeq(s, 1, Len(s))

\* The last of a set of elements in document order.
LastOf(S) == CHOOSE n \in S : \A m \in S : m <= n

FirstOf(S) == CHOOSE n \in S : \A m \in S : n <= m
=============================================================================
