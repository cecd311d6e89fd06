---------------------------- MODULE WebTree_proofs ----------------------------
(***************************************************************************)
(* The properties of WebTree for every page, whatever its size, and for    *)
(* all limits: type correctness, unique refs, losses that are said, limits *)
(* that are kept and nesting that is kept.                                 *)
(***************************************************************************)
EXTENDS WebTree, DocumentTree_proofs, SequenceTheorems

-----------------------------------------------------------------------------
(* The inductive invariant. *)

\* Elements are visited in document order.
Ordered ==
  /\ pc = "collect" =>
       /\ seen < at /\ built = {}
       /\ \A n \in entered \cup DOMAIN dom : n < at
  /\ pc = "build" => \A n \in built : n < at

\* Elements that others are put under.
Keepers == {n \in DOMAIN dom : how = "html" \/ IsSemantic(el[n])}

\* Those an element is in: its ancestors, and the void elements left open.
Over ==
  [n \in 1..N |->
     {m \in Keepers : \/ m \in Above(page, n)
                      \/ how = "html" /\ StaysOpen(m) /\ Follows(n, m)}]

\* The parent of a collected element is the last of those it is in.
ParentsAreNearest == \A n \in DOMAIN dom : dom[n] = Nearest(Over[n])

\* What the script has collected is what it has entered, but for the elements
\* that are neither semantic nor hold text.
WalkCollects ==
  how = "script" =>
    /\ DOMAIN dom \subseteq entered
    /\ \A n \in entered : IsSemantic(el[n]) => n \in DOMAIN dom

\* The stack of the parser is a chain of open elements, on which all are that
\* the next one is in, and with a void element the one around it; as long as
\* the limit is not reached, nothing is dropped.
OpenElements ==
  how = "html" /\ pc = "collect" =>
    /\ at = 1 => stack = <<>> /\ DOMAIN dom = {}
    /\ \A i \in 1..Len(stack) : stack[i] \in DOMAIN dom
    /\ \A i, j \in 1..Len(stack) : i < j => stack[i] \in Over[stack[j]]
    /\ \A j \in 1..Len(stack) : StaysOpen(stack[j]) =>
         page[stack[j]] = 1 \/ \E i \in 1..Len(stack) : i < j /\ stack[i] = page[stack[j]]
    /\ at \in 2..N => \A a \in Over[at] : \E i \in 1..Len(stack) : stack[i] = a
    /\ seen < maxNodes => \A n \in 2..(at - 1) : n \in DOMAIN dom

Passed == IF pc = "collect" THEN at - 1 ELSE N

BuildPassed == IF pc = "done" THEN N ELSE at - 1

\* As long as nothing is cut, nothing that has been passed is missing.
NothingMissed ==
  ~cut =>
    /\ how = "script" => \A n \in 1..Passed : Shown(n) => n \in entered
    /\ how = "html" => \A n \in 2..Passed : n \in DOMAIN dom
    /\ omitted = {}
    /\ pc # "collect" => \A n \in DOMAIN dom : n <= BuildPassed => n \in built

\* The document and every rendered element are counted.
Counted ==
  /\ pc # "collect" => Cardinality(Rendered) < count
  /\ \A n \in Rendered : DepthOf(n) <= maxDepth

IInv ==
  /\ TypeOK /\ Ordered /\ ParentsAreNearest /\ WalkCollects /\ OpenElements
  /\ NothingMissed /\ Counted /\ RefsUnique

-----------------------------------------------------------------------------
CollectStep ==
  \/ WalkPast \/ WalkStops \/ WalkEnters
  \/ StartBody \/ EndTag \/ StartTagDropped \/ StartTag

BuildStep == BuildSkips \/ BuildOmits \/ Build

LEMMA PageFacts ==
  ASSUME TypeOK
  PROVE  /\ Forest(page) /\ DOMAIN page = 1..N /\ N \in Nat \ {0}
         /\ \A n \in 1..N : \A a \in Above(page, n) : a \in 1..N /\ a < n
<1>1. Forest(page) /\ DOMAIN page = 1..N /\ N \in Nat \ {0}
  BY TreeIsForest, NAssumption DEF TypeOK
<1> QED BY <1>1, AboveBefore

\* What has been passed is an initial part of the page.
LEMMA VisitedFacts ==
  ASSUME TypeOK, Ordered, pc = "collect"
  PROVE  \A n \in entered \cup DOMAIN dom : n \in 1..N /\ n \in Nat /\ n < at
<1>1. entered \subseteq 1..N /\ DOMAIN dom \subseteq 1..N
  BY DEF TypeOK
<1>2. \A n \in entered \cup DOMAIN dom : n < at
  BY DEF Ordered
<1> QED BY <1>1, <1>2

\* A step that leaves the document alone leaves what is over its elements alone.
LEMMA OverStays ==
  ASSUME UNCHANGED <<how, page, el, dom>>
  PROVE  Over' = Over /\ (ParentsAreNearest => ParentsAreNearest')
<1>1. Keepers' = Keepers
  BY DEF Keepers
<1>2. Over' = Over
  BY <1>1 DEF Over, StaysOpen, Follows
<1> QED BY <1>2 DEF ParentsAreNearest

\* A void element, open or not, is no ancestor.
LEMMA VoidsHoldNothing ==
  ASSUME TypeOK, NEW n \in 1..N, NEW a \in Above(page, n)
  PROVE  el[a].tag \notin VoidTags
<1>0. Forest(page) /\ DOMAIN page = 1..N /\ n \in DOMAIN page
  BY PageFacts
<1>1. PICK c \in Children(page, a) : c = n \/ c \in Above(page, n)
  BY <1>0, ChildTowards
<1>2. c \in 1..N /\ page[c] = a /\ a \in 1..N
  BY <1>0, <1>1, PageFacts DEF Children
<1>3. c \in 2..N
  <2>1. page[1] = 0
    BY DEF TypeOK, Trees
  <2> QED BY <1>2, <2>1
<1> QED BY <1>2, <1>3 DEF TypeOK, VoidsAreEmpty

\* Those an element is in come before it and nest like ancestors.
LEMMA OverNests ==
  ASSUME TypeOK, NEW n \in 1..N
  PROVE  /\ \A a \in Over[n] : a \in DOMAIN dom /\ a \in 1..N /\ a < n
         /\ \A b \in Over[n] : \A a \in Over[b] : a \in Over[n]
         /\ \A a, b \in Over[n] : a < b => a \in Over[b]
<1>0. Forest(page) /\ DOMAIN page = 1..N /\ page \in Trees /\ N \in Nat
  BY PageFacts DEF TypeOK
<1>1. \A k \in 1..N : \A a \in Over[k] : a \in DOMAIN dom /\ a \in 1..N /\ a < k
  <2>1. \A k \in 1..N : \A a \in Over[k] : a \in DOMAIN dom /\ a \in 1..N
    BY DEF Over, Keepers, TypeOK
  <2> QED BY <2>1, PageFacts DEF Over, Follows
<1>2. \A k \in 1..N : \A a \in Above(page, k) : a \in 1..N /\ a < k
  BY PageFacts
<1>3. ASSUME NEW b \in Over[n], NEW a \in Over[b]
      PROVE  a \in Over[n]
  <2>1. b \in 1..N /\ b < n /\ a \in 1..N /\ a < b /\ a < n /\ a \in Keepers
    <3>1. b \in 1..N /\ b < n /\ a \in Keepers
      BY <1>1, <1>3 DEF Over
    <3>2. a \in 1..N /\ a < b
      BY <1>1, <1>3, <3>1
    <3> QED BY <3>1, <3>2
  <2>2. CASE b \in Above(page, n)
    <3>1. \A x \in Above(page, b) : x \in Above(page, n)
      BY <1>0, <2>2, AboveTransitive
    <3> QED BY <1>3, <2>1, <3>1 DEF Over, Follows
  <2>3. CASE how = "html" /\ page[b] \in Above(page, n)
    <3>1. \A x \in Above(page, b) : x \in Above(page, n)
      <4>1. page[b] # 0
        BY <1>2, <2>3
      <4>2. Above(page, b) = {page[b]} \cup Above(page, page[b])
        BY <1>0, <2>1, <4>1, AboveIs
      <4>3. \A x \in Above(page, page[b]) : x \in Above(page, n)
        BY <1>0, <2>3, AboveTransitive
      <4> QED BY <2>3, <4>2, <4>3
    <3> QED BY <1>3, <2>1, <3>1 DEF Over, Follows
  <2> QED BY <1>3, <2>2, <2>3 DEF Over, Follows
<1>4. ASSUME NEW a \in Over[n], NEW b \in Over[n], a < b
      PROVE  a \in Over[b]
  <2>1. b \in 1..N /\ b < n /\ a \in 1..N /\ a \in Keepers
    BY <1>1, <1>4 DEF Over
  <2>2. CASE a \in Above(page, n)
    <3>1. a \in Above(page, b)
      BY <1>0, <1>4, <2>1, <2>2, AboveSpan
    <3> QED BY <2>1, <3>1 DEF Over
  <2>3. CASE how = "html" /\ StaysOpen(a) /\ page[a] \in Above(page, n)
    <3>1. page[a] < b
      <4>1. page[a] \in 1..N
        BY <1>2, <2>3
      <4>2. Above(page, a) = {page[a]} \cup Above(page, page[a])
        BY <1>0, <2>1, <4>1, AboveIs
      <4> QED BY <1>2, <1>4, <2>1, <4>1, <4>2
    <3>2. page[a] \in Above(page, b)
      BY <1>0, <2>1, <2>3, <3>1, AboveSpan
    <3> QED BY <1>4, <2>1, <2>3, <3>2 DEF Over, Follows
  <2> QED BY <1>4, <2>2, <2>3 DEF Over, Follows
<1> QED BY <1>1, <1>3, <1>4

\* Who lies in whom in what is collected.
LEMMA CollectedNesting ==
  ASSUME TypeOK, ParentsAreNearest
  PROVE  /\ Forest(dom)
         /\ \A n \in DOMAIN dom : Above(dom, n) = Over[n]
<1> DEFINE over == [n \in DOMAIN dom |-> Over[n]]
<1>1. DOMAIN dom \subseteq 1..N /\ DOMAIN dom \subseteq Nat \ {0}
  BY PageFacts DEF TypeOK
<1>2. over \in [DOMAIN dom -> SUBSET DOMAIN dom] /\ \A n \in DOMAIN dom : over[n] = Over[n]
  <2>1. \A n \in DOMAIN dom : \A a \in Over[n] : a \in DOMAIN dom
    BY <1>1, OverNests
  <2>2. \A n \in DOMAIN dom : Over[n] \in SUBSET DOMAIN dom
    BY <2>1
  <2> QED BY <2>2
<1>3. /\ \A n \in DOMAIN dom : dom[n] = Nearest(over[n])
      /\ \A n \in DOMAIN dom : \A a \in over[n] : a < n
  BY <1>1, <1>2, OverNests DEF ParentsAreNearest
<1>4. /\ \A n \in DOMAIN dom : \A b \in over[n] : \A a \in over[b] : a \in over[n]
      /\ \A n \in DOMAIN dom : \A a, b \in over[n] : a < b => a \in over[b]
  <2>1. \A n \in DOMAIN dom : \A b \in Over[n] : b \in DOMAIN dom
    BY <1>1, OverNests
  <2> HIDE DEF over
  <2> QED BY <1>1, <1>2, <2>1, OverNests
<1> HIDE DEF over
<1> QED BY <1>1, <1>2, <1>3, <1>4, NearestParents

\* A collected element goes under its nearest ancestor, whichever way it comes.
LEMMA DomGrows ==
  ASSUME TypeOK, Ordered, ParentsAreNearest, pc = "collect", at <= N, UNCHANGED input,
         dom' = [e \in DOMAIN dom \cup {at} |->
                   IF e = at THEN Nearest(Over[at]) ELSE dom[e]]
  PROVE  /\ ParentsAreNearest'
         /\ DOMAIN dom' \subseteq 1..N
         /\ \A n \in DOMAIN dom' : dom'[n] \in DOMAIN dom' \cup {0}
<1>0. /\ at \in 1..N /\ DOMAIN dom' = DOMAIN dom \cup {at} /\ DOMAIN dom' \subseteq 1..N
      /\ \A n \in DOMAIN dom : n \in 1..N /\ n < at
      /\ page' = page /\ how' = how /\ el' = el /\ N \in Nat
  BY PageFacts DEF TypeOK, Ordered, input
<1>1. \A n \in DOMAIN dom' : Over'[n] = Over[n]
  <2>1. Keepers' \subseteq Keepers \cup {at} /\ Keepers \subseteq Keepers'
    BY <1>0 DEF Keepers
  <2>2. \A n \in DOMAIN dom' : at \notin Above(page, n) /\ ~Follows(n, at)
    BY <1>0, PageFacts DEF Follows
  <2>3. \A m, n : StaysOpen(m)' = StaysOpen(m) /\ Follows(n, m)' = Follows(n, m)
    BY <1>0 DEF StaysOpen, Follows
  <2> QED BY <1>0, <2>1, <2>2, <2>3 DEF Over
<1>2. ParentsAreNearest'
  <2>1. \A n \in DOMAIN dom' : dom'[n] = Nearest(Over[n])
    BY <1>0 DEF ParentsAreNearest
  <2> QED BY <1>0, <1>1, <2>1 DEF ParentsAreNearest
<1>3. ASSUME NEW n \in DOMAIN dom'
      PROVE  dom'[n] \in DOMAIN dom' \cup {0}
  <2>1. dom'[n] = Nearest(Over[n])
    BY <1>0 DEF ParentsAreNearest
  <2>2. Over[n] # {} => LastOf(Over[n]) \in Over[n]
    <3> DEFINE S == Over[n]
    <3>1. S \in SUBSET Nat /\ n \in Nat /\ \A a \in S : a <= n
      BY <1>0, OverNests
    <3> HIDE DEF S
    <3>2. S # {} => LastOf(S) \in S
      BY ONLY <3>1, LastOfIs
    <3> QED BY <3>2 DEF S
  <2>3. Over[n] \subseteq DOMAIN dom'
    BY <1>0 DEF Over, Keepers
  <2> QED BY <2>1, <2>2, <2>3 DEF Nearest
<1> QED BY <1>0, <1>2, <1>3

-----------------------------------------------------------------------------
(* Collecting. *)

\* What every step of a collection leaves as it is.
LEMMA CollectFrame ==
  ASSUME TypeOK, CollectStep
  PROVE  /\ pc = "collect" /\ at \in 1..N /\ N \in Nat /\ at' \in {at, at + 1}
         /\ UNCHANGED <<pc, input, buildVars>>
         /\ UNCHANGED <<pc, how, page, el, maxNodes, maxDepth, count, built, omitted, ref, used>>
BY NAssumption DEF CollectStep, TypeOK, WalkPast, WalkStops, WalkEnters, StartBody, EndTag,
   StartTagDropped, StartTag, CanStart, Walking, Parsing, Advance, input, buildVars

\* When an element is opened, everything open is what it is in.
LEMMA OpenIsAround ==
  ASSUME TypeOK, Ordered, OpenElements, CanStart, NEW i \in 1..Len(stack)
  PROVE  stack[i] \in Over[at]
<1>1. /\ how = "html" /\ pc = "collect" /\ at \in 2..N /\ at \in 1..N
      /\ stack[i] \in DOMAIN dom /\ stack[i] \in 1..N /\ stack[i] < at /\ stack[i] \in Keepers
      /\ StaysOpen(stack[i]) \/ stack[i] \in Above(page, at)
  BY NAssumption DEF CanStart, Parsing, OpenElements, Keepers, Over,
     StaysOpen, Follows, Ordered, TypeOK
<1>2. CASE stack[i] \in Above(page, at)
  BY <1>1, <1>2 DEF Over
<1>3. CASE StaysOpen(stack[i])
  <2>1. page[stack[i]] \in Above(page, at)
    <3>1. CASE page[stack[i]] = 1
      BY <1>1, <3>1, RootAboveAll DEF TypeOK
    <3>2. CASE page[stack[i]] # 1
      <4>1. PICK j \in 1..Len(stack) : stack[j] = page[stack[i]]
        BY <1>1, <1>3, <3>2 DEF OpenElements
      <4>2. ~StaysOpen(stack[j])
        <5>1. page[stack[i]] \in 1..N
          BY <1>1, <4>1 DEF OpenElements, TypeOK
        <5>2. page[stack[i]] \in Above(page, stack[i])
          BY <1>1, <5>1, PageFacts, AboveIs
        <5> QED BY <1>1, <4>1, <5>2, VoidsHoldNothing DEF StaysOpen
      <4> QED BY <4>1, <4>2 DEF CanStart
    <3> QED BY <3>1, <3>2
  <2> QED BY <1>1, <1>3, <2>1 DEF Over, Follows
<1> QED BY <1>1, <1>2, <1>3

\* A step adds the element it visits, or none.
LEMMA CollectsOne ==
  ASSUME TypeOK, Ordered, ParentsAreNearest, WalkCollects, OpenElements, CollectStep
  PROVE  \/ UNCHANGED dom
         \/ dom' = [e \in DOMAIN dom \cup {at} |->
                      IF e = at THEN Nearest(Over[at]) ELSE dom[e]]
<1>1. CASE WalkEnters
  <2>1. how = "script" /\ at \in 1..N
    BY <1>1, CollectFrame DEF WalkEnters, Walking
  <2>2. Over[at] = SemanticAbove(at)
    BY <2>1 DEF Over, SemanticAbove, Keepers, WalkCollects
  <2>3. at \notin DOMAIN dom
    BY <2>1, CollectFrame DEF Ordered
  <2>4. Collect(at) = [e \in DOMAIN dom \cup {at} |->
                         IF e = at THEN Nearest(SemanticAbove(at)) ELSE dom[e]]
    BY <2>3 DEF Collect, Nearest
  <2> QED BY <1>1, <2>2, <2>4 DEF WalkEnters
<1>2. CASE StartTag
  <2> DEFINE l == Len(stack)
             S == Over[at]
  <2>1. /\ how = "html" /\ pc = "collect" /\ at \in 2..N /\ at \in 1..N
        /\ stack \in Seq(1..N) /\ l \in Nat
    BY <1>2, CollectFrame, LenProperties DEF StartTag, CanStart, Parsing, TypeOK
  <2>2. \A i \in 1..l : stack[i] \in S
    BY <1>2, OpenIsAround DEF StartTag
  <2>3. Top = Nearest(S)
    <3>1. CASE stack = <<>>
      <4>1. 1..l = {}
        BY <3>1, EmptySeq
      <4>2. S = {}
        BY <2>1, <4>1 DEF OpenElements
      <4> QED BY <3>1, <4>2 DEF Top, Nearest
    <3>2. CASE stack # <<>>
      <4>1. l \in 1..l /\ Top = stack[l] /\ Top \in S
        BY <2>1, <2>2, <3>2, EmptySeq DEF Top
      <4>2. \A a \in S : a \in 1..N
        BY <2>1, OverNests
      <4>3. ASSUME NEW a \in S
            PROVE  a <= Top
        <5>1. PICK i \in 1..l : stack[i] = a
          BY <2>1 DEF OpenElements
        <5>2. i = l \/ stack[i] \in Over[Top]
          BY <2>1, <4>1, <5>1 DEF OpenElements
        <5> QED BY <4>1, <4>2, <5>1, <5>2, OverNests
      <4> HIDE DEF S
      <4>4. LastOf(S) = Top
        <5>1. S \in SUBSET Nat
          BY <4>2
        <5> QED BY <4>1, <4>3, <5>1, LastOfUnique
      <4> QED BY <4>1, <4>4 DEF Nearest
    <3> QED BY <3>1, <3>2
  <2> QED BY <1>2, <2>3 DEF StartTag
<1>3. CASE ~WalkEnters /\ ~StartTag
  BY <1>3 DEF CollectStep, WalkPast, WalkStops, StartBody, EndTag, StartTagDropped
<1> QED BY <1>1, <1>2, <1>3

\* What is left of a stack when its elements from the i-th on are removed.
LEMMA Popped ==
  ASSUME NEW S, NEW s \in Seq(S), NEW i \in 1..Len(s)
  PROVE  /\ SubSeq(s, 1, i - 1) \in Seq(S) /\ Len(SubSeq(s, 1, i - 1)) = i - 1
         /\ \A k \in 1..(i - 1) : SubSeq(s, 1, i - 1)[k] = s[k] /\ k \in 1..Len(s)
<1>0. i \in Nat /\ Len(s) \in Nat /\ i - 1 \in Nat
  BY LenProperties
<1>1. \A k \in 1..(i - 1) : k \in 1..Len(s) /\ s[k] \in S
  <2>1. s \in [1..Len(s) -> S]
    BY LenProperties
  <2>2. \A k \in 1..(i - 1) : k \in 1..Len(s)
    BY <1>0
  <2> QED BY <2>1, <2>2
<1>2. /\ SubSeq(s, 1, i - 1) \in Seq(S)
      /\ Len(SubSeq(s, 1, i - 1)) = IF 1 <= i - 1 THEN (i - 1) - 1 + 1 ELSE 0
      /\ \A k \in 1..((i - 1) - 1 + 1) : SubSeq(s, 1, i - 1)[k] = s[1 + k - 1]
  BY <1>0, <1>1, SubSeqProperties
<1>3. (i - 1) - 1 + 1 = i - 1 /\ \A k \in 1..(i - 1) : 1 + k - 1 = k
  BY <1>0
<1> QED BY <1>0, <1>1, <1>2, <1>3

LEMMA CollectTypes ==
  ASSUME TypeOK, Ordered, ParentsAreNearest, WalkCollects, OpenElements, CollectStep
  PROVE  TypeOK' /\ Ordered' /\ ParentsAreNearest'
<1>0. /\ pc = "collect" /\ at \in 1..N /\ N \in Nat /\ at' \in {at, at + 1}
      /\ UNCHANGED <<pc, how, page, el, maxNodes, maxDepth, count, built, omitted, ref, used>>
  BY CollectFrame
<1>1. /\ DOMAIN dom' \subseteq 1..N
      /\ \A n \in DOMAIN dom' : dom'[n] \in DOMAIN dom' \cup {0}
      /\ DOMAIN dom \subseteq DOMAIN dom' /\ DOMAIN dom' \subseteq DOMAIN dom \cup {at}
      /\ ParentsAreNearest'
  <2>1. CASE UNCHANGED dom
    BY <1>0, <2>1 DEF TypeOK, ParentsAreNearest, Keepers, Over, StaysOpen, Follows
  <2>2. CASE dom' = [e \in DOMAIN dom \cup {at} |->
                       IF e = at THEN Nearest(Over[at]) ELSE dom[e]]
    <3>1. UNCHANGED input /\ at <= N /\ DOMAIN dom' = DOMAIN dom \cup {at}
      BY <1>0, <2>2 DEF input
    <3> QED BY <1>0, <2>2, <3>1, DomGrows
  <2> QED BY <2>1, <2>2, CollectsOne
<1>2. /\ entered' \subseteq entered \cup {at} /\ cut' \in BOOLEAN
      /\ seen' \in {seen, seen + 1} /\ (seen' = seen + 1 => at' = at + 1)
      /\ (entered' # entered \/ dom' # dom => at' = at + 1)
  <2>1. seen # seen + 1 /\ cut \in BOOLEAN
    BY <1>0 DEF TypeOK
  <2>2. CASE WalkPast \/ WalkStops \/ WalkEnters
    BY <2>1, <2>2 DEF WalkPast, WalkStops, WalkEnters, Advance
  <2>3. CASE StartBody \/ EndTag \/ StartTagDropped \/ StartTag
    BY <2>1, <2>3 DEF StartBody, EndTag, StartTagDropped, StartTag, Advance
  <2> QED BY <2>2, <2>3 DEF CollectStep
<1>3. stack' \in Seq(1..N)
  <2>1. CASE EndTag
    <3>1. /\ stack \in Seq(1..N)
          /\ \E i \in 1..Len(stack) : stack' = SubSeq(stack, 1, i - 1)
      BY <2>1 DEF EndTag, TypeOK
    <3> QED BY <3>1, Popped
  <2>2. CASE StartTag
    BY <1>0, <2>2, AppendProperties DEF StartTag, Push, TypeOK
  <2>3. CASE ~EndTag /\ ~StartTag
    BY <2>3 DEF CollectStep, TypeOK, WalkPast, WalkStops, WalkEnters, StartBody, StartTagDropped
  <2> QED BY <2>1, <2>2, <2>3
<1>4. Ordered'
  <2>1. seen \in Nat /\ seen < at
    BY <1>0 DEF Ordered, TypeOK
  <2>2. seen' < at'
    BY <1>0, <1>2, <2>1
  <2>3. ASSUME NEW n \in entered' \cup DOMAIN dom'
        PROVE  n < at'
    <3>1. n = at \/ n \in entered \cup DOMAIN dom
      BY <1>1, <1>2, <2>3
    <3>2. n \in entered \cup DOMAIN dom => n \in Nat /\ n < at
      BY <1>0, VisitedFacts
    <3>3. n = at => at' = at + 1
      BY <1>0, <1>1, <1>2, <2>3, <3>2
    <3> QED BY <1>0, <3>1, <3>2, <3>3
  <2> QED BY <1>0, <2>2, <2>3 DEF Ordered
<1>5. seen' \in 0..N /\ at' \in 1..(N + 1) /\ entered' \subseteq 1..N
  BY <1>0, <1>2 DEF Ordered, TypeOK
<1>6. TypeOK'
  <2>1. \A e : TakesRef(e)' <=> TakesRef(e)
    BY <1>0 DEF TakesRef, HasStrategy
  <2>2. \A n \in 1..N : ref'[n] # NoRef <=> n \in Rendered' /\ TakesRef(el[n])'
    BY <1>0, <2>1 DEF TypeOK, Rendered
  <2>3. /\ pc' \in {"collect", "build", "done"} /\ how' \in {"script", "html"}
        /\ page' \in Trees /\ el' \in [1..N -> Elements] /\ VoidsAreEmpty'
        /\ maxNodes' \in NodeLimits /\ maxDepth' \in DepthLimits
        /\ count' \in 0..maxNodes' /\ built' = {} /\ omitted' \subseteq built'
        /\ DOMAIN ref' = 1..N /\ used' = {ref'[n] : n \in 1..N} \ {NoRef}
    BY <1>0 DEF TypeOK, VoidsAreEmpty, Ordered
  <2> QED BY <1>1, <1>2, <1>3, <1>5, <2>2, <2>3 DEF TypeOK
<1> QED BY <1>1, <1>4, <1>6

LEMMA CollectWalk ==
  ASSUME TypeOK, Ordered, WalkCollects, OpenElements, ParentsAreNearest, CollectStep
  PROVE  WalkCollects'
<1>0. UNCHANGED <<how, el>>
  BY CollectFrame
<1>1. CASE WalkEnters
  <2>1. DOMAIN Collect(at) = DOMAIN dom \cup {at}
    BY DEF Collect
  <2> QED BY <1>0, <1>1, <2>1 DEF WalkEnters, WalkCollects
<1>2. CASE WalkPast \/ WalkStops
  BY <1>0, <1>2 DEF WalkPast, WalkStops, WalkCollects
<1>3. CASE StartBody \/ EndTag \/ StartTagDropped \/ StartTag
  <2>1. how = "html"
    BY <1>3 DEF StartBody, EndTag, StartTagDropped, StartTag, CanStart, Parsing
  <2> QED BY <1>0, <2>1 DEF WalkCollects
<1> QED BY <1>1, <1>2, <1>3 DEF CollectStep

\* No end tag closes what the next element is in.
LEMMA EndTagOpen ==
  ASSUME TypeOK, Ordered, OpenElements, EndTag
  PROVE  OpenElements'
<1>0. /\ pc = "collect" /\ how = "html" /\ at \in 2..N /\ at \in 1..N /\ N \in Nat
      /\ UNCHANGED <<pc, how, page, el, at, dom, seen, maxNodes>>
      /\ stack \in Seq(1..N)
  BY NAssumption DEF EndTag, Parsing, TypeOK, input
<1>1. PICK i \in 1..Len(stack) : Ends(i) /\ stack' = SubSeq(stack, 1, i - 1)
  BY DEF EndTag
<1>2. /\ Len(stack) \in Nat /\ Len(stack') = i - 1
      /\ \A k \in 1..(i - 1) : stack'[k] = stack[k] /\ k \in 1..Len(stack)
  BY <1>0, <1>1, Popped, LenProperties
<1>3. /\ \A k \in 1..Len(stack) : stack[k] \in DOMAIN dom /\ stack[k] \in 1..N
      /\ \A k, j \in 1..Len(stack) : k < j => stack[k] \in Over[stack[j]]
      /\ \A j \in 1..Len(stack) : StaysOpen(stack[j]) =>
           page[stack[j]] = 1 \/ \E k \in 1..Len(stack) : k < j /\ stack[k] = page[stack[j]]
      /\ \A a \in Over[at] : \E k \in 1..Len(stack) : stack[k] = a
      /\ seen < maxNodes => \A n \in 2..(at - 1) : n \in DOMAIN dom
  BY <1>0 DEF OpenElements, TypeOK
<1>4. ASSUME NEW k \in 1..Len(stack), i <= k
      PROVE  stack[k] \notin Over[at]
  <2>1. stack[i] \notin Above(page, at) /\ ~StaysOpen(stack[i])
    BY <1>1 DEF Ends
  <2>2. CASE k = i
    BY <1>0, <2>1, <2>2 DEF Over
  <2>3. CASE k # i
    <3>1. StaysOpen(stack[k]) /\ i < k
      BY <1>1, <1>2, <1>4, <2>3 DEF Ends
    <3>2. stack[k] \notin Above(page, at)
      BY <1>0, <3>1, VoidsHoldNothing DEF StaysOpen
    <3>3. stack[i] \in Above(page, stack[k])
      BY <1>3, <2>1, <3>1 DEF Over
    <3>4. page[stack[k]] \notin Above(page, at)
      <4>1. SUFFICES ASSUME page[stack[k]] \in Above(page, at) PROVE FALSE
        OBVIOUS
      <4>2. Above(page, stack[k]) \subseteq {page[stack[k]]} \cup Above(page, page[stack[k]])
        BY <1>3, PageFacts, AboveIs
      <4>3. \A a \in Above(page, page[stack[k]]) : a \in Above(page, at)
        BY <1>0, <4>1, PageFacts, AboveTransitive
      <4> QED BY <2>1, <3>3, <4>1, <4>2, <4>3
    <3> QED BY <1>0, <3>2, <3>4 DEF Over, Follows
  <2> QED BY <2>2, <2>3
<1>5. \A a \in Over[at] : \E k \in 1..(i - 1) : stack[k] = a
  <2>1. \A k \in 1..Len(stack) : ~(i <= k) => k \in 1..(i - 1)
    BY <1>2
  <2> QED BY <1>3, <1>4, <2>1
<1>6. Over' = Over
  BY <1>0 DEF Over, Keepers, StaysOpen, Follows
<1>7. \A j \in 1..(i - 1) : StaysOpen(stack[j]) =>
        page[stack[j]] = 1 \/ \E k \in 1..(i - 1) : k < j /\ stack[k] = page[stack[j]]
  <2>1. \A j \in 1..(i - 1) : \A k \in 1..Len(stack) : k < j => k \in 1..(i - 1)
    BY <1>2
  <2> QED BY <1>2, <1>3, <2>1
<1>8. /\ \A k \in 1..Len(stack') : stack'[k] \in DOMAIN dom'
      /\ \A k, j \in 1..Len(stack') : k < j => stack'[k] \in Over'[stack'[j]]
  BY <1>0, <1>2, <1>3, <1>6
<1>9. \A j \in 1..Len(stack') : StaysOpen(stack[j])' =>
        page'[stack'[j]] = 1 \/ \E k \in 1..Len(stack') : k < j /\ stack'[k] = page'[stack'[j]]
  BY <1>0, <1>2, <1>7 DEF StaysOpen
<1>10. \A a \in Over'[at'] : \E k \in 1..Len(stack') : stack'[k] = a
  BY <1>0, <1>2, <1>5, <1>6
<1>11. seen' < maxNodes' => \A n \in 2..(at' - 1) : n \in DOMAIN dom'
  BY <1>0, <1>3
<1>12. at' # 1
  BY <1>0
<1> QED BY <1>0, <1>8, <1>9, <1>10, <1>11, <1>12 DEF OpenElements

\* What the next element but one is in.
LEMMA OverNext ==
  ASSUME TypeOK, Ordered, how = "html", pc = "collect", at \in 2..N, at + 1 \in 2..N, NEW D,
         NEW a \in D, D \subseteq DOMAIN dom \cup {at},
         a \in Above(page, at + 1) \/ (StaysOpen(a) /\ Follows(at + 1, a))
  PROVE  a \in Over[at] \/ (a = at /\ el[at].tag \notin NotPushed)
<1>0. at \in 1..N /\ at + 1 \in 1..N /\ N \in Nat /\ a \in 1..N /\ (a # at => a \in Keepers /\ a < at)
  <2>1. a # at => a \in DOMAIN dom
    OBVIOUS
  <2>2. a \in DOMAIN dom => a \in Keepers /\ a \in 1..N /\ a < at
    BY VisitedFacts DEF Keepers
  <2> QED BY <2>1, <2>2, NAssumption
<1>1. Above(page, at + 1) \subseteq {at} \cup Above(page, at)
  <2>1. (at + 1) - 1 = at
    BY <1>0
  <2> QED BY <2>1, AboveNext DEF TypeOK
<1>2. CASE a = at
  BY <1>0, <1>2, VoidsHoldNothing DEF StaysOpen, VoidTags, NotPushed
<1>3. CASE a # at /\ a \in Above(page, at + 1)
  BY <1>0, <1>1, <1>3 DEF Over
<1>4. CASE a # at /\ StaysOpen(a) /\ Follows(at + 1, a)
  <2>1. page[a] \in Above(page, at + 1) /\ a < at /\ page[a] \in 1..N
    BY <1>0, <1>4, PageFacts DEF Follows
  <2>2. page[a] < a
    <3>1. page[a] \in Above(page, a)
      BY <1>0, <2>1, PageFacts, AboveIs
    <3> QED BY <1>0, <3>1, PageFacts
  <2>3. page[a] \in Above(page, at)
    BY <1>0, <1>1, <2>1, <2>2
  <2> QED BY <1>0, <1>4, <2>1, <2>3 DEF Over, Follows
<1> QED BY <1>2, <1>3, <1>4

LEMMA StartTagOpen ==
  ASSUME TypeOK, TypeOK', Ordered, OpenElements, StartTag
  PROVE  OpenElements'
<1>0. /\ pc = "collect" /\ how = "html" /\ at \in 2..N /\ at \in 1..N /\ N \in Nat
      /\ UNCHANGED <<pc, how, page, el, maxNodes>> /\ at' = at + 1 /\ CanStart
      /\ stack \in Seq(1..N) /\ seen < maxNodes
      /\ DOMAIN dom' = DOMAIN dom \cup {at}
  BY NAssumption DEF StartTag, CanStart, Parsing, Advance, TypeOK, input
<1> DEFINE l == Len(stack)
<1>1. /\ \A k \in 1..l : stack[k] \in DOMAIN dom /\ stack[k] \in 1..N
      /\ \A k, j \in 1..l : k < j => stack[k] \in Over[stack[j]]
      /\ \A j \in 1..l : StaysOpen(stack[j]) =>
           page[stack[j]] = 1 \/ \E k \in 1..l : k < j /\ stack[k] = page[stack[j]]
      /\ \A a \in Over[at] : \E k \in 1..l : stack[k] = a
      /\ \A n \in 2..(at - 1) : n \in DOMAIN dom
  BY <1>0 DEF OpenElements, TypeOK
<1>2. \A n \in 1..at : Over'[n] = Over[n]
  <2>1. Keepers' = Keepers \cup {at}
    BY <1>0 DEF Keepers
  <2>2. \A n \in 1..at : at \notin Above(page, n) /\ ~Follows(n, at)
    BY <1>0, PageFacts DEF Follows
  <2>3. \A m, n : StaysOpen(m)' = StaysOpen(m) /\ Follows(n, m)' = Follows(n, m)
    BY <1>0 DEF StaysOpen, Follows
  <2>4. ASSUME NEW n \in 1..at
        PROVE  Over'[n] = Over[n]
    <3>1. n \in 1..N
      BY <1>0
    <3> QED BY <1>0, <2>1, <2>2, <2>3, <3>1 DEF Over
  <2> QED BY <2>4
<1>3. \A n : StaysOpen(n)' = StaysOpen(n)
  BY <1>0 DEF StaysOpen
<1>4. \A k \in 1..l : stack[k] \in Over[at] /\ stack[k] \in 1..at
  BY <1>0, <1>1, OpenIsAround, OverNests
<1>5. StaysOpen(at) => page[at] = 1 \/ \E k \in 1..l : stack[k] = page[at]
  <2>1. SUFFICES ASSUME page[at] # 1 PROVE page[at] \in Over[at]
    BY <1>1
  <2>2. page[at] \in 1..(at - 1)
    BY <1>0 DEF TypeOK, Trees
  <2>3. page[at] \in DOMAIN dom /\ page[at] \in Above(page, at)
    <3>1. page[at] \in 2..(at - 1) /\ page[at] # 0
      BY <1>0, <2>1, <2>2
    <3>2. page[at] \in DOMAIN dom
      BY <1>1, <3>1
    <3>3. page[at] \in Above(page, at)
      BY <1>0, <3>1, PageFacts, AboveIs
    <3> QED BY <3>2, <3>3
  <2> QED BY <1>0, <2>3 DEF Over, Keepers
<1>6. at + 1 \in 2..N => \A a \in Over'[at + 1] :
        a \in Over[at] \/ (a = at /\ el[at].tag \notin NotPushed)
  <2>1. SUFFICES ASSUME at + 1 \in 2..N, NEW a \in Over'[at + 1]
                 PROVE  a \in Over[at] \/ (a = at /\ el[at].tag \notin NotPushed)
    OBVIOUS
  <2>2. /\ a \in DOMAIN dom'
        /\ a \in Above(page, at + 1) \/ (StaysOpen(a) /\ Follows(at + 1, a))
    BY <1>0, <1>3, <2>1 DEF Over, Keepers, Follows
  <2> QED BY <1>0, <2>1, <2>2, OverNext
<1>7. seen' < maxNodes' => \A n \in 2..(at' - 1) : n \in DOMAIN dom'
  <2>1. \A n \in 2..((at + 1) - 1) : n = at \/ n \in 2..(at - 1)
    BY <1>0
  <2> QED BY <1>0, <1>1, <2>1
<1>8. at' # 1 /\ (at' \in 2..N => at + 1 \in 2..N) /\ l \in Nat
  BY <1>0, LenProperties
<1>9. CASE el[at].tag \in NotPushed
  <2>1. stack' = stack
    BY <1>9 DEF StartTag, Push
  <2>2. /\ \A k \in 1..l : stack[k] \in DOMAIN dom'
        /\ \A k, j \in 1..l : k < j => stack[k] \in Over'[stack[j]]
    BY <1>0, <1>1, <1>2, <1>4
  <2>3. \A j \in 1..l : StaysOpen(stack[j])' =>
          page'[stack'[j]] = 1 \/ \E k \in 1..l : k < j /\ stack'[k] = page'[stack'[j]]
    BY <1>0, <1>1, <2>1 DEF StaysOpen
  <2>4. at' \in 2..N => \A a \in Over'[at'] : \E k \in 1..l : stack[k] = a
    <3>1. at' \in 2..N => \A a \in Over'[at + 1] : \E k \in 1..l : stack[k] = a
      BY <1>1, <1>6, <1>8, <1>9
    <3> QED BY <1>0, <3>1
  <2> QED BY <1>0, <1>7, <1>8, <2>1, <2>2, <2>3, <2>4 DEF OpenElements
<1>10. CASE el[at].tag \notin NotPushed
  <2>1. /\ Len(stack') = l + 1 /\ stack'[l + 1] = at
        /\ \A k \in 1..l : stack'[k] = stack[k]
    <3>1. stack' = Append(stack, at)
      BY <1>10 DEF StartTag, Push
    <3> QED BY <1>0, <3>1, AppendProperties
  <2>2. \A k \in 1..(l + 1) : k = l + 1 \/ (k \in 1..l /\ k # l + 1)
    BY <1>8
  <2> HIDE DEF l
  <2>3. \A k \in 1..(l + 1) : stack'[k] \in DOMAIN dom'
    BY <1>0, <1>1, <2>1, <2>2
  <2>4. ASSUME NEW k \in 1..(l + 1), NEW j \in 1..(l + 1), k < j
        PROVE  stack'[k] \in Over'[stack'[j]]
    <3>1. k \in 1..l /\ stack'[k] = stack[k]
      BY <1>8, <2>1, <2>4
    <3>2. CASE j = l + 1
      BY <1>0, <1>2, <1>4, <2>1, <3>1, <3>2
    <3>3. CASE j \in 1..l
      BY <1>1, <1>2, <1>4, <2>1, <2>4, <3>1, <3>3
    <3> QED BY <2>2, <3>2, <3>3
  <2>5. ASSUME NEW j \in 1..(l + 1), StaysOpen(stack[j])'
        PROVE  page'[stack'[j]] = 1 \/
                 \E k \in 1..(l + 1) : k < j /\ stack'[k] = page'[stack'[j]]
    <3>1. \A k \in 1..l : k \in 1..(l + 1) /\ k < l + 1
      BY <1>8
    <3>2. CASE j = l + 1
      BY <1>0, <1>5, <2>1, <2>5, <3>1, <3>2 DEF StaysOpen
    <3>3. CASE j \in 1..l
      BY <1>0, <1>1, <2>1, <2>5, <3>1, <3>3 DEF StaysOpen
    <3> QED BY <2>2, <3>2, <3>3
  <2>6. at' \in 2..N => \A a \in Over'[at'] : \E k \in 1..(l + 1) : stack'[k] = a
    <3>1. l + 1 \in 1..(l + 1) /\ \A k \in 1..l : k \in 1..(l + 1)
      BY <1>8
    <3>2. at' \in 2..N => \A a \in Over'[at + 1] : \E k \in 1..(l + 1) : stack'[k] = a
      BY <1>1, <1>6, <1>8, <2>1, <3>1
    <3> QED BY <1>0, <3>2
  <2> QED BY <1>0, <1>7, <1>8, <2>1, <2>3, <2>4, <2>5, <2>6 DEF OpenElements
<1> QED BY <1>9, <1>10

LEMMA CollectOpen ==
  ASSUME TypeOK, TypeOK', Ordered, OpenElements, CollectStep
  PROVE  OpenElements'
<1>0. /\ pc = "collect" /\ at \in 1..N /\ N \in Nat
      /\ UNCHANGED <<pc, how, page, el, maxNodes>>
  BY CollectFrame
<1>1. CASE WalkPast \/ WalkStops \/ WalkEnters
  <2>1. how = "script"
    BY <1>1 DEF WalkPast, WalkStops, WalkEnters, Walking
  <2> QED BY <1>0, <2>1 DEF OpenElements
<1>2. CASE StartBody
  <2>1. how = "html" /\ at = 1 /\ at' = 2 /\ stack' = <<>> /\ DOMAIN dom' = {}
    BY <1>0, <1>2 DEF StartBody, Parsing, Advance, OpenElements
  <2>2. 1..Len(stack') = {} /\ 2..(2 - 1) = {}
    BY <2>1, EmptySeq
  <2>3. at' \in 2..N => Over'[at'] = {}
    <3>1. Keepers' = {}
      BY <2>1 DEF Keepers
    <3> QED BY <1>0, <2>1, <3>1 DEF Over
  <2> QED BY <2>1, <2>2, <2>3 DEF OpenElements
<1>4. CASE StartTagDropped
  <2>1. how = "html" /\ at \in 2..N /\ at' = at + 1 /\ UNCHANGED <<stack, dom, seen>>
        /\ ~(seen < maxNodes)
    <3>1. seen \in Nat /\ maxNodes \in Nat
      BY LimitsAssumption DEF TypeOK
    <3> QED BY <1>0, <1>4, <3>1 DEF StartTagDropped, CanStart, Parsing, Advance, buildVars
  <2>2. Over' = Over
    BY <1>0, <2>1 DEF Over, Keepers, StaysOpen, Follows
  <2>3. at + 1 \in 2..N => \A a \in Over[at + 1] : a \in Over[at]
    <3>1. SUFFICES ASSUME at + 1 \in 2..N, NEW a \in Over[at + 1] PROVE a \in Over[at]
      OBVIOUS
    <3>2. /\ a \in DOMAIN dom /\ a # at
          /\ a \in Above(page, at + 1) \/ (StaysOpen(a) /\ Follows(at + 1, a))
      <4>1. a \in Keepers /\ (a \in Above(page, at + 1) \/ (StaysOpen(a) /\ Follows(at + 1, a)))
        BY <1>0, <3>1 DEF Over
      <4>2. a \in DOMAIN dom
        BY <4>1 DEF Keepers
      <4> QED BY <1>0, <4>1, <4>2, VisitedFacts
    <3> QED BY <1>0, <2>1, <3>1, <3>2, OverNext
  <2>4. at' # 1 /\ (at' \in 2..N => \A a \in Over[at'] : \E i \in 1..Len(stack) : stack[i] = a)
    BY <1>0, <2>1, <2>3 DEF OpenElements
  <2>5. at' \in 2..N => \A a \in Over'[at'] : \E i \in 1..Len(stack) : stack[i] = a
    BY <2>2, <2>4
  <2> QED BY <1>0, <2>1, <2>2, <2>4, <2>5 DEF OpenElements, StaysOpen
<1> QED BY <1>1, <1>2, <1>4, StartTagOpen, EndTagOpen DEF CollectStep

\* Ancestors of what is shown are shown.
LEMMA ShownUpwards ==
  ASSUME TypeOK, NEW n \in 2..N, Shown(n)
  PROVE  page[n] \in 1..(n - 1) /\ Shown(page[n]) /\ ~el[n].hidden
<1>1. n \in 1..N /\ page[n] \in 1..(n - 1) /\ page[n] # 0
  BY PageFacts DEF TypeOK, Trees
<1>2. Above(page, n) = {page[n]} \cup Above(page, page[n])
  BY <1>1, PageFacts, AboveIs
<1> QED BY <1>1, <1>2 DEF Shown

LEMMA CollectMisses ==
  ASSUME TypeOK, Ordered, NothingMissed, CollectStep
  PROVE  NothingMissed'
<1>0. /\ pc = "collect" /\ at \in 1..N /\ N \in Nat /\ omitted' = omitted
      /\ UNCHANGED <<pc, how, page, el>> /\ Passed = at - 1 /\ Passed' = at' - 1
      /\ \A n : Shown(n)' <=> Shown(n)
  BY CollectFrame DEF Passed, Shown
<1>1. CASE WalkPast
  <2>1. /\ how = "script" /\ Skips(at) /\ at' = at + 1 /\ UNCHANGED <<entered, cut>>
    BY <1>1 DEF WalkPast, Walking, Advance
  <2>2. ~cut /\ Shown(at) => FALSE
    <3>1. SUFFICES ASSUME ~cut, Shown(at) PROVE FALSE
      OBVIOUS
    <3>2. ~el[at].hidden
      BY <1>0, <3>1 DEF Shown
    <3>3. at \in 2..N /\ page[at] \notin entered
      BY <1>0, <2>1, <3>2 DEF Skips, Reached
    <3>4. page[at] \in 1..(at - 1) /\ Shown(page[at])
      BY <3>1, <3>3, ShownUpwards
    <3> QED BY <1>0, <2>1, <3>1, <3>3, <3>4 DEF NothingMissed
  <2> QED BY <1>0, <2>1, <2>2 DEF NothingMissed
<1>2. CASE WalkEnters
  <2>1. how = "script" /\ at' = at + 1 /\ entered' = entered \cup {at} /\ (cut => cut') /\ cut' \in BOOLEAN
    BY <1>2 DEF WalkEnters, Walking, Advance, TypeOK
  <2> QED BY <1>0, <2>1 DEF NothingMissed
<1>3. CASE StartTag \/ StartBody
  <2>1. how = "html" /\ at' = at + 1 /\ cut' = cut
    BY <1>3 DEF StartTag, StartBody, CanStart, Parsing, Advance
  <2>2. DOMAIN dom \subseteq DOMAIN dom' /\ (at # 1 => at \in DOMAIN dom')
    BY <1>0, <1>3 DEF StartTag, StartBody
  <2> QED BY <1>0, <2>1, <2>2 DEF NothingMissed
<1>4. CASE EndTag
  BY <1>0, <1>4 DEF EndTag, Parsing, NothingMissed
<1>5. CASE WalkStops \/ StartTagDropped
  BY <1>5 DEF WalkStops, StartTagDropped, NothingMissed
<1> QED BY <1>1, <1>2, <1>3, <1>4, <1>5 DEF CollectStep

LEMMA CollectKeeps ==
  ASSUME IInv, CollectStep
  PROVE  IInv'
<1>0. UNCHANGED <<pc, built, omitted, ref, used, maxDepth>> /\ pc = "collect" /\ built = {}
  BY CollectFrame DEF IInv, Ordered
<1>1. Counted'
  BY <1>0 DEF Counted, Rendered
<1>2. RefsUnique'
  BY <1>0 DEF IInv, RefsUnique
<1> QED BY <1>1, <1>2, CollectTypes, CollectWalk, CollectOpen, CollectMisses DEF IInv

-----------------------------------------------------------------------------
(* Refs. *)

LEMMA NumberedDiffer ==
  ASSUME NEW S, NEW base \in Seq(S), NEW i \in Nat, NEW j \in Nat
  PROVE  /\ Append(base, i) # NoRef
         /\ Append(base, i) = Append(base, j) => i = j
<1> DEFINE P == S \cup {i, j}
<1>1. base \in Seq(P) /\ i \in P /\ j \in P
  OBVIOUS
<1> HIDE DEF P
<1>2. /\ Append(base, i) # << >> /\ Append(base, i)[Len(base) + 1] = i
      /\ Append(base, j)[Len(base) + 1] = j
  BY <1>1, AppendProperties
<1> QED BY <1>2 DEF NoRef

\* At most as many refs are used as elements have been built.
LEMMA FewUsed ==
  ASSUME TypeOK, Ordered, pc = "build", at \in 1..N
  PROVE  IsFiniteSet(used) /\ Cardinality(used) \in Nat /\ Cardinality(used) < N
<1> DEFINE D == {n \in 1..N : ref[n] # NoRef}
           f == [n \in D |-> ref[n]]
<1>0. N \in Nat /\ at \in Nat /\ at <= N
  BY NAssumption
<1>1. D \subseteq 1..(at - 1)
  <2>1. \A n \in D : n \in built /\ n \in 1..N
    BY DEF TypeOK, Rendered
  <2> QED BY <1>0, <2>1 DEF Ordered
<1>2. IsFiniteSet(1..(at - 1)) /\ Cardinality(1..(at - 1)) = at - 1
  <2>1. IsFiniteSet(1..(at - 1)) /\ Cardinality(1..(at - 1)) = IF 1 > at - 1 THEN 0 ELSE (at - 1) - 1 + 1
    BY <1>0, FS_Interval
  <2> QED BY <1>0, <2>1
<1>3. IsFiniteSet(D) /\ Cardinality(D) <= at - 1 /\ Cardinality(D) \in Nat
  <2> HIDE DEF D
  <2> QED BY <1>1, <1>2, FS_Subset, FS_CardinalityType
<1>4. f \in Surjection(D, used)
  <2>1. used = {ref[n] : n \in 1..N} \ {NoRef}
    BY DEF TypeOK
  <2>2. f \in [D -> used]
    BY <2>1
  <2>3. \A r \in used : \E n \in D : f[n] = r
    BY <2>1
  <2> HIDE DEF f, D
  <2> QED BY <2>2, <2>3 DEF Surjection
<1>5. IsFiniteSet(used) /\ Cardinality(used) <= Cardinality(D)
  <2> HIDE DEF f, D
  <2> QED BY <1>3, <1>4, FS_Surjection
<1>6. Cardinality(used) \in Nat
  BY <1>5, FS_CardinalityType
<1> QED BY <1>0, <1>3, <1>5, <1>6

\* N numbers are enough: one of them is always free.
LEMMA UniqueIsFree ==
  ASSUME TypeOK, Ordered, pc = "build", at \in 1..N,
         NEW S, NEW base \in Seq(S), base # NoRef
  PROVE  MakeUnique(base) \notin used /\ MakeUnique(base) # NoRef
<1> DEFINE I == 2..(N + 1)
           Free == {i \in I : Append(base, i) \notin used}
<1>1. CASE base \notin used
  BY <1>1 DEF MakeUnique
<1>2. CASE base \in used
  <2>0. N \in Nat /\ I \subseteq Nat /\ Free \in SUBSET Nat
    BY NAssumption
  <2>1. Free # {}
    <3>1. SUFFICES ASSUME Free = {} PROVE FALSE
      OBVIOUS
    <3> DEFINE f == [i \in I |-> Append(base, i)]
    <3>2. f \in [I -> used]
      BY <3>1
    <3>3. IsFiniteSet(I) /\ Cardinality(I) = N
      <4>1. IsFiniteSet(I) /\ Cardinality(I) = IF 2 > N + 1 THEN 0 ELSE (N + 1) - 2 + 1
        BY <2>0, FS_Interval
      <4> QED BY <2>0, <4>1, NAssumption
    <3>4. PICK x \in I, y \in I : x # y /\ f[x] = f[y]
      <4>1. IsFiniteSet(used) /\ Cardinality(used) < Cardinality(I)
        BY <3>3, FewUsed
      <4> HIDE DEF f, I
      <4> QED BY <3>2, <3>3, <4>1, FS_PigeonHole
    <3>5. Append(base, x) = Append(base, y) /\ x \in Nat /\ y \in Nat
      BY <2>0, <3>4
    <3> QED BY <3>4, <3>5, NumberedDiffer
  <2>2. PICK i \in Free : \A j \in Free : i <= j
    <3> HIDE DEF Free
    <3> QED BY <2>0, <2>1, LeastOfNaturals
  <2>3. \A j \in 2..(i - 1) : Append(base, j) \in used
    <3>1. ASSUME NEW j \in 2..(i - 1)
          PROVE  j \in I /\ ~(i <= j)
      BY <2>0
    <3> QED BY <2>2, <3>1
  <2> DEFINE Fits(k) == /\ Append(base, k) \notin used
                        /\ \A j \in 2..(k - 1) : Append(base, j) \in used
             c == CHOOSE k \in I : Fits(k)
  <2>4. c \in I /\ Append(base, c) \notin used
    BY <2>2, <2>3
  <2>5. MakeUnique(base) = Append(base, c)
    BY <1>2 DEF MakeUnique
  <2> HIDE DEF c
  <2> QED BY <2>0, <2>4, <2>5, NumberedDiffer
<1> QED BY <1>1, <1>2

LEMMA BaseIsSequence ==
  ASSUME NEW e \in Elements
  PROVE  \E S : DeriveRef(e) \in Seq(S) /\ DeriveRef(e) # NoRef
<1>1. CASE e.id # NoRef
  <2> DEFINE S == {e.id[i] : i \in 1..Len(e.id)}
  <2>1. Len(e.id) \in Nat /\ e.id = SubSeq(e.id, 1, Len(e.id))
    BY IdsAssumption DEF IsSequence
  <2>2. SubSeq(e.id, 1, Len(e.id)) \in Seq(S)
    BY <2>1, SubSeqProperties
  <2> QED BY <1>1, <2>1, <2>2 DEF DeriveRef
<1>2. CASE e.id = NoRef
  <2> DEFINE S == {Role(e), "label"}
  <2>1. <<Role(e), "label">> \in Seq(S) /\ <<Role(e)>> \in Seq(S)
    OBVIOUS
  <2>2. <<Role(e), "label">> # NoRef /\ <<Role(e)>> # NoRef
    BY DEF NoRef
  <2> QED BY <1>2, <2>1, <2>2 DEF DeriveRef
<1> QED BY <1>1, <1>2

-----------------------------------------------------------------------------
(* Building. *)

LEMMA BuildFrame ==
  ASSUME IInv, BuildStep
  PROVE  /\ pc = "build" /\ at \in 1..N /\ N \in Nat /\ at' = at + 1
         /\ UNCHANGED <<pc, how, page, el, maxNodes, maxDepth, seen, entered, dom, stack>>
         /\ at \notin built
         /\ built' = built \/ (at \in DOMAIN dom /\ built' = built \cup {at})
<1>1. /\ pc = "build" /\ at \in 1..N /\ N \in Nat /\ at' = at + 1
      /\ UNCHANGED <<pc, how, page, el, maxNodes, maxDepth, seen, entered, dom, stack>>
      /\ built' = built \/ (at \in DOMAIN dom /\ built' = built \cup {at})
  BY NAssumption DEF IInv, TypeOK, BuildStep, BuildSkips, BuildOmits, Build, Building, Advance,
     input, buildVars, Visited
<1> QED BY <1>1 DEF IInv, Ordered

\* A ref is given to an element that is rendered, and it is a new one.
LEMMA BuildTypes ==
  ASSUME IInv, BuildStep
  PROVE  TypeOK' /\ RefsUnique'
<1>0. /\ pc = "build" /\ at \in 1..N /\ N \in Nat /\ at' = at + 1
      /\ UNCHANGED <<pc, how, page, el, maxNodes, maxDepth, seen, entered, dom, stack>>
      /\ at \notin built /\ TypeOK /\ RefsUnique /\ Ordered
  BY BuildFrame DEF IInv
<1>1. ref[at] = NoRef /\ omitted \subseteq built
  BY <1>0 DEF TypeOK, Rendered
<1>2. CASE BuildSkips
  <2>1. UNCHANGED <<cut, count, built, omitted, ref, used>>
    BY <1>2 DEF BuildSkips, buildVars
  <2>2. TypeOK'
    BY <1>0, <2>1 DEF TypeOK, Rendered, TakesRef, HasStrategy, VoidsAreEmpty
  <2> QED BY <1>0, <2>1, <2>2 DEF RefsUnique
<1>3. CASE BuildOmits
  <2>1. /\ at \in DOMAIN dom /\ UNCHANGED <<ref, used>> /\ cut' = TRUE
        /\ built' = built \cup {at} /\ omitted' = omitted \cup {at}
        /\ count' = IF count >= maxNodes THEN count ELSE count + 1
    BY <1>3 DEF BuildOmits, Visited
  <2>2. Rendered' = Rendered
    BY <1>0, <2>1 DEF Rendered
  <2>3. count' \in 0..maxNodes
    <3>1. count \in 0..maxNodes /\ maxNodes \in Nat
      BY <1>0, LimitsAssumption DEF TypeOK
    <3> QED BY <2>1, <3>1
  <2> QED BY <1>0, <2>1, <2>2, <2>3 DEF TypeOK, RefsUnique, TakesRef, HasStrategy, VoidsAreEmpty
<1>4. CASE Build
  <2>1. /\ at \in DOMAIN dom /\ UNCHANGED <<cut, omitted>>
        /\ built' = built \cup {at} /\ count < maxNodes /\ count' = count + 1
    BY <1>4 DEF Build, Visited
  <2>2. Rendered' = Rendered \cup {at}
    BY <1>0, <1>1, <2>1 DEF Rendered
  <2>3. count' \in 0..maxNodes
    <3>1. count \in 0..maxNodes /\ maxNodes \in Nat
      BY <1>0, LimitsAssumption DEF TypeOK
    <3> QED BY <2>1, <3>1
  <2>4. CASE ~TakesRef(el[at])
    <3>1. UNCHANGED <<ref, used>>
      BY <1>4, <2>4 DEF Build
    <3> QED BY <1>0, <2>1, <2>2, <2>3, <2>4, <3>1 DEF TypeOK, RefsUnique, TakesRef, HasStrategy, VoidsAreEmpty
  <2>5. CASE TakesRef(el[at])
    <3> DEFINE new == MakeUnique(DeriveRef(el[at]))
    <3>1. ref' = [ref EXCEPT ![at] = new] /\ used' = used \cup {ref'[at]}
      BY <1>4, <2>5 DEF Build
    <3>2. new \notin used /\ new # NoRef
      <4>1. el[at] \in Elements
        BY <1>0 DEF TypeOK
      <4> QED BY <1>0, <4>1, BaseIsSequence, UniqueIsFree
    <3>3. /\ DOMAIN ref = 1..N
          /\ used = {ref[n] : n \in 1..N} \ {NoRef}
          /\ \A n \in 1..N : ref[n] # NoRef <=> n \in Rendered /\ TakesRef(el[n])
      BY <1>0 DEF TypeOK
    <3> HIDE DEF new
    <3>4. \A n \in 1..N : ref'[n] # NoRef <=> n \in Rendered' /\ TakesRef(el[n])
      BY <1>0, <2>2, <2>5, <3>1, <3>2, <3>3
    <3>5. DOMAIN ref' = 1..N /\ used' = {ref'[n] : n \in 1..N} \ {NoRef}
      BY <1>0, <1>1, <3>1, <3>2, <3>3
    <3>6. RefsUnique'
      <4>1. \A n \in 1..N : n # at => ref'[n] = ref[n] /\ (ref[n] # NoRef => ref[n] # new)
        BY <3>1, <3>2, <3>3
      <4>2. ref'[at] = new
        BY <1>0, <3>1, <3>3
      <4> QED BY <1>0, <3>2, <4>1, <4>2 DEF RefsUnique
    <3>7. \A n : TakesRef(el[n])' <=> TakesRef(el[n])
      BY <1>0 DEF TakesRef, HasStrategy, VoidsAreEmpty
    <3>8. at' \in 1..(N + 1) /\ built' \subseteq DOMAIN dom' /\ omitted' \subseteq built'
      BY <1>0, <2>1 DEF TypeOK
    <3>9. \A n \in 1..N : ref'[n] # NoRef <=> n \in Rendered' /\ TakesRef(el[n])'
      BY <3>4, <3>7
    <3>10. /\ pc' \in {"collect", "build", "done"} /\ how' \in {"script", "html"}
           /\ page' \in Trees /\ el' \in [1..N -> Elements] /\ VoidsAreEmpty'
           /\ maxNodes' \in NodeLimits /\ maxDepth' \in DepthLimits
           /\ seen' \in 0..N /\ entered' \subseteq 1..N
           /\ DOMAIN dom' \subseteq 1..N /\ \A n \in DOMAIN dom' : dom'[n] \in DOMAIN dom' \cup {0}
           /\ stack' \in Seq(1..N) /\ cut' \in BOOLEAN
      BY <1>0, <2>1 DEF TypeOK, VoidsAreEmpty
    <3>11. count' \in 0..maxNodes'
      BY <1>0, <2>3
    <3>12. TypeOK'
      BY ONLY <3>5, <3>8, <3>9, <3>10, <3>11 DEF TypeOK
    <3> QED BY <3>6, <3>12
  <2> QED BY <2>4, <2>5
<1> QED BY <1>2, <1>3, <1>4 DEF BuildStep

LEMMA BuildMisses ==
  ASSUME IInv, BuildStep
  PROVE  NothingMissed'
<1>0. /\ pc = "build" /\ at \in 1..N /\ N \in Nat /\ at' = at + 1
      /\ UNCHANGED <<pc, how, page, el, entered, dom>>
      /\ Passed' = Passed /\ BuildPassed = at - 1 /\ BuildPassed' = at
      /\ \A n : Shown(n)' <=> Shown(n)
  BY BuildFrame DEF Passed, BuildPassed, Shown
<1>1. CASE BuildSkips
  <2>1. ~Visited(at) /\ UNCHANGED <<cut, built, omitted>>
    BY <1>1 DEF BuildSkips, buildVars
  <2>2. ~cut => at \notin DOMAIN dom
    <3>1. SUFFICES ASSUME ~cut, at \in DOMAIN dom PROVE FALSE
      OBVIOUS
    <3>2. dom[at] # 0 /\ dom[at] \notin built \ omitted
      BY <2>1, <3>1 DEF Visited
    <3>3. dom[at] \in DOMAIN dom /\ dom[at] \in Nat /\ dom[at] < at
      BY <3>1, <3>2, CollectedNesting DEF IInv, Forest
    <3>4. dom[at] \in built /\ omitted = {}
      BY <1>0, <3>1, <3>3 DEF IInv, NothingMissed
    <3> QED BY <3>2, <3>4
  <2>3. ~cut => \A n \in DOMAIN dom : n <= at => n \in built
    <3>1. \A n \in DOMAIN dom : n \in Nat
      BY DEF IInv, TypeOK
    <3> QED BY <1>0, <2>2, <3>1 DEF IInv, NothingMissed
  <2> QED BY <1>0, <2>1, <2>3 DEF IInv, NothingMissed
<1>2. CASE BuildOmits
  BY <1>2 DEF BuildOmits, NothingMissed
<1>3. CASE Build
  <2>1. UNCHANGED <<cut, omitted>> /\ built' = built \cup {at}
    BY <1>3 DEF Build
  <2>2. ~cut => \A n \in DOMAIN dom : n <= at => n \in built'
    <3>1. \A n \in DOMAIN dom : n \in Nat
      BY DEF IInv, TypeOK
    <3> QED BY <1>0, <2>1, <3>1 DEF IInv, NothingMissed
  <2> QED BY <1>0, <2>1, <2>2 DEF IInv, NothingMissed
<1> QED BY <1>1, <1>2, <1>3 DEF BuildStep

LEMMA RenderedFinite ==
  ASSUME TypeOK
  PROVE  IsFiniteSet(Rendered) /\ Cardinality(Rendered) \in Nat
<1>1. Rendered \subseteq 1..N /\ IsFiniteSet(1..N)
  BY FS_Interval, NAssumption DEF TypeOK, Rendered
<1> QED BY <1>1, FS_Subset, FS_CardinalityType

LEMMA BuildCounts ==
  ASSUME IInv, BuildStep
  PROVE  Counted'
<1>0. /\ pc = "build" /\ UNCHANGED <<pc, dom, maxDepth>> /\ at \notin built
      /\ omitted \subseteq built /\ count \in Nat
      /\ \A n : DepthOf(n)' = DepthOf(n)
  <2>1. count \in Nat
    BY LimitsAssumption DEF IInv, TypeOK
  <2> QED BY <2>1, BuildFrame DEF DepthOf, IInv, TypeOK
<1>1. /\ IsFiniteSet(Rendered) /\ Cardinality(Rendered) \in Nat /\ Cardinality(Rendered) < count
      /\ \A n \in Rendered : DepthOf(n) <= maxDepth
  BY <1>0, RenderedFinite DEF IInv, Counted
<1>2. CASE BuildSkips
  BY <1>0, <1>1, <1>2 DEF BuildSkips, buildVars, Rendered, Counted
<1>3. CASE BuildOmits
  <2>1. Rendered' = Rendered
    BY <1>0, <1>3 DEF BuildOmits, Rendered
  <2>2. count' \in {count, count + 1}
    BY <1>3 DEF BuildOmits
  <2>3. Cardinality(Rendered) < count'
    BY <1>0, <1>1, <2>2
  <2> QED BY <1>0, <1>1, <2>1, <2>3 DEF Counted
<1>4. CASE Build
  <2>1. Rendered' = Rendered \cup {at} /\ count' = count + 1 /\ DepthOf(at) <= maxDepth
    BY <1>0, <1>4 DEF Build, Rendered
  <2>2. at \notin Rendered
    BY <1>0 DEF Rendered
  <2>3. Cardinality(Rendered') = Cardinality(Rendered) + 1
    BY <1>1, <2>1, <2>2, FS_AddElement
  <2> QED BY <1>0, <1>1, <2>1, <2>3 DEF Counted
<1> QED BY <1>2, <1>3, <1>4 DEF BuildStep

LEMMA BuildKeeps ==
  ASSUME IInv, BuildStep
  PROVE  IInv'
<1>0. /\ pc = "build" /\ at \in 1..N /\ at' = at + 1
      /\ UNCHANGED <<pc, how, page, el, entered, dom>>
      /\ built' \subseteq built \cup {at} /\ \A n \in built : n \in Nat
  BY BuildFrame DEF IInv, TypeOK
<1>1. Ordered'
  BY <1>0 DEF IInv, Ordered
<1>2. ParentsAreNearest' /\ WalkCollects' /\ OpenElements'
  BY <1>0, OverStays DEF IInv, WalkCollects, OpenElements
<1> QED BY <1>1, <1>2, BuildTypes, BuildMisses, BuildCounts DEF IInv

-----------------------------------------------------------------------------
(* From one phase to the next. *)

LEMMA CollectedKeeps ==
  ASSUME IInv, Collected
  PROVE  IInv'
<1>0. /\ pc = "collect" /\ pc' = "build" /\ at = N + 1 /\ at' = 1 /\ count' = 1 /\ N \in Nat \ {0}
      /\ UNCHANGED <<how, page, el, maxNodes, maxDepth, seen, entered, dom, stack, cut, built,
                      omitted, ref, used>>
      /\ built = {} /\ omitted = {}
  BY NAssumption DEF IInv, TypeOK, Ordered, Collected, input
<1>1. TypeOK'
  <2>1. 1 \in 0..maxNodes /\ 1 \in 1..(N + 1)
    <3>1. maxNodes \in Nat \ {0}
      BY LimitsAssumption DEF IInv, TypeOK
    <3> QED BY <1>0, <3>1
  <2> QED BY <1>0, <2>1 DEF IInv, TypeOK, Rendered, TakesRef, HasStrategy, VoidsAreEmpty
<1>2. Ordered' /\ ParentsAreNearest' /\ WalkCollects' /\ OpenElements' /\ RefsUnique'
  BY <1>0, OverStays DEF IInv, Ordered, WalkCollects, OpenElements, RefsUnique
<1>3. NothingMissed'
  <2>1. Passed' = Passed /\ BuildPassed' = 0 /\ \A n : Shown(n)' <=> Shown(n)
    BY <1>0 DEF Passed, BuildPassed, Shown
  <2>2. \A n \in DOMAIN dom : ~(n <= 0)
    BY <1>0 DEF IInv, TypeOK
  <2> QED BY <1>0, <2>1, <2>2 DEF IInv, NothingMissed
<1>4. Counted'
  BY <1>0, FS_EmptySet DEF Counted, Rendered
<1> QED BY <1>1, <1>2, <1>3, <1>4 DEF IInv

LEMMA FinishKeeps ==
  ASSUME IInv, Finish
  PROVE  IInv'
<1>0. /\ pc = "build" /\ pc' = "done" /\ at = N + 1 /\ N \in Nat
      /\ UNCHANGED <<how, page, el, maxNodes, maxDepth, at, seen, entered, dom, stack, cut, count,
                      built, omitted, ref, used>>
  BY NAssumption DEF IInv, TypeOK, Finish, input, buildVars
<1>1. TypeOK'
  BY <1>0 DEF IInv, TypeOK, Rendered, TakesRef, HasStrategy, VoidsAreEmpty
<1>2. Ordered' /\ ParentsAreNearest' /\ WalkCollects' /\ OpenElements' /\ RefsUnique'
  BY <1>0, OverStays DEF IInv, Ordered, WalkCollects, OpenElements, RefsUnique
<1>3. NothingMissed'
  <2>1. Passed' = Passed /\ BuildPassed' = BuildPassed /\ \A n : Shown(n)' <=> Shown(n)
    BY <1>0 DEF Passed, BuildPassed, Shown
  <2> QED BY <1>0, <2>1 DEF IInv, NothingMissed
<1>4. Counted'
  BY <1>0 DEF IInv, Counted, Rendered, DepthOf
<1> QED BY <1>1, <1>2, <1>3, <1>4 DEF IInv

LEMMA InvariantInit == Init => IInv
<1> SUFFICES ASSUME Init PROVE IInv
  OBVIOUS
<1>0. N \in Nat \ {0} /\ DOMAIN dom = {} /\ pc = "collect" /\ at = 1 /\ maxNodes \in Nat \ {0}
  BY NAssumption, LimitsAssumption DEF Init
<1>1. TypeOK
  <2>1. used = {ref[n] : n \in 1..N} \ {NoRef} /\ DOMAIN ref = 1..N
    BY DEF Init
  <2>2. Rendered = {} /\ \A n \in 1..N : ref[n] = NoRef
    BY DEF Init, Rendered
  <2>3. stack \in Seq(1..N) /\ built \subseteq DOMAIN dom /\ omitted \subseteq built
    BY EmptySeq DEF Init
  <2>4. count \in 0..maxNodes /\ at \in 1..(N + 1) /\ seen \in 0..N
    BY <1>0 DEF Init
  <2>5. /\ how \in {"script", "html"} /\ page \in Trees /\ el \in [1..N -> Elements]
        /\ VoidsAreEmpty
        /\ maxNodes \in NodeLimits /\ maxDepth \in DepthLimits
        /\ entered \subseteq 1..N /\ cut \in BOOLEAN
    BY DEF Init
  <2> QED BY <1>0, <2>1, <2>2, <2>3, <2>4, <2>5 DEF TypeOK
<1>2. Ordered /\ ParentsAreNearest /\ WalkCollects
  BY <1>0 DEF Init, Ordered, ParentsAreNearest, WalkCollects
<1>3. OpenElements
  <2>1. 1..Len(stack) = {}
    BY EmptySeq DEF Init
  <2> QED BY <1>0, <2>1 DEF Init, OpenElements
<1>4. NothingMissed
  BY <1>0 DEF Init, NothingMissed, Passed
<1>5. Counted /\ RefsUnique
  BY <1>0 DEF Init, Counted, Rendered, RefsUnique
<1> QED BY <1>1, <1>2, <1>3, <1>4, <1>5 DEF IInv

LEMMA InvariantStep == IInv /\ [Next]_vars => IInv'
<1> SUFFICES ASSUME IInv, [Next]_vars PROVE IInv'
  OBVIOUS
<1>1. CASE CollectStep
  BY <1>1, CollectKeeps
<1>2. CASE Collected
  BY <1>2, CollectedKeeps
<1>3. CASE BuildStep
  BY <1>3, BuildKeeps
<1>4. CASE Finish
  BY <1>4, FinishKeeps
<1>5. CASE UNCHANGED vars
  <2>1. UNCHANGED <<pc, how, page, el, maxNodes, maxDepth, at, seen, entered, dom, stack, cut,
                    count, built, omitted, ref, used>>
    BY <1>5 DEF vars, input, buildVars
  <2>2. TypeOK' /\ RefsUnique'
    BY <2>1 DEF IInv, TypeOK, RefsUnique, Rendered, TakesRef, HasStrategy, VoidsAreEmpty
  <2>3. Ordered' /\ ParentsAreNearest' /\ WalkCollects' /\ OpenElements'
    BY <2>1, OverStays DEF IInv, Ordered, WalkCollects, OpenElements, StaysOpen
  <2>4. NothingMissed' /\ Counted'
    BY <2>1 DEF IInv, NothingMissed, Counted, Passed, BuildPassed, Shown, Rendered, DepthOf
  <2> QED BY <2>2, <2>3, <2>4 DEF IInv
<1> QED BY <1>1, <1>2, <1>3, <1>4, <1>5 DEF Next, CollectStep, BuildStep, Done

-----------------------------------------------------------------------------
(* The invariant holds throughout. *)
THEOREM Invariant == Spec => []IInv
BY InvariantInit, InvariantStep, PTL DEF Spec

\* Every variable keeps its type, and a ref is held exactly by the rendered
\* elements that take one.
THEOREM TypeCorrect == Spec => []TypeOK
<1>1. IInv => TypeOK
  BY DEF IInv
<1> QED BY <1>1, Invariant, PTL

\* Looking a ref up concerns one element, on pages of any size: _make_unique
\* always finds a number, and never one that is another element's base.
THEOREM RefsUniqueHolds == Spec => []RefsUnique
<1>1. IInv => RefsUnique
  BY DEF IInv
<1> QED BY <1>1, Invariant, PTL

\* What an agent could use on the page is rendered, or the snapshot says that it
\* is truncated, by script and by parser.
THEOREM LossIsSaidHolds == Spec => []LossIsSaid
<1>1. IInv => LossIsSaid
  <2> SUFFICES ASSUME IInv, pc = "done", ~cut, NEW n \in 2..N, Shown(n), IsSemantic(el[n])
               PROVE  n \in Rendered
    BY DEF LossIsSaid
  <2>0. n \in 1..N /\ n <= N /\ Passed = N /\ BuildPassed = N
    BY NAssumption DEF Passed, BuildPassed
  <2>1. n \in DOMAIN dom
    BY <2>0 DEF IInv, TypeOK, NothingMissed, WalkCollects
  <2> QED BY <2>0, <2>1 DEF IInv, NothingMissed, Rendered
<1> QED BY <1>1, Invariant, PTL

\* The snapshot keeps max_nodes and depth, whatever was collected.
THEOREM WithinLimitsHolds == Spec => []WithinLimits
<1>1. IInv => WithinLimits
  <2> SUFFICES ASSUME IInv PROVE WithinLimits
    OBVIOUS
  <2>1. maxNodes \in Nat \ {0} /\ count \in 0..maxNodes /\ Cardinality(Rendered) \in Nat
    BY LimitsAssumption, RenderedFinite DEF IInv, TypeOK
  <2>2. Cardinality(Rendered) + 1 <= maxNodes
    <3>1. CASE pc = "collect"
      BY <2>1, <3>1, FS_EmptySet DEF IInv, Ordered, Rendered
    <3>2. CASE pc # "collect"
      BY <2>1, <3>2 DEF IInv, Counted
    <3> QED BY <3>1, <3>2
  <2> QED BY <2>2 DEF IInv, Counted, WithinLimits
<1> QED BY <1>1, Invariant, PTL

\* A semantic element is around all that the page has in it, by script and by
\* parser, and an element is in nothing else but void elements left open.
THEOREM NestingKeptHolds == Spec => []NestingKept
<1>1. IInv => NestingKept
  <2> SUFFICES ASSUME IInv, NEW m \in DOMAIN dom, NEW n \in DOMAIN dom
               PROVE  /\ m \in Above(page, n) /\ IsSemantic(el[m]) => m \in Above(dom, n)
                      /\ m \in Above(dom, n) =>
                           m \in Above(page, n) \/ (how = "html" /\ StaysOpen(m) /\ Follows(n, m))
    BY DEF NestingKept
  <2>1. Above(dom, n) = Over[n]
    BY CollectedNesting DEF IInv
  <2>2. n \in 1..N
    BY DEF IInv, TypeOK
  <2> QED BY <2>1, <2>2 DEF Over, Keepers
<1> QED BY <1>1, Invariant, PTL
=============================================================================
