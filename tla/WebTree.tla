------------------------------- MODULE WebTree -------------------------------
(***************************************************************************)
(* How a page becomes the tree and the refs of a web snapshot.  A script   *)
(* in the page collects the semantic elements, under limits of depth and   *)
(* number (walkCollect); when the script fails, the page source is parsed  *)
(* instead (_HTMLSnapshotParser); then the tree is built, under the same   *)
(* limits again, and refs are given (_build_node).  Elements are visited   *)
(* one at a time, in document order.                                       *)
(*                                                                         *)
(* Element 1 is the body, of which only what a div has matters.  An        *)
(* element is its tag, its explicit role, its id as a ref base, whether it *)
(* has text, which comes before its children, whether it is hidden, and    *)
(* which it has of "href", "label", "handler" (onclick or tabindex),       *)
(* "presentational" (alt="" or type=hidden) and "offscreen" (its middle is *)
(* not at positive coordinates).                                           *)
(***************************************************************************)
EXTENDS DocumentTree

CONSTANTS
  Elements,   \* elements a page may hold
  NodeLimits, \* values of max_nodes
  DepthLimits \* values of depth

ASSUME LimitsAssumption ==
  NodeLimits \subseteq Nat \ {0} /\ DepthLimits \subseteq Nat

ASSUME IdsAssumption == \A e \in Elements : IsSequence(e.id)

VARIABLES
  pc,         \* "collect", "build" or "done"
  how,        \* "script" or "html": where the elements come from
  page, el,   \* the page: parents and elements
  maxNodes, maxDepth,
  at,         \* the element visited next
  seen,       \* seen in the script, node_count in the parser
  entered,    \* elements whose children are visited
  dom,        \* collected elements and their parents, 0 for the document
  stack,      \* of the parser: open elements, the outermost first
  cut,        \* truncated
  count,      \* _NodeCounter.count
  built,      \* elements in the snapshot, the "..." ones included
  omitted,    \* those rendered as "..."
  ref, used   \* refs, used_refs

input == <<how, page, el, maxNodes, maxDepth>>
buildVars == <<count, built, omitted, ref, used>>
vars == <<pc, input, at, seen, entered, dom, stack, cut, buildVars>>

NoRef == <<>>

\* A limit that is never reached: WEB_DEFAULT_MAX_DEPTH.
Unlimited == N + 1

\* Tags that never have content, nor an end tag in the page source; hr stands
\* for all that are not in NotPushed.
VoidTags == {"hr", "img", "input"}

VoidsAreEmpty == \A n \in 2..N : el[page[n]].tag \notin VoidTags

Init ==
  /\ pc = "collect"
  /\ how \in {"script", "html"}
  /\ page \in Trees
  /\ el \in [1..N -> Elements] /\ el[1].tag = "div"
  /\ VoidsAreEmpty
  /\ maxNodes \in NodeLimits /\ maxDepth \in DepthLimits
  /\ at = 1 /\ seen = 0 /\ entered = {} /\ dom = [n \in {} |-> 0]
  /\ stack = <<>> /\ cut = FALSE
  /\ count = 0 /\ built = {} /\ omitted = {}
  /\ ref = [n \in 1..N |-> NoRef] /\ used = {}

-----------------------------------------------------------------------------
(* Elements, by some of the tags. *)

SEMANTIC_TAGS == {"button", "h1", "hr", "li"}

ROLE_OF_TAG ==
  [a |-> "link", button |-> "button", h1 |-> "heading", hr |-> "separator",
   li |-> "listitem", img |-> "image", input |-> "textbox", section |-> "group", div |-> "generic"]

ACTIONABLE_ROLES ==
  {"button", "checkbox", "combobox", "link", "menuitem", "option", "radio",
   "searchbox", "slider", "spinbutton", "switch", "tab", "textbox"}

ACTIONABLE_TAGS == {"a", "button", "input", "textarea", "select", "option"}

\* isSemantic: the tag decides, and only for other tags the attributes.
IsSemantic(e) ==
  CASE e.role # "" \/ e.tag \in SEMANTIC_TAGS -> TRUE
    [] e.role = "" /\ e.tag = "a" -> "href" \in e.attrs
    [] e.role = "" /\ e.tag = "section" -> "label" \in e.attrs
    [] e.role = "" /\ e.tag \in {"img", "input"} -> "presentational" \notin e.attrs
    [] OTHER -> {"handler", "label"} \cap e.attrs # {}

Role(e) == IF e.role \notin {"", "generic", "element"} THEN e.role ELSE ROLE_OF_TAG[e.tag]

IsActionable(e) ==
  \/ Role(e) \in ACTIONABLE_ROLES \/ e.tag \in ACTIONABLE_TAGS
  \/ "handler" \in e.attrs

Labelled(e) == "label" \in e.attrs \/ e.text

\* Only the script knows where an element is.
HasStrategy(e) ==
  \/ e.id # NoRef \/ Labelled(e) \/ (e.tag = "a" /\ "href" \in e.attrs)
  \/ how = "script" /\ "offscreen" \notin e.attrs

\* Of an element that is not semantic the script reports the text only.
TakesRef(e) ==
  (how = "script" => IsSemantic(e)) /\ IsActionable(e) /\ HasStrategy(e)

DeriveRef(e) ==
  IF e.id # NoRef THEN e.id
  ELSE IF Labelled(e) THEN <<Role(e), "label">> ELSE <<Role(e)>>

-----------------------------------------------------------------------------
(* The script in the page. *)

\* maxDepth || WEB_DEFAULT_MAX_DEPTH
ScriptDepth == IF maxDepth = 0 THEN Unlimited ELSE maxDepth

SemanticAbove(n) == {a \in Above(page, n) \cap entered : IsSemantic(el[a])}

Reached(n) == n = 1 \/ page[n] \in entered

Skips(n) == ~Reached(n) \/ el[n].hidden

\* The element is under the root of what is collected or under its nearest
\* semantic ancestor.
Collect(n) ==
  [e \in DOMAIN dom \cup {n} |->
     IF e # n THEN dom[e]
     ELSE IF SemanticAbove(n) = {} THEN 0 ELSE LastOf(SemanticAbove(n))]

Advance == at' = at + 1

Walking == pc = "collect" /\ how = "script" /\ at <= N

WalkPast ==
  /\ Walking /\ Skips(at) /\ Advance
  /\ UNCHANGED <<pc, input, seen, entered, dom, stack, cut, buildVars>>

WalkStops ==
  /\ Walking /\ ~Skips(at)
  /\ seen >= maxNodes \/ Cardinality(SemanticAbove(at)) > ScriptDepth
  /\ cut' = TRUE
  /\ Advance
  /\ UNCHANGED <<pc, input, seen, entered, dom, stack, buildVars>>

\* Elements that are not semantic are counted too; the limit, when it is
\* reached, is noticed in the loop over the children the element is one of, or
\* in that over its own.
WalkEnters ==
  /\ Walking /\ ~Skips(at)
  /\ seen < maxNodes /\ Cardinality(SemanticAbove(at)) <= ScriptDepth
  /\ seen' = seen + 1
  /\ entered' = entered \cup {at}
  /\ dom' = IF IsSemantic(el[at]) \/ el[at].text THEN Collect(at) ELSE dom
  /\ cut' = (cut \/ (seen' >= maxNodes /\ (at > 1 \/ Children(page, 1) # {})))
  /\ Advance
  /\ UNCHANGED <<pc, input, stack, buildVars>>

-----------------------------------------------------------------------------
(* The parser of the page source: the tags of the page in order, as a browser *)
(* writes it, with an end tag for every element that is not void.  An element *)
(* is opened, and closed before the next element that it does not contain.   *)
(* A void element is not closed by a tag of its own: one the parser does not *)
(* know as such stays open until an element around it is closed.             *)

\* Of VoidTags, those the parser does not push.
NotPushed == {"img", "input"}

StaysOpen(n) == el[n].tag \in VoidTags \ NotPushed

Parsing == pc = "collect" /\ how = "html" /\ at <= N

Top == IF stack = <<>> THEN 0 ELSE stack[Len(stack)]

\* The i-th open element is the innermost one that has an end tag, and the next
\* element is not in it.
Ends(i) ==
  /\ ~StaysOpen(stack[i]) /\ stack[i] \notin Above(page, at)
  /\ \A j \in (i + 1)..Len(stack) : StaysOpen(stack[j])

\* Closes an element and all that is open in it.  The tag of an element that
\* was dropped closes nothing here; it could close an outer element of that
\* name, when no element is added any more.
EndTag ==
  /\ Parsing /\ at > 1
  /\ \E i \in 1..Len(stack) : Ends(i) /\ stack' = SubSeq(stack, 1, i - 1)
  /\ UNCHANGED <<pc, input, at, seen, entered, dom, cut, buildVars>>

\* The body is not pushed.
StartBody ==
  /\ Parsing /\ at = 1 /\ Advance
  /\ UNCHANGED <<pc, input, seen, entered, dom, stack, cut, buildVars>>

CanStart ==
  /\ Parsing /\ at > 1
  /\ \A i \in 1..Len(stack) : StaysOpen(stack[i]) \/ stack[i] \in Above(page, at)

Push == stack' = IF el[at].tag \in NotPushed THEN stack ELSE Append(stack, at)

StartTagDropped ==
  /\ CanStart /\ seen >= maxNodes
  /\ cut' = TRUE /\ Advance
  /\ UNCHANGED <<pc, input, seen, entered, dom, stack, buildVars>>

\* Mutant: the element is added to the document.
StartTagFlat ==
  /\ CanStart /\ seen < maxNodes
  /\ dom' = [e \in DOMAIN dom \cup {at} |-> IF e = at THEN 0 ELSE dom[e]]
  /\ seen' = seen + 1
  /\ Push /\ Advance
  /\ UNCHANGED <<pc, input, entered, cut, buildVars>>

StartTag ==
  /\ CanStart /\ seen < maxNodes
  /\ dom' = [e \in DOMAIN dom \cup {at} |-> IF e = at THEN Top ELSE dom[e]]
  /\ seen' = seen + 1
  /\ Push /\ Advance
  /\ UNCHANGED <<pc, input, entered, cut, buildVars>>

-----------------------------------------------------------------------------
(* The tree of the snapshot. *)

\* The document itself takes one of the nodes.
Collected ==
  /\ pc = "collect" /\ at > N
  /\ pc' = "build"
  /\ at' = 1 /\ count' = 1
  /\ UNCHANGED <<input, seen, entered, dom, stack, cut, built, omitted, ref, used>>

\* Mutant: the first number is taken for free.
MakeUniqueOnce(base) == IF base \notin used THEN base ELSE Append(base, 2)

\* _make_unique: the first number that is free.
MakeUnique(base) ==
  IF base \notin used THEN base
  ELSE Append(base, CHOOSE i \in 2..(N + 1) :
                      /\ Append(base, i) \notin used
                      /\ \A j \in 2..(i - 1) : Append(base, j) \in used)

DepthOf(n) == Cardinality(Above(dom, n)) + 1

Building == pc = "build" /\ at <= N

\* The children of an omitted node are not visited.
Visited(n) == n \in DOMAIN dom /\ (dom[n] = 0 \/ dom[n] \in built \ omitted)

BuildSkips ==
  /\ Building /\ ~Visited(at) /\ Advance
  /\ UNCHANGED <<pc, input, seen, entered, dom, stack, cut, buildVars>>

\* Mutant: a node beyond the limit is counted.
BuildOmitsCounting ==
  /\ Building /\ Visited(at)
  /\ count >= maxNodes \/ DepthOf(at) > maxDepth
  /\ count' = count + 1
  /\ built' = built \cup {at} /\ omitted' = omitted \cup {at}
  /\ cut' = TRUE
  /\ Advance
  /\ UNCHANGED <<pc, input, seen, entered, dom, stack, ref, used>>

\* Mutant: the snapshot does not say that it is truncated.
BuildOmitsSilently ==
  /\ Building /\ Visited(at)
  /\ count >= maxNodes \/ DepthOf(at) > maxDepth
  /\ count' = IF count >= maxNodes THEN count ELSE count + 1
  /\ built' = built \cup {at} /\ omitted' = omitted \cup {at}
  /\ Advance
  /\ UNCHANGED <<pc, input, seen, entered, dom, stack, cut, ref, used>>

BuildOmits ==
  /\ Building /\ Visited(at)
  /\ count >= maxNodes \/ DepthOf(at) > maxDepth
  /\ count' = IF count >= maxNodes THEN count ELSE count + 1
  /\ built' = built \cup {at} /\ omitted' = omitted \cup {at}
  /\ cut' = TRUE
  /\ Advance
  /\ UNCHANGED <<pc, input, seen, entered, dom, stack, ref, used>>

\* Mutant: the limit is checked and nodes are not counted.
BuildUncounted ==
  /\ Building /\ Visited(at)
  /\ count < maxNodes /\ DepthOf(at) <= maxDepth
  /\ count' = count
  /\ built' = built \cup {at}
  /\ IF TakesRef(el[at])
       THEN /\ ref' = [ref EXCEPT ![at] = MakeUnique(DeriveRef(el[at]))]
            /\ used' = used \cup {ref'[at]}
       ELSE UNCHANGED <<ref, used>>
  /\ Advance
  /\ UNCHANGED <<pc, input, seen, entered, dom, stack, cut, omitted>>

Build ==
  /\ Building /\ Visited(at)
  /\ count < maxNodes /\ DepthOf(at) <= maxDepth
  /\ count' = count + 1
  /\ built' = built \cup {at}
  /\ IF TakesRef(el[at])
       THEN /\ ref' = [ref EXCEPT ![at] = MakeUnique(DeriveRef(el[at]))]
            /\ used' = used \cup {ref'[at]}
       ELSE UNCHANGED <<ref, used>>
  /\ Advance
  /\ UNCHANGED <<pc, input, seen, entered, dom, stack, cut, omitted>>

Finish ==
  /\ pc = "build" /\ at > N
  /\ pc' = "done"
  /\ UNCHANGED <<input, at, seen, entered, dom, stack, cut, buildVars>>

Done == pc = "done" /\ UNCHANGED vars

Next ==
  \/ WalkPast \/ WalkStops \/ WalkEnters
  \/ StartBody \/ EndTag \/ StartTagDropped \/ StartTag
  \/ Collected \/ BuildSkips \/ BuildOmits \/ Build \/ Finish
  \/ Done

Spec == Init /\ [][Next]_vars

-----------------------------------------------------------------------------
Rendered == built \ omitted

\* In the page and not inside anything hidden.
Shown(n) == \A a \in Above(page, n) \cup {n} : ~el[a].hidden

TypeOK ==
  /\ pc \in {"collect", "build", "done"} /\ how \in {"script", "html"}
  /\ page \in Trees /\ el \in [1..N -> Elements] /\ VoidsAreEmpty
  /\ maxNodes \in NodeLimits /\ maxDepth \in DepthLimits
  /\ at \in 1..(N + 1) /\ seen \in 0..N /\ entered \subseteq 1..N
  /\ DOMAIN dom \subseteq 1..N /\ \A n \in DOMAIN dom : dom[n] \in DOMAIN dom \cup {0}
  /\ stack \in Seq(1..N) /\ cut \in BOOLEAN
  /\ count \in 0..maxNodes /\ built \subseteq DOMAIN dom /\ omitted \subseteq built
  /\ DOMAIN ref = 1..N
  /\ \A n \in 1..N : ref[n] # NoRef <=> n \in Rendered /\ TakesRef(el[n])
  /\ used = {ref[n] : n \in 1..N} \ {NoRef}

\* Two elements never have one ref, even when one's base is the other's
\* numbered ref, so looking a ref up and acting on it concern one element.
RefsUnique == \A m, n \in 1..N : ref[m] = ref[n] /\ ref[m] # NoRef => m = n

\* A semantic element of the page that is shown is rendered, or the snapshot
\* says that it is truncated, whichever of the two limits cut it off.
LossIsSaid ==
  pc = "done" /\ ~cut =>
    \A n \in 2..N : Shown(n) /\ IsSemantic(el[n]) => n \in Rendered

\* The snapshot keeps both limits whatever the script or the parser collected,
\* the document counted and "..." not.
WithinLimits ==
  /\ Cardinality(Rendered) + 1 <= maxNodes
  /\ \A n \in Rendered : DepthOf(n) <= maxDepth

\* Element n follows the void element m in the element around m.
Follows(n, m) == m < n /\ page[m] \in Above(page, n)

\* A semantic element is around all that the page has in it, by either way to
\* the tree.  Around an element are, besides, the void elements that the parser
\* leaves open before it, in an element it is in, and nothing else: no end tag
\* takes an element out of what it is in, or leaves it in what has ended.
NestingKept ==
  \A m, n \in DOMAIN dom :
    /\ m \in Above(page, n) /\ IsSemantic(el[m]) => m \in Above(dom, n)
    /\ m \in Above(dom, n) =>
         m \in Above(page, n) \/ (how = "html" /\ StaysOpen(m) /\ Follows(n, m))
=============================================================================
