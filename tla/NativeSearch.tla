----------------------------- MODULE NativeSearch -----------------------------
(***************************************************************************)
(* snapshot_search over the artifacts of a native snapshot: the index of   *)
(* refs, the text targets and, when neither answers, the lines of the      *)
(* compact text.  A query is a label some element carries; a label is      *)
(* found in a ref, a role or a name when it is the same or, for a numbered *)
(* ref, what the ref begins with.                                          *)
(***************************************************************************)
EXTENDS NativeTree

Labels == {e.base : e \in {x \in Elements : x.named}}

AnyRole == ""
Roles == ACTIONABLE_ROLES \cup {AnyRole}

Names(n) == IF el[n].named THEN {el[n].base} ELSE {}
RefTerms(r) == IF r = NoRef THEN {} ELSE {r, <<Head(r)>>}

\* Nodes the compact text has a line of its own for.
Shown == DOMAIN up \ omitted

Terms(n) == Names(n) \cup RefTerms(ref[n]) \cup {<<role[n]>>}

\* An index entry is searched together with what refs.json holds for its ref.
RefMatches(q, r) ==
  {n \in DOMAIN up :
     /\ ref[n] # NoRef
     /\ r \in {AnyRole, role[n]}
     /\ q \in Terms(n) \cup Terms(RefMap(ref[n]))}

SeenRefs(q, r) == {ref[n] : n \in RefMatches(q, r)}

TextTargets == {m \in DOMAIN up : target[m] # NoRef}

TextTerms(m) == Names(m) \cup Terms(RefMap(target[m]))

\* Texts whose target is not reported yet; the role a native search asks for
\* is only noted.
TextMatches(q, r) ==
  {m \in TextTargets : target[m] \notin SeenRefs(q, r) /\ q \in TextTerms(m)}

LinesAllowed(r) == r = AnyRole \/ TextTargets = {}

LineMatches(q, r) ==
  {n \in Shown : LinesAllowed(r) /\ RefMatches(q, r) \cup TextMatches(q, r) = {}
                 /\ q \in Terms(n)}

Found(q, r) == RefMatches(q, r) \cup TextMatches(q, r) \cup LineMatches(q, r)

\* Mutant: only elements that matched themselves count.
MatchedRefsOwn(q, r) == SeenRefs(q, r)

MatchedRefs(q, r) == SeenRefs(q, r) \cup {target[m] : m \in TextMatches(q, r)}

\* "Ambiguous native label: multiple operable targets matched."
Ambiguous(q, r) == Cardinality(MatchedRefs(q, r)) > 1

-----------------------------------------------------------------------------
Carriers(q) ==
  {m \in DOMAIN up : q \in Names(m) /\ (role[m] = "text" \/ Actionable(m))}

\* A label the compact text shows is found, in the index or as a line; a text
\* that another element is tapped for is found whatever role is asked for; and
\* a label for which find_text knows two targets is reported as ambiguous, so
\* that the agent does not "blindly tap the first search result when the same
\* label appears in multiple containers" (SKILL.md).
SearchTellsAll ==
  pc = "done" => \A q \in Labels :
    /\ (\E n \in Shown : q \in Names(n)) => Found(q, AnyRole) # {}
    /\ \A m \in Carriers(q), r \in Roles :
         role[m] = "text" /\ ref[m] = NoRef /\ TextTarget(m) # 0 => Found(q, r) # {}
    /\ ~Collide /\ Cardinality({TextTarget(m) : m \in Carriers(q)} \ {0}) > 1
         => Ambiguous(q, AnyRole)
=============================================================================
